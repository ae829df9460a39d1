------------------------------ MODULE QuizProofs ------------------------------
(***************************************************************************)
(* What the quiz keeps for any number of commands, questions, answers and  *)
(* events.                                                                 *)
(*                                                                         *)
(* The argument has three layers.  A process that lost the lock can only   *)
(* repeat a sequence number, which breaks the chain and leaves its state   *)
(* as it was: so what is invariant of that state (Inv) needs no mutual     *)
(* exclusion.  That the chain is not broken, and that the record is not    *)
(* rebuilt without the session, does need it, and holds until a waiter     *)
(* moves the lock of a live process away (LockInv): deaths, and locks      *)
(* moved away from the dead, do no harm.  That a plan which passed the     *)
(* guards is legal needs the lessons too (SoundInv).                       *)
(***************************************************************************)
EXTENDS Quiz, FiniteSetTheorems, TLAPS

(* The shape of a state.  What is not told apart is not typed: the fields of a record are *)
(* named, and a list is a sequence of what it holds.                                      *)

IsState(s) ==
    s \in [version : {s.version}, status : {s.status}, index : {s.index}, current : {s.current},
           attempts : {s.attempts}, lessons : {s.lessons}, keys : {s.keys}]
IsAttempt(a) ==
    a \in [id : {a.id}, question : {a.question}, answer : {a.answer}, hint : {a.hint},
           fresh : {a.fresh}, auto : {a.auto}, review : {a.review}]
IsList(x) == x \in Seq(ToSet(x))

LEMMA ListFacts ==
    ASSUME NEW x, IsList(x)
    PROVE  Len(x) \in Nat /\ DOMAIN x = 1 .. Len(x)
  BY DEF IsList

LEMMA SequenceIsList ==
    ASSUME NEW S, NEW y \in Seq(S)
    PROVE  IsList(y)
<1>1. \A i \in 1 .. Len(y) : y[i] \in ToSet(y)
  BY DEF ToSet
<1>2. y = [i \in 1 .. Len(y) |-> y[i]] /\ Len(y) \in Nat
  OBVIOUS
<1> QED
  BY <1>1, <1>2 DEF IsList

LEMMA AppendFacts ==
    ASSUME NEW x, IsList(x), NEW e
    PROVE  LET y == Append(x, e) IN
           /\ IsList(y) /\ Len(y) = Len(x) + 1
           /\ \A i \in DOMAIN x : y[i] = x[i]
           /\ y[Len(x) + 1] = e
<1> DEFINE S == ToSet(x) \cup {e}
           y == Append(x, e)
<1>1. x \in Seq(S) /\ e \in S
  BY DEF IsList
<1>2. y \in Seq(S) /\ Len(y) = Len(x) + 1 /\ Len(x) \in Nat
  BY <1>1
<1>3. /\ \A i \in DOMAIN x : y[i] = x[i]
      /\ y[Len(x) + 1] = e
  BY <1>1
<1> QED
  BY <1>2, <1>3, SequenceIsList

LEMMA ReviewedFacts ==
    ASSUME NEW s, IsState(s), IsList(s.attempts), \A j \in DOMAIN s.attempts : IsAttempt(s.attempts[j]),
           NEW w, Place(s.attempts, w.id) \in DOMAIN s.attempts, NEW review, NEW auto, NEW status
    PROVE  LET t == With(s, w, review, auto, status)
               i == Place(s.attempts, w.id) IN
           /\ IsState(t) /\ t.status = status /\ t.version = s.version /\ t.index = s.index
           /\ t.current = s.current /\ t.lessons = s.lessons
           /\ IsList(t.attempts) /\ Len(t.attempts) = Len(s.attempts)
           /\ \A j \in DOMAIN s.attempts : j # i => t.attempts[j] = s.attempts[j]
           /\ IsAttempt(t.attempts[i])
           /\ t.attempts[i].id = s.attempts[i].id /\ t.attempts[i].question = s.attempts[i].question
           /\ t.attempts[i].fresh = s.attempts[i].fresh /\ t.attempts[i].answer = s.attempts[i].answer
           /\ t.attempts[i].hint = s.attempts[i].hint
           /\ t.attempts[i].review = review /\ t.attempts[i].auto = auto
<1> DEFINE i == Place(s.attempts, w.id)
           t == With(s, w, review, auto, status)
           a == [[s.attempts[i] EXCEPT !.review = review] EXCEPT !.auto = auto]
           x == s.attempts
           y == [x EXCEPT ![i] = a]
<1>1. t = [s EXCEPT !.attempts[i].review = review, !.attempts[i].auto = auto, !.status = status]
  BY DEF With
<1>2. /\ IsState(t) /\ t.status = status /\ t.version = s.version /\ t.index = s.index
      /\ t.current = s.current /\ t.lessons = s.lessons
  BY <1>1 DEF IsState
<1>3. t.attempts = y
  <2> HIDE DEF i
  <2>1. x \in [DOMAIN x -> ToSet(x)]
     BY DEF IsList, ToSet
  <2>2. t.attempts = [[x EXCEPT ![i] = [x[i] EXCEPT !.review = review]]
                         EXCEPT ![i] = [[x EXCEPT ![i] = [x[i] EXCEPT !.review = review]][i] EXCEPT !.auto = auto]]
     BY <1>1 DEF IsState
  <2>3. [x EXCEPT ![i] = [x[i] EXCEPT !.review = review]][i] = [x[i] EXCEPT !.review = review]
     BY <2>1 DEF i
  <2> QED
     BY <2>1, <2>2, <2>3
<1>4. IsAttempt(a) /\ a.id = x[i].id /\ a.question = x[i].question /\ a.fresh = x[i].fresh
      /\ a.answer = x[i].answer /\ a.hint = x[i].hint
      /\ a.review = review /\ a.auto = auto
  BY DEF IsAttempt
<1> HIDE DEF a, t
<1>5. IsList(y) /\ Len(y) = Len(x) /\ y[i] = a /\ \A j \in DOMAIN x : j # i => y[j] = x[j]
  <2> HIDE DEF i
  <2>0. i \in DOMAIN x
    BY DEF i
  <2>1. x \in Seq(ToSet(x) \cup {a})
    BY DEF IsList
  <2>2. y \in Seq(ToSet(x) \cup {a}) /\ Len(y) = Len(x) /\ y[i] = a
    BY <2>0, <2>1
  <2>3. \A j \in DOMAIN x : j # i => y[j] = x[j]
    BY <2>0, <2>1
  <2> QED
    BY <2>2, <2>3, SequenceIsList
<1> HIDE DEF y
<1>6. /\ IsList(t.attempts) /\ Len(t.attempts) = Len(s.attempts)
      /\ \A j \in DOMAIN s.attempts : j # i => t.attempts[j] = s.attempts[j]
      /\ t.attempts[i] = a
  BY <1>3, <1>5
<1> QED
  BY <1>2, <1>4, <1>6 DEF a, t

-----------------------------------------------------------------------------
(* What is true of the state after the last event. *)

\* Answers the host agent reviews: texts, and anything in a Socratic session.
Judged(q, ses) == Bank[q].kind = "text" \/ ses.style = "socratic"

\* An answer that was stale when it was given has no automatic result, and a choice in a regular
\* session has no review but "stale".
NotScored(a, ses) ==
    ~ a.fresh =>
        /\ a.auto = "none"
        /\ ~ Judged(a.question, ses) => a.review.status \in {"none", "stale"}

\* The automatic result repeats the answer, and a review of the attempt agrees with it.
Marks(a, ses) ==
    /\ Bank[a.question].kind = "choice" /\ ses.style = "regular" /\ a.auto = a.answer
    /\ ~ Unreviewed(a) =>
          /\ a.review.status = "graded" /\ a.review.score \in {"high", "low"}
          /\ a.review.outcome = IF a.auto = "right" THEN "mastered" ELSE "exhausted"

AttemptFits(a, ses) ==
    /\ a.id \in AttemptIds /\ a.hint \in Nat
    /\ a.auto # "none" => Marks(a, ses)
    /\ ~ Unreviewed(a) =>
          a.review.status # "none" /\ a.review.hint = a.hint /\ (a.hint > 0 => ~ a.review.unaided)

IsLesson(l) ==
    l \in [question : {l.question}, open : {l.open}, revisions : {l.revisions}, feedback : {l.feedback}]

FewTries(s, q) == Cardinality(TriesOf(s, q)) < MaxTries

Shaped(s) ==
    /\ IsState(s) /\ IsList(s.attempts) /\ s.index \in Nat
    /\ \A i \in DOMAIN s.attempts : IsAttempt(s.attempts[i])
    /\ Distinct(s.attempts)

LessonsFit(s, ses) ==
    /\ IsList(s.lessons)
    /\ \A i \in DOMAIN s.lessons : IsLesson(s.lessons[i])
    /\ PaperOk(ses) => \A i \in DOMAIN s.lessons : s.lessons[i].question \in ToSet(ses.paper)

\* Only the last attempt may lack its review, and then the session waits for it.
Awaited(s, ses) ==
    \A i \in DOMAIN s.attempts : Unreviewed(s.attempts[i]) =>
        /\ i = Len(s.attempts) /\ s.attempts[i].question = s.current
        /\ s.status \in {"answer_saved", "agent_review_pending"}
        /\ s.status = "agent_review_pending" => Judged(s.attempts[i].question, ses)

\* In a session that is reviewed the last attempt is the current question's, and a probe that is
\* due can be asked.
Closing(s, ses) ==
    s.status = "reviewed" =>
        LET n == Len(s.attempts) IN
        /\ s.current # 0 /\ n \in DOMAIN s.attempts /\ s.attempts[n].question = s.current
        /\ s.attempts[n].review.outcome = "probe" =>
              ses.style = "socratic" /\ FewTries(s, s.current)

\* The k-th attempt is the last of its question, and needs no probe.
Settles(s, k, q) ==
    /\ s.attempts[k].question = q
    /\ ~ Unreviewed(s.attempts[k]) /\ s.attempts[k].review.outcome # "probe"
    /\ \A j \in DOMAIN s.attempts : j > k => s.attempts[j].question # q

\* The current question is the one at the index, and those before it are settled.
Passed(s, ses) ==
    /\ s.current = IF s.index <= Len(ses.paper) THEN ses.paper[s.index] ELSE 0
    /\ s.index > 0
    /\ \A i \in DOMAIN s.attempts : s.attempts[i].question \in ToSet(ses.paper)
    /\ \A i \in 1 .. s.index - 1 : \E k \in DOMAIN s.attempts : Settles(s, k, ses.paper[i])

\* The invariant of the state.
Good(s, ses) ==
    /\ Shaped(s) /\ Awaited(s, ses) /\ Closing(s, ses) /\ LessonsFit(s, ses)
    /\ \A i \in DOMAIN s.attempts : NotScored(s.attempts[i], ses) /\ AttemptFits(s.attempts[i], ses)
    /\ PaperOk(ses) => Passed(s, ses)

\* What a command may rely on after it read s, when it finds t under the lock: attempts keep their
\* place and what they say, a review that was given stays, and an automatic result is only taken
\* back for an answer that is stale.
Extends(s, t) ==
    /\ Len(s.attempts) <= Len(t.attempts)
    /\ \A i \in DOMAIN s.attempts :
          /\ t.attempts[i].id = s.attempts[i].id /\ t.attempts[i].question = s.attempts[i].question
          /\ t.attempts[i].fresh = s.attempts[i].fresh /\ t.attempts[i].answer = s.attempts[i].answer
          /\ t.attempts[i].hint = s.attempts[i].hint
          /\ ~ Unreviewed(s.attempts[i]) => t.attempts[i].review = s.attempts[i].review
          /\ s.attempts[i].auto # "none" =>
                t.attempts[i].auto = s.attempts[i].auto \/ t.attempts[i].review.status = "stale"

\* The review a command has prepared for an attempt.
ReviewFits(w, s, a, ses) ==
    /\ w.item \in {"stale", "auto", "agent"}
    /\ w.body.hint = a.hint /\ (a.hint > 0 => ~ w.body.unaided)
    /\ w.item = "stale" => w.body.status = "stale" /\ w.body.outcome = "none"
    /\ w.item = "auto" =>
          /\ a.fresh /\ Bank[a.question].kind = "choice" /\ ses.style = "regular"
          /\ w.body.status = "graded" /\ w.body.score \in {"high", "low"}
          /\ w.body.outcome = IF a.answer = "right" THEN "mastered" ELSE "exhausted"
    /\ w.item = "agent" =>
          /\ Judged(a.question, ses) /\ w.body.status # "none"
          /\ w.body.outcome = "probe" =>
                ses.style = "socratic" /\ (Unreviewed(a) => FewTries(s, a.question))

LessonTypes == {"teaching_started", "teaching_feedback_submitted", "teaching_revised",
                "teaching_completed", "teaching_invalidated"}

\* The event a command has prepared: true of the state it read, and of every state that extends it.
PlanFits(w, s, ses) ==
    /\ w.type \in {"answer_submitted", "answer_reviewed", "grading_started", "question_presented",
                   "socratic_turn", "session_ended"} \cup LessonTypes
    /\ w.type = "answer_submitted" =>
          /\ IsAttempt(w.body) /\ Unreviewed(w.body) /\ AttemptFits(w.body, ses)
          /\ ~ w.body.fresh => w.body.auto = "none"
    /\ w.type = "answer_reviewed" =>
          \E i \in DOMAIN s.attempts :
              s.attempts[i].id = w.id /\ ReviewFits(w, s, s.attempts[i], ses)
    /\ w.type = "grading_started" =>
          \E i \in DOMAIN s.attempts : s.attempts[i].id = w.id /\ Judged(s.attempts[i].question, ses)
    /\ w.type \in {"question_presented", "session_ended"} =>
          /\ \E i \in DOMAIN s.attempts :
                /\ s.attempts[i].id = w.id /\ ~ Unreviewed(s.attempts[i])
                /\ s.attempts[i].review.outcome # "probe"
          /\ PaperOk(ses) => \E n \in DOMAIN ses.paper :
                /\ w.question = ses.paper[n]
                /\ w.type = "question_presented" =>
                      n + 1 \in DOMAIN ses.paper /\ w.body = ses.paper[n + 1]

-----------------------------------------------------------------------------
(* A step of mutate: what it makes of a good state is good, and extends it. *)

LEMMA MaxIs ==
    ASSUME NEW S \in SUBSET Int, NEW m \in S, \A y \in S : y <= m
    PROVE  Max(S) = m
<1>1. \A y \in S : m >= y
  OBVIOUS
<1>2. \A x \in S : (\A y \in S : x >= y) => x = m
  OBVIOUS
<1> QED
  BY <1>1, <1>2 DEF Max

LEMMA PlaceIs ==
    ASSUME NEW s, Shaped(s), NEW i \in DOMAIN s.attempts
    PROVE  Place(s.attempts, s.attempts[i].id) = i
  BY DEF Place, Shaped, Distinct

\* Fields that stay give the same tries.
LEMMA SameTries ==
    ASSUME NEW s, NEW t, NEW q, DOMAIN t.attempts = DOMAIN s.attempts,
           \A i \in DOMAIN s.attempts : t.attempts[i].question = s.attempts[i].question
    PROVE  TriesOf(t, q) = TriesOf(s, q)
  BY DEF TriesOf

LEMMA LastTryIs ==
    ASSUME NEW s, Shaped(s), NEW k \in DOMAIN s.attempts,
           \A j \in DOMAIN s.attempts : j > k => s.attempts[j].question # s.attempts[k].question
    PROVE  LastTry(s, s.attempts[k].question) = s.attempts[k].id
<1> DEFINE q == s.attempts[k].question
<1>1. TriesOf(s, q) \in SUBSET Int /\ k \in TriesOf(s, q)
  BY ListFacts DEF TriesOf, Shaped
<1>2. \A y \in TriesOf(s, q) : y <= k
  BY <1>1, ListFacts DEF TriesOf, Shaped
<1>3. Max(TriesOf(s, q)) = k
  BY <1>1, <1>2, MaxIs
<1> QED
  BY <1>1, <1>3 DEF LastTry

\* A change that leaves the attempts, the question and the passed ones alone.
LEMMA SameAttempts ==
    ASSUME NEW ses, NEW s, Good(s, ses), NEW t, IsState(t), t.attempts = s.attempts, t.current = s.current,
           t.index = s.index, LessonsFit(t, ses), t.status # "reviewed",
           \A i \in DOMAIN s.attempts : Unreviewed(s.attempts[i]) =>
               /\ t.status \in {"answer_saved", "agent_review_pending"}
               /\ t.status = "agent_review_pending" => Judged(s.attempts[i].question, ses)
    PROVE  Good(t, ses) /\ Extends(s, t)
<1>1. Shaped(t) /\ Awaited(t, ses) /\ Closing(t, ses)
  BY DEF Good, Shaped, Awaited, Closing
<1>2. \A i \in DOMAIN t.attempts : NotScored(t.attempts[i], ses) /\ AttemptFits(t.attempts[i], ses)
  BY DEF Good
<1>3. PaperOk(ses) => Passed(t, ses)
  BY DEF Good, Passed, Settles
<1>4. Extends(s, t)
  BY ListFacts DEF Extends, Good, Shaped
<1> QED
  BY <1>1, <1>2, <1>3, <1>4 DEF Good

LEMMA SameLessons ==
    ASSUME NEW ses, NEW s, Good(s, ses), NEW t, t.lessons = s.lessons
    PROVE  LessonsFit(t, ses)
  BY DEF Good, LessonsFit

LEMMA StepAnswer ==
    ASSUME NEW ses, NEW s, Good(s, ses), NEW w, PlanFits(w, s, ses), w.type = "answer_submitted",
           NEW t \in Into(w, s), t # s, Legal(w, s, t, Len(ses.paper))
    PROVE  Good(t, ses) /\ Extends(s, t)
<1> DEFINE m == Len(s.attempts)
<1>1. t \in IntoAnswer(w, s)
  BY DEF Into
<1>2. t = [s EXCEPT !.attempts = Append(@, w.body), !.status = "answer_saved"]
      /\ s.status = "question_open" /\ Here(w, s)
  BY <1>1 DEF IntoAnswer
<1>3. /\ IsState(t) /\ t.attempts = Append(s.attempts, w.body) /\ t.status = "answer_saved"
      /\ t.index = s.index /\ t.current = s.current /\ t.lessons = s.lessons
  BY <1>2 DEF IsState, Good, Shaped
<1>4. /\ IsList(t.attempts) /\ Len(t.attempts) = m + 1 /\ m \in Nat
      /\ \A i \in DOMAIN s.attempts : t.attempts[i] = s.attempts[i]
      /\ t.attempts[m + 1] = w.body /\ DOMAIN s.attempts = 1 .. m /\ DOMAIN t.attempts = 1 .. m + 1
  BY <1>3, AppendFacts, ListFacts DEF Good, Shaped
<1>5. /\ IsAttempt(w.body) /\ Unreviewed(w.body) /\ AttemptFits(w.body, ses)
      /\ ~ w.body.fresh => w.body.auto = "none"
  BY DEF PlanFits
<1>6. w.body.question = s.current /\ Distinct(t.attempts) /\ s.current # 0
  <2>1. SoundState(t, Len(ses.paper)) /\ Moves(w, s, t)
    BY DEF Legal
  <2>2. AddsAttempt(w, s, t)
    BY <2>1 DEF Moves
  <2> QED
    BY <2>1, <2>2, <1>3 DEF AddsAttempt, SoundState
<1>7. Shaped(t)
  BY <1>3, <1>4, <1>5, <1>6 DEF Shaped, Good
<1>8. \A i \in DOMAIN s.attempts : ~ Unreviewed(s.attempts[i])
  BY <1>2 DEF Good, Awaited
<1>9. Awaited(t, ses) /\ Closing(t, ses)
  BY <1>3, <1>4, <1>6, <1>8 DEF Awaited, Closing
<1>10. ASSUME NEW i \in DOMAIN t.attempts PROVE NotScored(t.attempts[i], ses) /\ AttemptFits(t.attempts[i], ses)
  <2>1. CASE i \in DOMAIN s.attempts
    BY <2>1, <1>4 DEF Good
  <2>2. CASE i = m + 1
    BY <2>2, <1>4, <1>5 DEF NotScored, Unreviewed, NoReview
  <2> QED
    BY <2>1, <2>2, <1>4
<1>11. ASSUME PaperOk(ses) PROVE Passed(t, ses)
  <2>1. Passed(s, ses)
    BY <1>11 DEF Good
  <2>2. s.index \in DOMAIN ses.paper /\ s.current = ses.paper[s.index]
    BY <2>1, <1>6, <1>11 DEF Passed, PaperOk, Good, Shaped
  <2>3. ASSUME NEW i \in 1 .. t.index - 1
        PROVE  \E k \in DOMAIN t.attempts : Settles(t, k, ses.paper[i])
    <3>1. PICK k \in DOMAIN s.attempts : Settles(s, k, ses.paper[i])
      BY <2>1, <1>3 DEF Passed
    <3>2. ses.paper[i] # s.current
      <4>1. ses.paper \in Seq(Questions) /\ s.index \in Nat /\ i \in DOMAIN ses.paper /\ i # s.index
        BY <1>11, <2>2, <1>3, <2>3 DEF PaperOk, Good, Shaped
      <4> QED
        BY <4>1, <2>2, <1>11 DEF PaperOk
    <3>3. t.attempts[k] = s.attempts[k] /\ k \in DOMAIN t.attempts
      BY <1>4
    <3>4. ASSUME NEW j \in DOMAIN t.attempts, j > k PROVE t.attempts[j].question # ses.paper[i]
      <4>1. CASE j \in DOMAIN s.attempts
        BY <3>1, <3>4, <4>1, <1>4 DEF Settles
      <4>2. CASE j = m + 1
        BY <3>2, <4>2, <1>4, <1>6
      <4> QED
        BY <4>1, <4>2, <1>4
    <3>5. Settles(t, k, ses.paper[i])
      BY <3>1, <3>3, <3>4 DEF Settles
    <3> QED
      BY <3>3, <3>5
  <2>4. s.current \in ToSet(ses.paper)
    BY <2>2 DEF ToSet
  <2>5. \A i \in DOMAIN t.attempts : t.attempts[i].question \in ToSet(ses.paper)
    BY <2>1, <2>4, <1>4, <1>6 DEF Passed
  <2> QED
    BY <2>1, <2>3, <2>5, <1>3 DEF Passed
<1>12. Extends(s, t)
  BY <1>4 DEF Extends
<1> QED
  BY <1>3, <1>7, <1>9, <1>10, <1>11, <1>12, SameLessons DEF Good

\* What a review that is written must be for the state to stay good: the review given and the
\* automatic answer kept with it.
Reviewable(s, a, review, auto, ses) ==
    /\ review.status # "none" /\ review.hint = a.hint /\ (a.hint > 0 => ~ review.unaided)
    /\ ~ a.fresh => auto = "none" /\ (~ Judged(a.question, ses) => review.status = "stale")
    /\ a.auto # "none" => auto = a.auto \/ review.status = "stale"
    /\ auto # "none" =>
          /\ Bank[a.question].kind = "choice" /\ ses.style = "regular" /\ auto = a.answer
          /\ review.status = "graded" /\ review.score \in {"high", "low"}
          /\ review.outcome = IF auto = "right" THEN "mastered" ELSE "exhausted"
    /\ review.outcome = "probe" => ses.style = "socratic" /\ FewTries(s, a.question)

LEMMA StepReviewed ==
    ASSUME NEW ses, NEW s, Good(s, ses), NEW w, NEW i \in DOMAIN s.attempts, s.attempts[i].id = w.id,
           Unreviewed(s.attempts[i]),
           NEW review, NEW auto, Reviewable(s, s.attempts[i], review, auto, ses), NEW t,
           t = With(s, w, review, auto, "reviewed"), SoundState(t, Len(ses.paper))
    PROVE  Good(t, ses) /\ Extends(s, t)
<1>1. Place(s.attempts, w.id) = i
  BY PlaceIs DEF Good
<1>2. /\ IsState(t) /\ t.status = "reviewed" /\ t.index = s.index /\ t.current = s.current
      /\ t.lessons = s.lessons /\ t.attempts[i].answer = s.attempts[i].answer
      /\ t.attempts[i].hint = s.attempts[i].hint
      /\ IsList(t.attempts) /\ Len(t.attempts) = Len(s.attempts)
      /\ \A j \in DOMAIN s.attempts : j # i => t.attempts[j] = s.attempts[j]
      /\ IsAttempt(t.attempts[i])
      /\ t.attempts[i].id = s.attempts[i].id /\ t.attempts[i].question = s.attempts[i].question
      /\ t.attempts[i].fresh = s.attempts[i].fresh
      /\ t.attempts[i].review = review /\ t.attempts[i].auto = auto
  BY <1>1, ReviewedFacts DEF Good, Shaped
<1>3. DOMAIN t.attempts = DOMAIN s.attempts
  BY <1>2, ListFacts DEF Good, Shaped
<1>4. ~ Unreviewed(t.attempts[i])
  BY <1>2 DEF Unreviewed, NoReview, Reviewable
<1>5. i = Len(s.attempts) /\ s.attempts[i].question = s.current
  BY DEF Good, Awaited
<1>6. Shaped(t)
  BY <1>2, <1>3 DEF Shaped, Good, SoundState
<1>7. Awaited(t, ses)
  BY <1>2, <1>3, <1>4, <1>5 DEF Awaited, Good
<1>8. Closing(t, ses)
  <2>1. TriesOf(t, s.current) = TriesOf(s, s.current)
    BY <1>2, <1>3, SameTries
  <2> QED
    BY <2>1, <1>2, <1>3, <1>5 DEF Closing, FewTries, SoundState, Reviewable
<1>9. ASSUME NEW j \in DOMAIN t.attempts
      PROVE  NotScored(t.attempts[j], ses) /\ AttemptFits(t.attempts[j], ses)
  <2>1. CASE j # i
    BY <2>1, <1>2, <1>3 DEF Good
  <2>2. CASE j = i
    <3>1. NotScored(t.attempts[i], ses)
      BY <1>2 DEF NotScored, Reviewable
    <3>2. AttemptFits(s.attempts[i], ses)
      BY DEF Good
    <3>3. AttemptFits(t.attempts[i], ses)
      BY <3>2, <1>2 DEF AttemptFits, Marks, Reviewable
    <3> QED
      BY <2>2, <3>1, <3>3
  <2> QED
    BY <2>1, <2>2
<1>10. ASSUME PaperOk(ses) PROVE Passed(t, ses)
  <2>1. Passed(s, ses)
    BY <1>10 DEF Good
  <2>2. ASSUME NEW k \in DOMAIN s.attempts, NEW q, Settles(s, k, q) PROVE Settles(t, k, q)
    BY <2>2, <1>2, <1>3 DEF Settles
  <2> QED
    BY <2>1, <2>2, <1>2, <1>3 DEF Passed
<1>11. Extends(s, t)
  <2>1. Len(s.attempts) <= Len(t.attempts)
    BY <1>2, ListFacts DEF Good, Shaped
  <2> QED
    BY <2>1, <1>2, <1>3 DEF Extends, Reviewable
<1> QED
  BY <1>2, <1>6, <1>7, <1>8, <1>9, <1>10, <1>11, SameLessons DEF Good

LEMMA StepReview ==
    ASSUME NEW ses, NEW s, Good(s, ses), NEW w, PlanFits(w, s, ses), w.type = "answer_reviewed",
           NEW t \in Into(w, s), t # s, Legal(w, s, t, Len(ses.paper))
    PROVE  Good(t, ses) /\ Extends(s, t)
<1>1. PICK i \in DOMAIN s.attempts : s.attempts[i].id = w.id /\ ReviewFits(w, s, s.attempts[i], ses)
  BY DEF PlanFits
<1>2. Item(s.attempts, w.id) = s.attempts[i]
  BY <1>1, PlaceIs DEF Item, Good
<1>3. SoundState(t, Len(ses.paper))
  BY DEF Legal
<1>4. NotScored(s.attempts[i], ses) /\ AttemptFits(s.attempts[i], ses)
  BY DEF Good
<1>5. CASE w.item = "stale"
  <2>1. t \in IntoStale(w, s)
    BY <1>5 DEF Into
  <2>2. t = With(s, w, w.body, "none", "reviewed") /\ Unreviewed(s.attempts[i])
    BY <2>1, <1>2 DEF IntoStale
  <2>3. Reviewable(s, s.attempts[i], w.body, "none", ses)
    BY <1>1, <1>5 DEF ReviewFits, Reviewable
  <2> QED
    BY <1>1, <1>3, <2>2, <2>3, StepReviewed
<1>6. CASE w.item = "auto"
  <2>1. t \in IntoAuto(w, s)
    BY <1>6 DEF Into
  <2>2. t = With(s, w, w.body, s.attempts[i].answer, "reviewed") /\ Unreviewed(s.attempts[i])
    BY <2>1, <1>2 DEF IntoAuto
  <2>3. s.attempts[i].auto # "none" => s.attempts[i].answer = s.attempts[i].auto
    BY <1>4 DEF AttemptFits, Marks
  <2>4. Reviewable(s, s.attempts[i], w.body, s.attempts[i].answer, ses)
    BY <1>1, <1>6, <2>3 DEF ReviewFits, Reviewable
  <2> QED
    BY <1>1, <1>3, <2>2, <2>4, StepReviewed
<1>7. CASE w.item = "agent"
  <2>1. t \in IntoReview(w, s)
    BY <1>7 DEF Into
  <2>2. t = With(s, w, w.body, s.attempts[i].auto, "reviewed") /\ Unreviewed(s.attempts[i])
    BY <2>1, <1>2 DEF IntoReview
  <2>3. Judged(s.attempts[i].question, ses)
    BY <1>1, <1>7 DEF ReviewFits
  <2>4. s.attempts[i].auto = "none"
    BY <1>4, <2>3 DEF AttemptFits, Marks, Judged
  <2>5. Reviewable(s, s.attempts[i], w.body, s.attempts[i].auto, ses)
    BY <1>1, <1>7, <2>2, <2>3, <2>4 DEF ReviewFits, Reviewable
  <2> QED
    BY <1>1, <1>3, <2>2, <2>5, StepReviewed
<1> QED
  BY <1>1, <1>5, <1>6, <1>7 DEF ReviewFits

LEMMA StepGrading ==
    ASSUME NEW ses, NEW s, Good(s, ses), NEW w, PlanFits(w, s, ses), w.type = "grading_started",
           NEW t \in Into(w, s), t # s, Legal(w, s, t, Len(ses.paper))
    PROVE  Good(t, ses) /\ Extends(s, t)
<1>1. t \in IntoGrading(w, s)
  BY DEF Into
<1>2. t = [s EXCEPT !.status = "agent_review_pending"]
  BY <1>1 DEF IntoGrading
<1>3. /\ IsState(t) /\ t.attempts = s.attempts /\ t.current = s.current /\ t.index = s.index
      /\ t.status = "agent_review_pending" /\ t.lessons = s.lessons
  BY <1>2 DEF IsState, Good, Shaped
<1>4. PICK i \in DOMAIN s.attempts : s.attempts[i].id = w.id /\ Judged(s.attempts[i].question, ses)
  BY DEF PlanFits
<1>5. Unreviewed(s.attempts[i])
  <2>1. Item(s.attempts, w.id) = s.attempts[i]
    BY <1>4, PlaceIs DEF Item, Good
  <2> QED
    BY <2>1 DEF Legal, Moves
<1>6. \A j \in DOMAIN s.attempts : Unreviewed(s.attempts[j]) => j = i
  BY <1>5 DEF Good, Awaited
<1> QED
  BY <1>3, <1>4, <1>6, SameAttempts, SameLessons

\* A lesson that is changed is still about the same question.
LEMMA ChangedLessons ==
    ASSUME NEW ses, NEW s, LessonsFit(s, ses), NEW t, NEW k, NEW l,
           k \in DOMAIN s.lessons => IsLesson(l) /\ l.question = s.lessons[k].question,
           t.lessons = [s.lessons EXCEPT ![k] = l]
    PROVE  LessonsFit(t, ses)
<1> DEFINE x == s.lessons
           y == [x EXCEPT ![k] = l]
<1>1. IsList(y) /\ DOMAIN y = DOMAIN x
  <2>1. x \in Seq(ToSet(x) \cup {l})
    BY DEF LessonsFit, IsList
  <2>2. /\ y \in [DOMAIN x -> ToSet(x) \cup {l}]
        /\ DOMAIN x = 1 .. Len(x) /\ Len(x) \in Nat
    <3>1. x \in [DOMAIN x -> ToSet(x)]
      BY <2>1 DEF LessonsFit, IsList, ToSet
    <3>2. y \in [DOMAIN x -> ToSet(x) \cup {l}]
      BY <3>1
    <3> QED
      BY <2>1, <3>2
  <2>3. \A S : \A n \in Nat : \A f \in [1 .. n -> S] : f \in Seq(S)
    OBVIOUS
  <2>4. y \in Seq(ToSet(x) \cup {l})
    <3> HIDE DEF y
    <3> QED BY <2>2, <2>3
  <2> QED
    BY <2>2, <2>4, SequenceIsList
<1>2. \A i \in DOMAIN x : y[i] = IF i = k THEN l ELSE x[i]
  BY DEF LessonsFit, IsList
<1> HIDE DEF y
<1> QED
  BY <1>1, <1>2 DEF LessonsFit, y

LEMMA StepLesson ==
    ASSUME NEW ses, NEW s, Good(s, ses), NEW w, w.type \in LessonTypes,
           NEW t \in Into(w, s), t # s, Legal(w, s, t, Len(ses.paper))
    PROVE  Good(t, ses) /\ Extends(s, t)
<1> DEFINE Stays == /\ IsState(t) /\ t.attempts = s.attempts /\ t.current = s.current
                    /\ t.index = s.index
           x == s.lessons
           k == w.id
<1>1. IsState(s) /\ LessonsFit(s, ses)
  BY DEF Good, Shaped
<1>2. k \in DOMAIN x => IsLesson(x[k])
  BY <1>1 DEF LessonsFit
<1>3. x \in [DOMAIN x -> ToSet(x)]
  BY <1>1 DEF LessonsFit, IsList, ToSet
<1>4. Stays /\ LessonsFit(t, ses)
  <2>1. CASE w.type = "teaching_started"
    <3>1. t = [s EXCEPT !.lessons = Append(@, NewLesson(w.question)), !.status = "teaching_open"]
          /\ s.current = w.question /\ s.status = "question_open"
      BY <2>1 DEF Into, IntoLesson, Here
    <3> DEFINE l == NewLesson(w.question)
    <3>2. IsLesson(l) /\ l.question = s.current
      BY <3>1 DEF NewLesson, IsLesson
    <3> HIDE DEF l
    <3>3. Stays /\ t.lessons = Append(x, l)
      BY <1>1, <3>1 DEF IsState, l
    <3>4. /\ IsList(t.lessons) /\ Len(t.lessons) = Len(x) + 1 /\ Len(x) \in Nat
          /\ \A i \in DOMAIN x : t.lessons[i] = x[i]
          /\ t.lessons[Len(x) + 1] = l /\ DOMAIN x = 1 .. Len(x) /\ DOMAIN t.lessons = 1 .. Len(x) + 1
      BY <1>1, <3>3, AppendFacts, ListFacts DEF LessonsFit
    <3>5. PaperOk(ses) => s.current \in ToSet(ses.paper)
      <4>1. s.current # 0
        BY <3>3, <2>1 DEF Legal, SoundState, LeadsTo
      <4>2. ASSUME PaperOk(ses) PROVE s.index \in DOMAIN ses.paper /\ s.current = ses.paper[s.index]
        BY <4>1, <4>2 DEF Good, Passed, Shaped, PaperOk
      <4> QED
        BY <4>2 DEF ToSet
    <3>6. LessonsFit(t, ses)
      BY SMTT(30), <1>1, <3>2, <3>4, <3>5 DEF LessonsFit
    <3> QED
      BY <3>3, <3>6
  <2>2. CASE w.type = "teaching_feedback_submitted"
    <3> DEFINE e == [id |-> w.item, base |-> w.body, applied |-> 0]
               l == [x[k] EXCEPT !.feedback = Append(@, e)]
    <3>1. t = [s EXCEPT !.lessons[w.id].feedback = Append(@, e), !.status = "teaching_feedback_saved"]
      BY <2>2 DEF Into, IntoFeedback
    <3>2. Stays /\ t.lessons = [x EXCEPT ![k] = l]
      BY <1>1, <3>1 DEF IsState
    <3>3. k \in DOMAIN x => IsLesson(l) /\ l.question = x[k].question
      BY <1>2 DEF IsLesson
    <3> HIDE DEF l
    <3>4. t.lessons = [s.lessons EXCEPT ![k] = l]
      BY <3>2
    <3>5. LessonsFit(t, ses)
      BY <1>1, <3>3, <3>4, ChangedLessons
    <3> QED
      BY <3>2, <3>5
  <2>3. CASE w.type = "teaching_revised"
    <3> DEFINE i == Place(x[k].feedback, w.item)
               m == [x[k] EXCEPT !.feedback[i].applied = w.body + 1]
               l == [m EXCEPT !.revisions = w.body + 1]
    <3>1. t = [s EXCEPT !.lessons[w.id].feedback[i].applied = w.body + 1,
                        !.lessons[w.id].revisions = w.body + 1, !.status = "teaching_open"]
      BY ZenonT(60), <2>3 DEF Into, IntoRevision
    <3> HIDE DEF i
    <3>2. Stays /\ t.lessons = [[x EXCEPT ![k] = m] EXCEPT ![k].revisions = w.body + 1]
      BY <1>1, <3>1 DEF IsState
    <3>3. k \in DOMAIN x => IsLesson(l) /\ l.question = x[k].question
      BY <1>2 DEF IsLesson
    <3>4. t.lessons = [x EXCEPT ![k] = l]
      <4> HIDE DEF m
      <4> QED
        BY <3>2, <1>3
    <3> HIDE DEF l
    <3>5. LessonsFit(t, ses)
      BY <1>1, <3>3, <3>4, ChangedLessons
    <3> QED
      BY <3>2, <3>5
  <2>4. CASE w.type \in {"teaching_completed", "teaching_invalidated"}
    <3> DEFINE l == [x[k] EXCEPT !.open = FALSE]
    <3>1. t = [s EXCEPT !.lessons[w.id].open = FALSE, !.status = "question_open"]
      BY <2>4 DEF Into, IntoCompletion, IntoInvalidation, Closed
    <3>2. Stays /\ t.lessons = [x EXCEPT ![k] = l]
      BY <1>1, <3>1 DEF IsState
    <3>3. k \in DOMAIN x => IsLesson(l) /\ l.question = x[k].question
      BY <1>2 DEF IsLesson
    <3> HIDE DEF l
    <3>4. t.lessons = [s.lessons EXCEPT ![k] = l]
      BY <3>2
    <3>5. LessonsFit(t, ses)
      BY <1>1, <3>3, <3>4, ChangedLessons
    <3> QED
      BY <3>2, <3>5
  <2> QED
    BY <2>1, <2>2, <2>3, <2>4 DEF LessonTypes
<1>5. /\ s.status \in {"question_open", "teaching_open", "teaching_feedback_saved"}
      /\ t.status \in {"question_open", "teaching_open", "teaching_feedback_saved"}
  BY DEF Legal, ComesFrom, LeadsTo, LessonTypes
<1>6. \A i \in DOMAIN s.attempts : ~ Unreviewed(s.attempts[i])
  BY <1>5 DEF Good, Awaited
<1> QED
  BY <1>4, <1>5, <1>6, SameAttempts

LEMMA StepContinue ==
    ASSUME NEW ses, NEW s, Good(s, ses), NEW w, PlanFits(w, s, ses),
           w.type \in {"question_presented", "socratic_turn", "session_ended"},
           NEW t \in Into(w, s), t # s, Legal(w, s, t, Len(ses.paper))
    PROVE  Good(t, ses) /\ Extends(s, t)
<1> DEFINE m == Len(s.attempts)
<1>1. t \in IntoContinuation(w, s)
  BY DEF Into
<1>2. s.status = "reviewed" /\ Here(w, s) /\ LastTry(s, w.question) = w.id
  BY <1>1 DEF IntoContinuation
<1>3. \A i \in DOMAIN s.attempts : ~ Unreviewed(s.attempts[i])
  BY <1>2 DEF Good, Awaited
<1>4. CASE w.type = "socratic_turn"
  <2>1. t = [s EXCEPT !.keys = @ \cup {w.id}, !.status = "question_open"]
    BY <1>1, <1>4 DEF IntoContinuation
  <2>2. /\ IsState(t) /\ t.attempts = s.attempts /\ t.current = s.current /\ t.index = s.index
        /\ t.status = "question_open" /\ t.lessons = s.lessons
    BY <2>1 DEF IsState, Good, Shaped
  <2> QED
    BY <2>2, <1>3, SameAttempts, SameLessons
<1>5. CASE w.type \in {"question_presented", "session_ended"}
  <2>1. t = [[s EXCEPT !.keys = @ \cup {w.id}, !.status = "question_open"]
                EXCEPT !.index = @ + 1, !.current = w.body,
                       !.status = IF w.body = 0 THEN "completed" ELSE "question_open"]
    BY <1>1, <1>5 DEF IntoContinuation
  <2>2. /\ IsState(t) /\ t.attempts = s.attempts /\ t.current = w.body /\ t.index = s.index + 1
        /\ t.status # "reviewed" /\ t.version = s.version /\ t.lessons = s.lessons
    BY <2>1 DEF IsState, Good, Shaped
  <2>3. w.type = "session_ended" => t.current = 0 /\ t.index = Len(ses.paper) + 1
    BY <1>5 DEF Legal, Moves, LeadsTo, SoundState
  <2>4. Shaped(t) /\ Awaited(t, ses) /\ Closing(t, ses)
    BY <2>2, <1>3 DEF Good, Shaped, Awaited, Closing
  <2>5. \A i \in DOMAIN t.attempts : NotScored(t.attempts[i], ses) /\ AttemptFits(t.attempts[i], ses)
    BY <2>2 DEF Good
  <2>6. Extends(s, t)
    BY <2>2, ListFacts DEF Extends, Good, Shaped
  <2>7. ASSUME PaperOk(ses) PROVE Passed(t, ses)
    <3>1. PICK k \in DOMAIN ses.paper :
            /\ w.question = ses.paper[k]
            /\ w.type = "question_presented" =>
                  k + 1 \in DOMAIN ses.paper /\ w.body = ses.paper[k + 1]
      BY <2>7, <1>5 DEF PlanFits
    <3>2. ses.paper[k] \in Questions /\ 0 \notin Questions
      BY <2>7, BankAssumption DEF PaperOk
    <3>3. Passed(s, ses)
      BY <2>7 DEF Good
    <3>4. s.index = k
      BY <3>1, <3>2, <3>3, <1>2, <2>7 DEF Passed, Here, PaperOk, Good, Shaped
    <3>5. PICK i \in DOMAIN s.attempts :
            /\ s.attempts[i].id = w.id /\ ~ Unreviewed(s.attempts[i])
            /\ s.attempts[i].review.outcome # "probe"
      BY <1>5 DEF PlanFits
    <3>6. /\ m \in DOMAIN s.attempts /\ s.attempts[m].question = s.current
          /\ \A j \in DOMAIN s.attempts : ~ (j > m)
      BY <1>2, ListFacts DEF Good, Closing, Shaped
    <3>7. LastTry(s, s.current) = s.attempts[m].id
      <4>1. LastTry(s, s.attempts[m].question) = s.attempts[m].id
        BY <3>6, LastTryIs DEF Good
      <4> QED
        BY <4>1, <3>6
    <3>8. i = m
      BY <3>5, <3>6, <3>7, <1>2 DEF Here, Good, Shaped, Distinct
    <3>9. Settles(t, m, s.current)
      BY <2>2, <3>5, <3>6, <3>8 DEF Settles
    <3>10. ASSUME NEW j \in 1 .. t.index - 1
           PROVE  \E l \in DOMAIN t.attempts : Settles(t, l, ses.paper[j])
      <4>1. CASE j = k
        BY <4>1, <3>1, <3>6, <3>9, <1>2, <2>2 DEF Here
      <4>2. CASE j # k
        <5>1. j \in 1 .. s.index - 1
          BY <4>2, <3>10, <3>4, <2>2 DEF Good, Shaped
        <5>2. PICK l \in DOMAIN s.attempts : Settles(s, l, ses.paper[j])
          BY <5>1, <3>3 DEF Passed
        <5> QED
          BY <5>2, <2>2 DEF Settles
      <4> QED
        BY <4>1, <4>2
    <3>11. /\ t.current = IF t.index <= Len(ses.paper) THEN ses.paper[t.index] ELSE 0
           /\ t.index > 0
      BY <3>1, <3>4, <2>2, <2>3, <2>7, <1>5 DEF PaperOk
    <3> QED
      BY <3>3, <3>10, <3>11, <2>2 DEF Passed
  <2> QED
    BY <2>2, <2>4, <2>5, <2>6, <2>7, SameLessons DEF Good
<1> QED
  BY <1>4, <1>5

LEMMA StepGood ==
    ASSUME NEW ses, NEW s, Good(s, ses), NEW w, PlanFits(w, s, ses),
           NEW t \in Into(w, s), t # s, Legal(w, s, t, Len(ses.paper))
    PROVE  Good(t, ses) /\ Extends(s, t)
<1>1. w.type \in {"answer_submitted", "answer_reviewed", "grading_started", "question_presented",
                   "socratic_turn", "session_ended"} \cup LessonTypes
  BY DEF PlanFits
<1> QED
  BY <1>1, StepAnswer, StepReview, StepGrading, StepLesson, StepContinue

\* Writing gives the state its number.
LEMMA WrittenGood ==
    ASSUME NEW ses, NEW s, NEW t, Good(t, ses), Extends(s, t), NEW v \in Nat
    PROVE  LET u == [t EXCEPT !.version = v] IN
           u.version = v /\ Good(u, ses) /\ Extends(s, u)
<1> DEFINE u == [t EXCEPT !.version = v]
<1>1. /\ IsState(u) /\ u.attempts = t.attempts /\ u.current = t.current /\ u.index = t.index
      /\ u.status = t.status /\ u.version = v /\ u.lessons = t.lessons
  BY DEF Good, Shaped, IsState
<1> HIDE DEF u
<1>2. Shaped(u) /\ Awaited(u, ses) /\ Closing(u, ses)
  <2>1. TriesOf(u, u.current) = TriesOf(t, t.current)
    BY <1>1, SameTries
  <2> QED
    BY <1>1, <2>1 DEF Good, Shaped, Awaited, Closing, FewTries
<1>3. \A i \in DOMAIN u.attempts : NotScored(u.attempts[i], ses) /\ AttemptFits(u.attempts[i], ses)
  BY <1>1 DEF Good
<1>4. PaperOk(ses) => Passed(u, ses)
  BY <1>1 DEF Good, Passed, Settles
<1>5. Extends(s, u)
  BY <1>1 DEF Extends
<1> QED
  BY <1>1, <1>2, <1>3, <1>4, <1>5, SameLessons DEF Good, u

LEMMA OpenedGood ==
    ASSUME NEW ses
    PROVE  Good(Opened(ses.paper), ses) /\ Opened(ses.paper).version = 1
<1> DEFINE s == Opened(ses.paper)
<1>1. IsState(s) /\ s.version = 1 /\ s.attempts = <<>> /\ s.index = 1 /\ s.current = ses.paper[1]
      /\ s.status = "question_open" /\ s.lessons = <<>>
  BY DEF Opened, IsState
<1> HIDE DEF s
<1>2. IsList(s.attempts) /\ DOMAIN s.attempts = {} /\ IsList(s.lessons) /\ DOMAIN s.lessons = {}
  <2>1. <<>> \in Seq({}) /\ DOMAIN <<>> = {}
    OBVIOUS
  <2> QED
    BY <2>1, <1>1, SequenceIsList
<1>3. PaperOk(ses) => Passed(s, ses)
  BY <1>1, <1>2 DEF PaperOk, Passed
<1> QED
  BY <1>1, <1>2, <1>3 DEF Good, Shaped, Distinct, Awaited, Closing, LessonsFit, s

LEMMA ExtendsItself ==
    ASSUME NEW s, Shaped(s)
    PROVE  Extends(s, s)
  BY ListFacts DEF Extends, Shaped

LEMMA ExtendsFurther ==
    ASSUME NEW r, NEW s, NEW t, Shaped(r), Shaped(s), Shaped(t), Extends(r, s), Extends(s, t)
    PROVE  Extends(r, t)
<1>1. /\ Len(r.attempts) <= Len(t.attempts)
      /\ \A i \in DOMAIN r.attempts : i \in DOMAIN s.attempts
  BY ListFacts DEF Extends, Shaped
<1>2. ASSUME NEW i \in DOMAIN r.attempts, ~ Unreviewed(r.attempts[i])
      PROVE  t.attempts[i].review = r.attempts[i].review
  BY <1>1, <1>2 DEF Extends, Unreviewed
<1>3. ASSUME NEW i \in DOMAIN r.attempts, r.attempts[i].auto # "none"
      PROVE  t.attempts[i].auto = r.attempts[i].auto \/ t.attempts[i].review.status = "stale"
  <2>1. s.attempts[i].review.status = "stale" => ~ Unreviewed(s.attempts[i])
    BY DEF Unreviewed, NoReview
  <2> QED
    BY <1>1, <1>3, <2>1 DEF Extends
<1> QED
  BY <1>1, <1>2, <1>3 DEF Extends

\* While an answer waits for its review no other one is taken.
LEMMA TriesStay ==
    ASSUME NEW ses, NEW s, NEW t, Good(s, ses), Good(t, ses), Extends(s, t),
           NEW i \in DOMAIN s.attempts, Unreviewed(t.attempts[i])
    PROVE  \A q : TriesOf(t, q) = TriesOf(s, q)
<1>1. /\ DOMAIN s.attempts = 1 .. Len(s.attempts) /\ Len(s.attempts) \in Nat
      /\ DOMAIN t.attempts = 1 .. Len(t.attempts) /\ Len(t.attempts) \in Nat
  BY ListFacts DEF Good, Shaped
<1>2. i \in DOMAIN t.attempts
  BY <1>1 DEF Extends
<1>3. i = Len(t.attempts)
  BY <1>2 DEF Good, Awaited
<1>4. DOMAIN t.attempts = DOMAIN s.attempts
  BY <1>1, <1>3 DEF Extends
<1> QED
  BY <1>4, SameTries DEF Extends

\* What a plan rests on does not go away.
LEMMA PlanStays ==
    ASSUME NEW ses, NEW s, NEW t, Good(s, ses), Good(t, ses), Extends(s, t), NEW w, PlanFits(w, s, ses)
    PROVE  PlanFits(w, t, ses)
<1>1. \A i \in DOMAIN s.attempts : i \in DOMAIN t.attempts
  BY ListFacts DEF Good, Shaped, Extends
<1>2. ASSUME w.type = "answer_reviewed"
      PROVE  \E i \in DOMAIN t.attempts :
                 t.attempts[i].id = w.id /\ ReviewFits(w, t, t.attempts[i], ses)
  <2>1. PICK i \in DOMAIN s.attempts :
            s.attempts[i].id = w.id /\ ReviewFits(w, s, s.attempts[i], ses)
    BY <1>2 DEF PlanFits
  <2>2. /\ t.attempts[i].id = w.id /\ t.attempts[i].question = s.attempts[i].question
        /\ t.attempts[i].fresh = s.attempts[i].fresh /\ t.attempts[i].answer = s.attempts[i].answer
        /\ t.attempts[i].hint = s.attempts[i].hint
        /\ Unreviewed(t.attempts[i]) =>
              Unreviewed(s.attempts[i]) /\ \A q : FewTries(s, q) => FewTries(t, q)
    <3>1. Unreviewed(t.attempts[i]) => Unreviewed(s.attempts[i])
      BY DEF Extends, Unreviewed
    <3>2. Unreviewed(t.attempts[i]) => \A q : FewTries(s, q) => FewTries(t, q)
      BY TriesStay DEF FewTries
    <3> QED
      BY <2>1, <3>1, <3>2 DEF Extends
  <2>3. ReviewFits(w, t, t.attempts[i], ses)
    BY <2>1, <2>2 DEF ReviewFits
  <2> QED
    BY <1>1, <2>2, <2>3
<1>3. w.type = "grading_started" =>
         \E i \in DOMAIN t.attempts : t.attempts[i].id = w.id /\ Judged(t.attempts[i].question, ses)
  BY <1>1 DEF PlanFits, Extends
<1>4. ASSUME w.type \in {"question_presented", "session_ended"}
      PROVE  \E i \in DOMAIN t.attempts :
                /\ t.attempts[i].id = w.id /\ ~ Unreviewed(t.attempts[i])
                /\ t.attempts[i].review.outcome # "probe"
  <2>1. PICK i \in DOMAIN s.attempts :
                /\ s.attempts[i].id = w.id /\ ~ Unreviewed(s.attempts[i])
                /\ s.attempts[i].review.outcome # "probe"
    BY <1>4 DEF PlanFits
  <2> QED
    BY <2>1, <1>1 DEF Extends, Unreviewed
<1> QED
  BY <1>2, <1>3, <1>4 DEF PlanFits

-----------------------------------------------------------------------------
(* The processes: each one's view, plan or next state against the state of the events. *)

IsJob(j) ==
    j \in [at : {j.at}, section : {j.section}, op : {j.op}, then : {j.then}, expect : {j.expect},
           view : {j.view}, plan : {j.plan}, next : {j.next}]

\* A process under the lock, or one that lost it, may write the next state or an older one.
Goes(s, ses, next) ==
    /\ next.version \in Nat /\ next.version <= s.version + 1
    /\ next.version = s.version + 1 => Good(next, ses) /\ Extends(s, next)

JobFits(j, s, ses) ==
    /\ IsJob(j)
    /\ j.at = "decide" => s.version > 0 /\ Good(j.view, ses) /\ Extends(j.view, s)
    /\ j.at \in {"lock", "stalled", "steal"} /\ j.section = "write" => s.version > 0 /\ PlanFits(j.plan, s, ses)
    /\ j.at = "event" /\ j.section # "start" => s.version > 0 /\ Goes(s, ses, j.next)
    /\ j.at = "event" /\ j.section = "start" => j.next = Opened(ses.paper)
    /\ j.at \in {"lock", "stalled", "steal", "event"} /\ j.section = "start" => s.version = 0

\* The inductive invariant.  It says nothing of the lock.
Inv ==
    /\ job = [p \in Procs |-> job[p]]
    /\ log \in [state : {log.state}, broken : {log.broken}]
    /\ log.state.version \in Nat
    /\ log.state.version > 0 => Good(log.state, session)
    /\ \A p \in Procs : JobFits(job[p], log.state, session)
    /\ \A p \in Procs : p \in dead => job[p].section # "start"
    /\ \A p, o \in Procs : job[p].section = "start" /\ job[o].section = "start" => p = o

\* A job that holds neither a view nor a plan.
Quiet(j) == IsJob(j) /\ j.at \in {"idle", "lock"} /\ j.section \in {"none", "read", "rebuild"}

LEMMA QuietJobs ==
    /\ Quiet(Idle)
    /\ \A op, then, expect : Quiet(Reading(op, then, expect))
    /\ \A j : Quiet(Return(j)) /\ Quiet(Follow(j))
<1>1. Quiet(Idle)
  BY DEF Quiet, Idle, IsJob
<1>2. ASSUME NEW op, NEW then, NEW expect PROVE Quiet(Reading(op, then, expect))
  <2> DEFINE j == Reading(op, then, expect)
  <2>1. IsJob(j) /\ j.at = "lock" /\ j.section = "read"
    BY DEF Reading, Idle, IsJob
  <2> QED
    BY <2>1 DEF Quiet
<1>3. \A j : Quiet(Return(j))
  BY <1>1, <1>2 DEF Return
<1>4. ASSUME NEW j PROVE Quiet(Follow(j))
  <2>1. Quiet([Idle EXCEPT !.at = "lock", !.section = "rebuild", !.then = j.then])
    BY DEF Quiet, Idle, IsJob
  <2> QED
    BY <2>1, <1>2, <1>3 DEF Follow
<1> QED
  BY <1>1, <1>2, <1>3, <1>4

LEMMA QuietFits ==
    ASSUME NEW j, Quiet(j), NEW s, NEW ses
    PROVE  JobFits(j, s, ses)
  BY DEF Quiet, JobFits

\* A step of one process that adds nothing to the events.
LEMMA JobStep ==
    ASSUME Inv, NEW p \in Procs, NEW j, Become(p, j), JobFits(j, log.state, session),
           j.section = "start" => job[p].section = "start",
           log' = log, session' = session, dead' = dead
    PROVE  Inv'
<1>1. job' = [q \in Procs |-> IF q = p THEN j ELSE job[q]]
  BY DEF Inv, Become
<1>2. job' = [q \in Procs |-> job'[q]]
  BY <1>1
<1>3. job'[p] = j /\ \A q \in Procs : q # p => job'[q] = job[q]
  BY <1>1
<1>4. \A q \in Procs : JobFits(job'[q], log.state, session)
  BY <1>3 DEF Inv
<1>5. \A q \in Procs : q \in dead => job'[q].section # "start"
  BY <1>3 DEF Inv
<1>6. \A q, o \in Procs : job'[q].section = "start" /\ job'[o].section = "start" => q = o
  BY <1>3 DEF Inv
<1> QED
  BY <1>2, <1>4, <1>5, <1>6 DEF Inv

LEMMA QuietStep ==
    ASSUME Inv, NEW p \in Procs, NEW j, Quiet(j), Become(p, j),
           log' = log, session' = session, dead' = dead
    PROVE  Inv'
  BY QuietFits, JobStep DEF Quiet

LEMMA WriteStep ==
    ASSUME Inv, NEW p \in Procs, NEW w, Write(p, w), log.state.version > 0,
           PlanFits(w, log.state, session),
           log' = log, session' = session, dead' = dead
    PROVE  Inv'
<1> DEFINE j == [Idle EXCEPT !.at = "lock", !.section = "write", !.then = job[p].then, !.plan = w]
<1>1. IsJob(j) /\ j.at = "lock" /\ j.section = "write" /\ j.plan = w
  BY DEF Idle, IsJob
<1>2. Become(p, j)
  BY DEF Write
<1> HIDE DEF j
<1>3. JobFits(j, log.state, session)
  BY <1>1 DEF JobFits
<1> QED
  BY <1>1, <1>2, <1>3, JobStep

\* What a command that decides knows.
LEMMA Deciding ==
    ASSUME Inv, NEW p \in Procs, NEW ops, Decides(p, ops)
    PROVE  /\ log.state.version > 0 /\ Good(View(p), session) /\ Good(log.state, session)
           /\ Extends(View(p), log.state)
           /\ log' = log /\ session' = session /\ dead' = dead
  BY DEF Inv, JobFits, Decides, At, View, files, faults

LEMMA MarkStaleStep ==
    ASSUME Inv, NEW p \in Procs, NEW ops, Decides(p, ops), NEW a \in Waiting(View(p)), MarkStale(p, a)
    PROVE  Inv'
<1> DEFINE w == Plan("answer_reviewed", a.question, a.id, "stale", StaleReview(a), 0)
<1>1. PICK i \in DOMAIN View(p).attempts : a = View(p).attempts[i]
  BY DEF Waiting, ToSet
<1>2. i \in DOMAIN log.state.attempts /\ log.state.attempts[i].id = a.id
      /\ log.state.attempts[i].hint = a.hint
  BY <1>1, Deciding, ListFacts DEF Extends, Good, Shaped
<1>3. w.type = "answer_reviewed" /\ w.item = "stale" /\ w.id = a.id
      /\ w.body.status = "stale" /\ w.body.outcome = "none" /\ w.body.hint = a.hint /\ ~ w.body.unaided
  BY DEF Plan, StaleReview, NoReview
<1>4. Write(p, w)
  BY DEF MarkStale
<1> HIDE DEF w
<1>5. PlanFits(w, log.state, session)
  BY <1>2, <1>3 DEF PlanFits, ReviewFits
<1> QED
  BY <1>4, <1>5, Deciding, WriteStep

LEMMA LessonStep ==
    ASSUME Inv, NEW p \in Procs, NEW ops, Decides(p, ops), NEW w, w.type \in LessonTypes, Write(p, w)
    PROVE  Inv'
<1>1. PlanFits(w, log.state, session)
  BY DEF PlanFits, LessonTypes
<1> QED
  BY <1>1, Deciding, WriteStep

LEMMA StopStep ==
    ASSUME Inv, NEW p \in Procs, NEW ops, Decides(p, ops), Stop(p)
    PROVE  Inv'
  BY Deciding, QuietJobs, QuietStep DEF Stop

LEMMA ReadingStep ==
    ASSUME Inv, NEW p \in Procs, NEW ops, Decides(p, ops), NEW op, NEW then, NEW expect,
           Become(p, Reading(op, then, expect)) \/ Become(p, Idle)
    PROVE  Inv'
  BY Deciding, QuietJobs, QuietStep

LEMMA AnswerStep ==
    ASSUME Inv, NEW p \in Procs, Answer(p)
    PROVE  Inv'
<1>1. Decides(p, {"answer"})
  BY DEF Answer
<1>2. PICK id \in AttemptIds, answer \in {"right", "wrong", "text"} :
         IF Holds(View(p).attempts, id)
         THEN Become(p, IF Item(View(p).attempts, id).answer = answer
                        THEN Reading("dispatch", "none", 0) ELSE Idle)
         ELSE IF Expects(p) /\ View(p).status = "question_open" /\ answer \in Answers(Asked(p))
              THEN Write(p, Plan("answer_submitted", Asked(p), id, 0, Prepared(p, id, answer), job[p].expect))
              ELSE Stop(p)
  BY DEF Answer
<1>3. CASE Holds(View(p).attempts, id)
  BY <1>1, <1>2, <1>3, ReadingStep
<1>4. CASE Stop(p)
  BY <1>1, <1>4, StopStep
<1>5. CASE Write(p, Plan("answer_submitted", Asked(p), id, 0, Prepared(p, id, answer), job[p].expect))
  <2> DEFINE a == Prepared(p, id, answer)
             w == Plan("answer_submitted", Asked(p), id, 0, a, job[p].expect)
  <2>1. /\ IsAttempt(a) /\ a.review = NoReview /\ a.id = id /\ a.hint = HintLevel(View(p), Asked(p))
        /\ a.question = Asked(p) /\ a.answer = answer
        /\ a.auto = IF Bank[Asked(p)].kind = "choice" /\ session.style = "regular" /\ Asked(p) \notin stale
                    THEN answer ELSE "none"
        /\ ~ a.fresh => a.auto = "none"
    BY DEF Prepared, IsAttempt
  <2> HIDE DEF a
  <2>2. w.type = "answer_submitted" /\ w.body = a
    BY DEF Plan
  <2>5. AttemptFits(a, session) /\ Unreviewed(a)
    BY <2>1 DEF AttemptFits, Marks, HintLevel, Unreviewed
  <2>3. Write(p, w)
    BY <1>5 DEF a
  <2> HIDE DEF w
  <2>4. PlanFits(w, log.state, session)
    BY <2>1, <2>2, <2>5 DEF PlanFits
  <2> QED
    BY <1>1, <2>3, <2>4, Deciding, WriteStep
<1> QED
  BY <1>2, <1>3, <1>4, <1>5

LEMMA DispatchStep ==
    ASSUME Inv, NEW p \in Procs, Dispatch(p)
    PROVE  Inv'
<1>1. Decides(p, {"dispatch"})
  BY DEF Dispatch
<1>2. CASE Stop(p)
  BY <1>1, <1>2, StopStep
<1>3. ASSUME NEW a \in Waiting(View(p)), MarkStale(p, a) PROVE Inv'
  BY <1>1, <1>3, MarkStaleStep
<1>4. ASSUME NEW a \in Waiting(View(p)), a.fresh, Bank[a.question].kind = "choice",
             session.style = "regular",
             Write(p, Plan("answer_reviewed", a.question, a.id, "auto", AutoReview(a), 0))
      PROVE  Inv'
  <2> DEFINE w == Plan("answer_reviewed", a.question, a.id, "auto", AutoReview(a), 0)
  <2>1. PICK i \in DOMAIN View(p).attempts : a = View(p).attempts[i]
    BY DEF Waiting, ToSet
  <2>2. i \in DOMAIN log.state.attempts /\ log.state.attempts[i].id = a.id
        /\ log.state.attempts[i].fresh = a.fresh /\ log.state.attempts[i].question = a.question
        /\ log.state.attempts[i].answer = a.answer /\ log.state.attempts[i].hint = a.hint
    BY <1>1, <2>1, Deciding, ListFacts DEF Extends, Good, Shaped
  <2>3. /\ w.type = "answer_reviewed" /\ w.item = "auto" /\ w.id = a.id
        /\ w.body.status = "graded" /\ w.body.score \in {"high", "low"} /\ w.body.hint = a.hint
        /\ w.body.outcome = IF a.answer = "right" THEN "mastered" ELSE "exhausted"
        /\ a.hint > 0 => ~ w.body.unaided
    <3> DEFINE g == AutoReview(a)
    <3>1. a.hint > 0 => a.hint # 0
      OBVIOUS
    <3>2. g.unaided = (a.answer = "right" /\ a.hint = 0)
      BY ZenonT(30) DEF AutoReview
    <3>3. /\ g.status = "graded" /\ g.score \in {"high", "low"} /\ g.hint = a.hint
          /\ g.outcome = IF a.answer = "right" THEN "mastered" ELSE "exhausted"
      BY DEF AutoReview
    <3> HIDE DEF g
    <3>4. w.type = "answer_reviewed" /\ w.item = "auto" /\ w.id = a.id /\ w.body = g
      BY DEF Plan, g
    <3> QED
      BY <3>1, <3>2, <3>3, <3>4
  <2> HIDE DEF w
  <2>4. PlanFits(w, log.state, session)
    BY <1>4, <2>2, <2>3 DEF PlanFits, ReviewFits
  <2> QED
    BY <1>1, <1>4, <2>4, Deciding, WriteStep DEF w
<1> QED
  BY <1>2, <1>3, <1>4 DEF Dispatch

LEMMA PendStep ==
    ASSUME Inv, NEW p \in Procs, Pend(p)
    PROVE  Inv'
<1>1. Decides(p, {"pending", "pending again"})
  BY DEF Pend
<1>2. CASE Stop(p)
  BY <1>1, <1>2, StopStep
<1>3. CASE Become(p, Reading("dispatch", "pending again", 0))
  BY <1>1, <1>3, ReadingStep
<1>4. ASSUME NEW k, CloseLesson(p, k) PROVE Inv'
  <2>1. Plan("teaching_invalidated", Asked(p), k, 0, 0, 0).type \in LessonTypes
    BY DEF Plan, LessonTypes
  <2> QED
    BY <1>1, <1>4, <2>1, LessonStep DEF CloseLesson
<1>5. ASSUME NEW a \in Waiting(View(p)), MarkStale(p, a) PROVE Inv'
  BY <1>1, <1>5, MarkStaleStep
<1>6. ASSUME NEW a \in Waiting(View(p)), Bank[a.question].kind = "text" \/ session.style = "socratic",
             Write(p, Plan("grading_started", a.question, a.id, 0, 0, 0))
      PROVE  Inv'
  <2> DEFINE w == Plan("grading_started", a.question, a.id, 0, 0, 0)
  <2>1. PICK i \in DOMAIN View(p).attempts : a = View(p).attempts[i]
    BY DEF Waiting, ToSet
  <2>2. i \in DOMAIN log.state.attempts /\ log.state.attempts[i].id = a.id
        /\ log.state.attempts[i].question = a.question
    <3>1. /\ Shaped(View(p)) /\ Shaped(log.state) /\ Extends(View(p), log.state)
      BY <1>1, Deciding DEF Good
    <3> QED
      BY <2>1, <3>1, ListFacts DEF Extends, Shaped
  <2>3. w.type = "grading_started" /\ w.id = a.id
    BY DEF Plan
  <2> HIDE DEF w
  <2>4. PlanFits(w, log.state, session)
    BY <1>6, <2>2, <2>3 DEF PlanFits, Judged
  <2> QED
    BY <1>1, <1>6, <2>4, Deciding, WriteStep DEF w
<1> QED
  BY <1>2, <1>3, <1>4, <1>5, <1>6 DEF Pend

LEMMA ReviewStep ==
    ASSUME Inv, NEW p \in Procs, Review(p)
    PROVE  Inv'
<1>1. Decides(p, {"review"})
  BY DEF Review
<1>2. CASE Stop(p)
  BY <1>1, <1>2, StopStep
<1>3. ASSUME NEW a \in Waiting(View(p)), MarkStale(p, a) PROVE Inv'
  BY <1>1, <1>3, MarkStaleStep
<1>4. ASSUME NEW a \in Waiting(View(p)), View(p).status = "agent_review_pending",
             NEW r \in AgentReviews(a, session.style),
             r.outcome = "probe" => Cardinality(TriesOf(View(p), a.question)) < MaxTries,
             Write(p, Plan("answer_reviewed", a.question, a.id, "agent", r, 0))
      PROVE  Inv'
  <2> DEFINE w == Plan("answer_reviewed", a.question, a.id, "agent", r, 0)
             v == View(p)
             s == log.state
  <2>1. PICK i \in DOMAIN v.attempts : a = v.attempts[i]
    BY DEF Waiting, ToSet
  <2>2. Good(v, session) /\ Good(s, session) /\ Extends(v, s)
    BY <1>1, Deciding
  <2>3. i \in DOMAIN s.attempts /\ s.attempts[i].id = a.id /\ s.attempts[i].question = a.question
        /\ s.attempts[i].hint = a.hint
    BY <2>1, <2>2, ListFacts DEF Extends, Good, Shaped
  <2>4. Judged(a.question, session)
    BY <1>4, <2>1, <2>2 DEF Good, Awaited, Waiting
  <2>5. Unreviewed(s.attempts[i]) => TriesOf(s, a.question) = TriesOf(v, a.question)
    BY <2>2, TriesStay
  <2>6. /\ r.status # "none" /\ r.hint = a.hint /\ (a.hint > 0 => ~ r.unaided)
        /\ r.outcome = "probe" => session.style = "socratic"
    BY DEF AgentReviews
  <2>7. w.type = "answer_reviewed" /\ w.item = "agent" /\ w.id = a.id /\ w.body = r
    BY DEF Plan
  <2>8. Write(p, w)
    BY <1>4
  <2> HIDE DEF w
  <2>9. PlanFits(w, s, session)
    BY <1>4, <2>3, <2>4, <2>5, <2>6, <2>7 DEF PlanFits, ReviewFits, FewTries
  <2> QED
    BY <1>1, <2>8, <2>9, Deciding, WriteStep
<1> QED
  BY <1>2, <1>3, <1>4 DEF Review

LEMMA ContinueStep ==
    ASSUME Inv, NEW p \in Procs, Continue(p)
    PROVE  Inv'
<1> DEFINE v == View(p)
           s == log.state
           q == Asked(p)
           Event(type, next) == Plan(type, q, LastTry(v, q), 0, next, 0)
           m == Len(v.attempts)
<1>1. Decides(p, {"continue", "continue again"})
  BY DEF Continue
<1>2. CASE Stop(p)
  BY <1>1, <1>2, StopStep
<1>3. CASE Become(p, Reading("dispatch", "continue again", 0))
  BY <1>1, <1>3, ReadingStep
<1>4. CASE Write(p, Event("socratic_turn", q))
  <2>1. PlanFits(Event("socratic_turn", q), s, session)
    <3>1. Event("socratic_turn", q).type = "socratic_turn"
      BY DEF Plan
    <3> HIDE DEF Event
    <3> QED
      BY <3>1 DEF PlanFits
  <2> QED
    BY <1>1, <1>4, <2>1, Deciding, WriteStep
<1>5. ASSUME v.status = "reviewed", ~ Probes(p),
             NEW type \in {"question_presented", "session_ended"}, NEW next, Write(p, Event(type, next)),
             type = "question_presented" => next = Following(v) /\ next # 0
      PROVE  Inv'
  <2> DEFINE w == Event(type, next)
  <2>1. Good(v, session) /\ Good(s, session) /\ Extends(v, s)
    BY <1>1, Deciding
  <2>2. /\ v.current # 0 /\ m \in DOMAIN v.attempts /\ v.attempts[m].question = v.current
        /\ v.attempts[m].review.outcome = "probe" =>
              session.style = "socratic" /\ FewTries(v, v.current)
    BY <1>5, <2>1 DEF Good, Closing
  <2>3. LastTry(v, v.current) = v.attempts[m].id
    <3>1. \A j \in DOMAIN v.attempts : ~ (j > m)
      BY <2>1, ListFacts DEF Good, Shaped
    <3>2. LastTry(v, v.attempts[m].question) = v.attempts[m].id
      BY <2>1, <2>2, <3>1, LastTryIs DEF Good
    <3> QED
      BY <2>2, <3>2
  <2>4. Item(v.attempts, LastTry(v, v.current)) = v.attempts[m]
    BY <2>1, <2>2, <2>3, PlaceIs DEF Item, Good
  <2>5. v.attempts[m].review.outcome # "probe" /\ ~ Unreviewed(v.attempts[m])
    <3>1. v.attempts[m].review.outcome # "probe"
      BY <1>5, <2>2, <2>4 DEF Probes, FewTries
    <3> QED
      BY <3>1, <1>5, <2>1, <2>2 DEF Good, Awaited
  <2>6. /\ m \in DOMAIN s.attempts /\ s.attempts[m].id = v.attempts[m].id
        /\ s.attempts[m].review = v.attempts[m].review
    BY <2>1, <2>2, <2>5, ListFacts DEF Extends, Good, Shaped
  <2>7. w.type = type /\ w.question = v.current /\ w.id = v.attempts[m].id /\ w.body = next
    BY <2>3 DEF Plan, Asked
  <2>8. Write(p, w)
    BY <1>5
  <2> HIDE DEF w, Event
  <2>9. ASSUME PaperOk(session)
        PROVE  \E n \in DOMAIN session.paper :
                  /\ w.question = session.paper[n]
                  /\ w.type = "question_presented" =>
                        n + 1 \in DOMAIN session.paper /\ w.body = session.paper[n + 1]
    <3>1. v.index \in DOMAIN session.paper /\ v.current = session.paper[v.index]
      BY <2>1, <2>2, <2>9 DEF Good, Passed, PaperOk, Shaped
    <3>2. type = "question_presented" =>
            v.index + 1 \in DOMAIN session.paper /\ next = session.paper[v.index + 1]
      BY <1>5, <2>9, <3>1 DEF Following, PaperOk
    <3> QED
      BY <3>1, <3>2, <2>7
  <2>10. PlanFits(w, s, session)
    BY <2>5, <2>6, <2>7, <2>9 DEF PlanFits, Unreviewed
  <2> QED
    BY <1>1, <2>8, <2>10, Deciding, WriteStep
<1> QED
  BY <1>2, <1>3, <1>4, <1>5 DEF Continue

-----------------------------------------------------------------------------
(* The steps *)

\* The commands on a lesson, and the report.
LEMMA LessonsStep ==
    ASSUME Inv, NEW p \in Procs, Teach(p) \/ Feedback(p) \/ Revise(p) \/ Complete(p) \/ Report(p)
    PROVE  Inv'
<1> DEFINE ops == {"teach", "feedback", "revise", "complete", "report"}
<1>1. At(p, "decide") /\ UNCHANGED <<lock, faults, files, stale, changes>> /\ job[p].op \in ops
  BY DEF Teach, Feedback, Revise, Complete, Report, Decides
<1>2. Decides(p, ops)
  BY <1>1 DEF Decides
<1>3. CASE Stop(p)
  BY <1>2, <1>3, StopStep
<1>4. ASSUME NEW w, w.type \in LessonTypes, Write(p, w) PROVE Inv'
  BY <1>2, <1>4, LessonStep
<1>5. \A type \in LessonTypes : \A q, id, item, body, expect : Plan(type, q, id, item, body, expect).type \in LessonTypes
  BY DEF Plan
<1>6. ASSUME NEW type \in LessonTypes, NEW q, NEW id, NEW item, NEW body, NEW expect,
             Write(p, Plan(type, q, id, item, body, expect))
      PROVE  Inv'
  BY <1>4, <1>5, <1>6
<1>7. ASSUME NEW k, CloseLesson(p, k) PROVE Inv'
  BY <1>6, <1>7 DEF CloseLesson, LessonTypes
<1>8. CASE Teach(p)
  BY <1>3, <1>6, <1>8 DEF Teach, LessonTypes
<1>9. CASE Feedback(p)
  BY <1>3, <1>6, <1>9 DEF Feedback, LessonTypes
<1>10. CASE Revise(p)
  BY <1>3, <1>6, <1>7, <1>10 DEF Revise, LessonTypes
<1>11. CASE Complete(p)
  BY <1>3, <1>6, <1>7, <1>11 DEF Complete, LessonTypes
<1>12. CASE Report(p)
  <2>1. Quiet([Idle EXCEPT !.at = "lock", !.section = "rebuild"])
    BY DEF Quiet, Idle, IsJob
  <2>2. Become(p, [Idle EXCEPT !.at = "lock", !.section = "rebuild"])
    BY <1>12 DEF Report
  <2> QED
    BY <1>2, <2>1, <2>2, Deciding, QuietStep
<1> QED
  BY <1>8, <1>9, <1>10, <1>11, <1>12

\* The lock changes hands, and the job its place.
LEMMA LockStep ==
    ASSUME Inv, NEW p \in Procs, Stall(p) \/ LookAtLock(p) \/ Steal(p) \/ GiveUp(p)
    PROVE  Inv'
<1>1. log' = log /\ session' = session /\ dead' = dead
  BY DEF Stall, LookAtLock, Steal, GiveUp, files, faults
<1>2. CASE GiveUp(p)
  BY <1>1, <1>2, QuietJobs, QuietStep DEF GiveUp
<1>3. ASSUME NEW at \in {"lock", "stalled", "steal"}, job[p].at \in {"lock", "stalled", "steal"}, GoTo(p, at) PROVE Inv'
  <2> DEFINE j == [job[p] EXCEPT !.at = at]
  <2>1. JobFits(job[p], log.state, session)
    BY DEF Inv
  <2>2. IsJob(j) /\ j.at = at /\ j.section = job[p].section /\ j.plan = job[p].plan
    BY <2>1 DEF JobFits, IsJob
  <2>3. Become(p, j)
    BY <1>3 DEF GoTo
  <2> HIDE DEF j
  <2>4. JobFits(j, log.state, session)
    BY <1>3, <2>1, <2>2 DEF JobFits
  <2> QED
    BY <1>1, <2>2, <2>3, <2>4, JobStep
<1> QED
  BY <1>2, <1>3 DEF Stall, LookAtLock, Steal, At

LEMMA ReadStep ==
    ASSUME Inv, NEW p \in Procs, Read(p)
    PROVE  Inv'
<1>1. log' = log /\ session' = session /\ dead' = dead
  BY DEF Read, faults
<1>2. CASE Become(p, Idle)
  BY <1>1, <1>2, QuietJobs, QuietStep
<1>3. CASE Readable /\ Become(p, [job[p] EXCEPT !.at = "decide", !.view = log.state])
  <2> DEFINE j == [job[p] EXCEPT !.at = "decide", !.view = log.state]
  <2>1. JobFits(job[p], log.state, session) /\ job[p].section = "read"
    BY DEF Inv, Read, Waits
  <2>2. IsJob(j) /\ j.at = "decide" /\ j.section = "read" /\ j.view = log.state
    BY <2>1 DEF JobFits, IsJob
  <2> HIDE DEF j
  <2>3. log.state.version > 0 /\ Good(log.state, session) /\ Extends(log.state, log.state)
    BY <1>3, ExtendsItself DEF Readable, Inv, Good
  <2>4. JobFits(j, log.state, session)
    BY <2>2, <2>3 DEF JobFits
  <2> QED
    BY <1>1, <1>3, <2>2, <2>4, JobStep DEF j
<1> QED
  BY <1>2, <1>3 DEF Read

LEMMA MutateStep ==
    ASSUME Inv, NEW p \in Procs, Mutate(p)
    PROVE  Inv'
<1>1. log' = log /\ session' = session /\ dead' = dead /\ Waits(p, "write")
  BY DEF Mutate, faults
<1>2. CASE Become(p, Idle)
  BY <1>1, <1>2, QuietJobs, QuietStep
<1>3. CASE Become(p, Follow(job[p]))
  BY <1>1, <1>3, QuietJobs, QuietStep
<1>4. ASSUME NEW t \in Changed(p), t # log.state, Accepted(p, t),
             Become(p, [job[p] EXCEPT !.at = "event", !.next = Written(t), !.plan = [type |-> @.type]])
      PROVE  Inv'
  <2> DEFINE s == log.state
             n == Written(t)
             w == [type |-> job[p].plan.type]
             j == [job[p] EXCEPT !.at = "event", !.next = n, !.plan = w]
  <2>1. Become(p, j)
    BY <1>4
  <2>2. JobFits(job[p], s, session) /\ job[p].section = "write" /\ job[p].at \in {"lock", "stalled"}
    BY <1>1 DEF Inv, Waits, At
  <2>3. s.version > 0 /\ s.version \in Nat /\ Good(s, session) /\ PlanFits(job[p].plan, s, session)
    BY <2>2 DEF JobFits, Inv
  <2>4. Good(t, session) /\ Extends(s, t)
    BY <1>4, <2>3, StepGood DEF Changed, Accepted
  <2>5. n.version = s.version + 1 /\ Good(n, session) /\ Extends(s, n)
    BY <2>3, <2>4, WrittenGood DEF Written
  <2> HIDE DEF n, w
  <2>6. IsJob(j) /\ j.at = "event" /\ j.section = "write" /\ j.next = n
    BY <2>2 DEF JobFits, IsJob
  <2> HIDE DEF j
  <2>7. JobFits(j, s, session)
    BY <2>3, <2>5, <2>6 DEF JobFits, Goes
  <2> QED
    BY <1>1, <2>1, <2>6, <2>7, JobStep
<1> QED
  BY <1>2, <1>3, <1>4 DEF Mutate

LEMMA WriteStateStep ==
    ASSUME Inv, NEW p \in Procs, WriteState(p) \/ WriteActive(p) \/ Rebuild(p)
    PROVE  Inv'
<1>1. log' = log /\ session' = session /\ dead' = dead
  BY DEF WriteState, WriteActive, Rebuild, faults
<1>2. ASSUME NEW j, Quiet(j), Become(p, j) PROVE Inv'
  BY <1>1, <1>2, QuietStep
<1>3. CASE job[p].section = "start" /\ GoTo(p, "active")
  <2> DEFINE j == [job[p] EXCEPT !.at = "active"]
  <2>1. IsJob(j) /\ j.at = "active" /\ j.section = "start"
    BY <1>3 DEF JobFits, IsJob, Inv
  <2>2. Become(p, j)
    BY <1>3 DEF GoTo
  <2> HIDE DEF j
  <2>3. JobFits(j, log.state, session)
    BY <2>1 DEF JobFits
  <2> QED
    BY <1>1, <1>3, <2>2, <2>3, JobStep
<1> QED
  BY <1>2, <1>3, QuietJobs DEF WriteState, WriteActive, Rebuild

LEMMA BeginStep ==
    ASSUME Inv, NEW p \in Procs, Begin(p)
    PROVE  Inv'
  BY QuietJobs, QuietStep DEF Begin, files, faults

LEMMA StartStep ==
    ASSUME Inv, NEW p \in Procs, Start(p)
    PROVE  Inv'
<1>1. /\ log' = log /\ session' = session /\ dead' = dead /\ log.state.version = 0
      /\ \A o \in Procs : job[o].section # "start"
  BY DEF Start, files, faults, Inv
<1>2. CASE Become(p, Idle)
  BY <1>1, <1>2, QuietJobs, QuietStep
<1>3. ASSUME NEW plan,
             Become(p, [Idle EXCEPT !.at = "lock", !.section = "start", !.plan = plan]), p \notin dead
      PROVE  Inv'
  <2> DEFINE j == [Idle EXCEPT !.at = "lock", !.section = "start", !.plan = plan]
  <2>1. IsJob(j) /\ j.at = "lock" /\ j.section = "start"
    BY DEF Idle, IsJob
  <2>2. Become(p, j)
    BY <1>3
  <2> HIDE DEF j
  <2>3. JobFits(j, log.state, session)
    BY <1>1, <2>1 DEF JobFits
  <2>4. job' = [q \in Procs |-> IF q = p THEN j ELSE job[q]]
    BY <2>2 DEF Inv, Become
  <2>5. job' = [q \in Procs |-> job'[q]]
    BY <2>4
  <2>6. job'[p] = j /\ \A q \in Procs : q # p => job'[q] = job[q]
    BY <2>4
  <2>7. \A q \in Procs : JobFits(job'[q], log.state, session)
    BY <2>3, <2>6 DEF Inv
  <2>8. /\ \A q \in Procs : q \in dead => job'[q].section # "start"
        /\ \A q, o \in Procs : job'[q].section = "start" /\ job'[o].section = "start" => q = o
    BY <1>1, <1>3, <2>6
  <2> QED
    BY <1>1, <2>5, <2>7, <2>8 DEF Inv
<1> QED
  BY <1>2, <1>3 DEF Start, At

\* Until the first event nobody but the process that starts the session has seen anything of it.
LEMMA MakeSessionStep ==
    ASSUME Inv, NEW p \in Procs, MakeSession(p)
    PROVE  Inv'
<1> DEFINE n == Opened(job[p].plan.body.paper)
           j == [job[p] EXCEPT !.at = "event", !.next = n]
<1>1. /\ log' = log /\ dead' = dead /\ job[p].section = "start" /\ job[p].at \in {"lock", "stalled"}
      /\ session' = job[p].plan.body /\ Become(p, j)
  BY DEF MakeSession, Waits, At, faults
<1>2. JobFits(job[p], log.state, session)
  BY DEF Inv
<1>3. log.state.version = 0
  BY <1>1, <1>2 DEF JobFits
<1> HIDE DEF n
<1>4. IsJob(j) /\ j.at = "event" /\ j.section = "start" /\ j.next = n
  BY <1>1, <1>2 DEF JobFits, IsJob
<1> HIDE DEF j
<1>5. JobFits(j, log.state, session')
  BY <1>1, <1>3, <1>4 DEF JobFits, n
<1>6. job' = [q \in Procs |-> IF q = p THEN j ELSE job[q]]
  BY <1>1 DEF Inv, Become
<1>7. job' = [q \in Procs |-> job'[q]]
  BY <1>6
<1>8. job'[p] = j /\ \A q \in Procs : q # p => job'[q] = job[q]
  BY <1>6
<1>9. ASSUME NEW q \in Procs, q # p PROVE JobFits(job[q], log.state, session')
  <2>1. JobFits(job[q], log.state, session) /\ job[q].section # "start"
    BY <1>1, <1>9 DEF Inv
  <2> QED
    BY <1>3, <2>1 DEF JobFits
<1>10. \A q \in Procs : JobFits(job'[q], log.state, session')
  BY <1>5, <1>8, <1>9
<1>11. /\ \A q \in Procs : q \in dead => job'[q].section # "start"
       /\ \A q, o \in Procs : job'[q].section = "start" /\ job'[o].section = "start" => q = o
  BY <1>1, <1>4, <1>8 DEF Inv
<1> QED
  BY <1>1, <1>3, <1>7, <1>10, <1>11 DEF Inv

\* An event that repeats a number breaks the chain and leaves the last state as it was.
LEMMA WriteEventStep ==
    ASSUME Inv, NEW p \in Procs, WriteEvent(p)
    PROVE  Inv'
<1> DEFINE s == log.state
           n == job[p].next
           w == [version |-> n.version]
           j == [job[p] EXCEPT !.at = "state", !.next = w]
<1>1. /\ session' = session /\ dead' = dead /\ job[p].at = "event" /\ Become(p, j)
      /\ log' = IF n.version = s.version + 1 THEN [log EXCEPT !.state = n] ELSE [log EXCEPT !.broken = TRUE]
  BY DEF WriteEvent, At, faults
<1>2. JobFits(job[p], s, session) /\ s.version \in Nat
  BY DEF Inv
<1> HIDE DEF w
<1>3. IsJob(j) /\ j.at = "state" /\ j.section = job[p].section
  BY <1>2 DEF JobFits, IsJob
<1> HIDE DEF j
<1>4. \A t : JobFits(j, t, session)
  BY <1>3 DEF JobFits
<1>5. CASE n.version # s.version + 1
  <2>1. log' = [log EXCEPT !.broken = TRUE]
    BY <1>1, <1>5
  <2>2. log'.state = s /\ log' \in [state : {log'.state}, broken : {log'.broken}]
    BY <2>1 DEF Inv
  <2>3. job' = [q \in Procs |-> IF q = p THEN j ELSE job[q]]
    BY <1>1 DEF Inv, Become
  <2>4. job' = [q \in Procs |-> job'[q]]
    BY <2>3
  <2>5. job'[p] = j /\ \A q \in Procs : q # p => job'[q] = job[q]
    BY <2>3
  <2>6. \A q \in Procs : JobFits(job'[q], s, session)
    BY <1>4, <2>5 DEF Inv
  <2>7. /\ \A q \in Procs : q \in dead => job'[q].section # "start"
        /\ \A q, o \in Procs : job'[q].section = "start" /\ job'[o].section = "start" => q = o
    BY <1>3, <2>5 DEF Inv
  <2> QED
    BY <1>1, <2>2, <2>4, <2>6, <2>7 DEF Inv
<1>6. CASE n.version = s.version + 1
  <2>1. log' = [log EXCEPT !.state = n]
    BY <1>1, <1>6
  <2>2. log'.state = n /\ log' \in [state : {log'.state}, broken : {log'.broken}]
    BY <2>1 DEF Inv
  <2>3. n.version \in Nat /\ n.version > 0 /\ Good(n, session) /\ (s.version > 0 => Extends(s, n))
    <3>1. CASE job[p].section = "start"
      <4>1. n = Opened(session.paper) /\ s.version = 0
        BY <1>1, <1>2, <3>1 DEF JobFits
      <4> QED
        BY <4>1, OpenedGood
    <3>2. CASE job[p].section # "start"
      BY <1>1, <1>2, <1>6, <3>2 DEF JobFits, Goes
    <3> QED
      BY <3>1, <3>2
  <2>4. job' = [q \in Procs |-> IF q = p THEN j ELSE job[q]]
    BY <1>1 DEF Inv, Become
  <2>5. job' = [q \in Procs |-> job'[q]]
    BY <2>4
  <2>6. job'[p] = j /\ \A q \in Procs : q # p => job'[q] = job[q]
    BY <2>4
  <2>7. ASSUME NEW q \in Procs, q # p PROVE JobFits(job[q], n, session)
    <3>1. JobFits(job[q], s, session)
      BY DEF Inv
    <3>2. CASE s.version = 0
      <4>1. job[p].section = "start"
        BY <1>1, <1>2, <3>2 DEF JobFits
      <4>2. job[q].section # "start"
        BY <4>1, <2>7 DEF Inv
      <4> QED
        BY <3>1, <3>2, <4>2 DEF JobFits
    <3>3. CASE s.version > 0
      <4>1. Good(s, session) /\ Extends(s, n)
        BY <2>3, <3>3 DEF Inv
      <4>2. job[q].at \in {"lock", "stalled", "steal", "event"} => job[q].section # "start"
        BY <3>1, <3>3 DEF JobFits
      <4>3. job[q].at = "decide" => Extends(job[q].view, n)
        BY <3>1, <4>1, <2>3, ExtendsFurther DEF JobFits, Good
      <4>4. job[q].at \in {"lock", "stalled", "steal"} /\ job[q].section = "write" => PlanFits(job[q].plan, n, session)
        BY <3>1, <4>1, <2>3, PlanStays DEF JobFits
      <4>5. job[q].at = "event" => Goes(n, session, job[q].next)
        BY <3>1, <4>2, <1>2, <1>6 DEF JobFits, Goes
      <4> QED
        BY <2>3, <3>1, <4>2, <4>3, <4>4, <4>5 DEF JobFits
    <3> QED
      BY <3>2, <3>3, <1>2
  <2>8. \A q \in Procs : JobFits(job'[q], n, session)
    BY <1>4, <2>6, <2>7
  <2>9. /\ \A q \in Procs : q \in dead => job'[q].section # "start"
        /\ \A q, o \in Procs : job'[q].section = "start" /\ job'[o].section = "start" => q = o
    BY <1>3, <2>6 DEF Inv
  <2> QED
    BY <1>1, <2>2, <2>3, <2>5, <2>8, <2>9 DEF Inv
<1> QED
  BY <1>5, <1>6

LEMMA DieStep ==
    ASSUME Inv, NEW p \in Procs, Die(p)
    PROVE  Inv'
<1>1. log' = log /\ session' = session /\ dead' = dead \cup {p}
  BY DEF Die, files
<1>2. job' = [q \in Procs |-> IF q = p THEN Idle ELSE job[q]]
  BY DEF Inv, Become, Die
<1>3. job' = [q \in Procs |-> job'[q]]
  BY <1>2
<1>4. job'[p] = Idle /\ \A q \in Procs : q # p => job'[q] = job[q]
  BY <1>2
<1>5. Quiet(Idle) /\ Idle.section # "start"
  BY QuietJobs DEF Quiet
<1>6. \A q \in Procs : JobFits(job'[q], log.state, session)
  BY <1>4, <1>5, QuietFits DEF Inv
<1>7. /\ \A q \in Procs : q \in dead' => job'[q].section # "start"
      /\ \A q, o \in Procs : job'[q].section = "start" /\ job'[o].section = "start" => q = o
  BY <1>1, <1>4, <1>5 DEF Inv
<1> QED
  BY <1>1, <1>3, <1>6, <1>7 DEF Inv

\* However many processes run their commands between each other's reads and writes, whoever dies
\* and whoever takes whose lock: the state after the last event is good, each view is of a state
\* it extends, and each plan fits it (mutate checks the state it finds, xsync.py).
THEOREM AnyNumberOfProcesses == Spec => []Inv
<1>1. Init => Inv
  <2> SUFFICES ASSUME Init PROVE Inv
    OBVIOUS
  <2>1. job = [p \in Procs |-> Idle] /\ \A p \in Procs : job[p] = Idle
    BY DEF Init
  <2>2. job = [p \in Procs |-> job[p]]
    BY <2>1
  <2>3. \A p \in Procs : JobFits(job[p], log.state, session) /\ job[p].section # "start"
    BY <2>1, QuietJobs, QuietFits DEF Quiet
  <2>4. log \in [state : {log.state}, broken : {log.broken}] /\ log.state.version = 0
    BY DEF Init, NoState
  <2> QED
    BY <2>2, <2>3, <2>4 DEF Inv
<1>2. Inv /\ [Next]_vars => Inv'
  <2> SUFFICES ASSUME Inv, [Next]_vars PROVE Inv'
    OBVIOUS
  <2>1. ASSUME NEW p \in Procs,
               \/ Stall(p) \/ LookAtLock(p) \/ Steal(p) \/ GiveUp(p)
               \/ Read(p) \/ Mutate(p) \/ MakeSession(p) \/ WriteEvent(p) \/ WriteState(p)
               \/ WriteActive(p) \/ Rebuild(p) \/ Begin(p) \/ Start(p) \/ Die(p)
        PROVE  Inv'
    BY <2>1, LockStep, ReadStep, MutateStep, MakeSessionStep, WriteEventStep, WriteStateStep,
       BeginStep, StartStep, DieStep
  <2>2. ASSUME NEW p \in Procs,
               \/ Answer(p) \/ Dispatch(p) \/ Pend(p) \/ Review(p) \/ Continue(p)
               \/ Teach(p) \/ Feedback(p) \/ Revise(p) \/ Complete(p) \/ Report(p)
        PROVE  Inv'
    BY <2>2, AnswerStep, DispatchStep, PendStep, ReviewStep, ContinueStep, LessonsStep
  <2>3. CASE ChangeEvidence
    BY <2>3 DEF ChangeEvidence, files, faults, Inv
  <2>4. CASE UNCHANGED vars
    BY <2>4 DEF vars, files, faults, Inv
  <2> QED
    BY <2>1, <2>2, <2>3, <2>4 DEF Next
<1> QED
  BY <1>1, <1>2, PTL DEF Spec

-----------------------------------------------------------------------------
\* An answer given to a question whose evidence had changed is never scored by the program, and a
\* choice in a regular session by nobody, whichever process finds it later (submit_answer,
\* dispatch_saved_answer).
THEOREM StaleAnswersAreNeverScored == Spec => []StaleIsNotScored
<1>1. Inv => StaleIsNotScored
  <2> SUFFICES ASSUME Inv, log.state.version > 0, NEW a \in ToSet(log.state.attempts), ~ a.fresh
               PROVE  /\ a.auto = "none"
                      /\ session.style = "regular" /\ Bank[a.question].kind = "choice" =>
                            a.review.status \in {"none", "stale"}
    BY DEF StaleIsNotScored
  <2>1. NotScored(a, session)
    BY DEF Inv, Good, ToSet
  <2> QED
    BY <2>1 DEF NotScored, Judged
<1> QED
  BY <1>1, AnyNumberOfProcesses, PTL

-----------------------------------------------------------------------------
(* The paper *)

\* A job after a command has decided: it is over, or waits for the lock again.
Calm(j) == j.at \in {"idle", "lock"} /\ j.section \in {"none", "read", "write", "rebuild"}

LEMMA CommandJob ==
    ASSUME NEW p \in Procs,
           \/ Begin(p) \/ Answer(p) \/ Dispatch(p) \/ Pend(p) \/ Review(p) \/ Continue(p)
           \/ Teach(p) \/ Feedback(p) \/ Revise(p) \/ Complete(p) \/ Report(p)
    PROVE  /\ p \notin dead /\ UNCHANGED <<lock, faults, files, stale, changes>>
           /\ \E j : Become(p, j) /\ Calm(j)
<1> DEFINE Calms == \E j : Become(p, j) /\ Calm(j)
<1>1. p \notin dead /\ UNCHANGED <<lock, faults, files, stale, changes>>
  BY DEF Begin, Answer, Dispatch, Pend, Review, Continue, Teach, Feedback, Revise, Complete,
         Report, Decides, At
<1>2. ASSUME NEW j, Quiet(j), Become(p, j) PROVE Calms
  BY <1>2 DEF Quiet, Calm
<1>3. ASSUME NEW w, Write(p, w) PROVE Calms
  <2> DEFINE j == [Idle EXCEPT !.at = "lock", !.section = "write", !.then = job[p].then, !.plan = w]
  <2>1. Calm(j) /\ Become(p, j)
    BY <1>3 DEF Write, Idle, Calm
  <2> QED
    BY <2>1
<1>4. ASSUME NEW op, NEW then, NEW expect, Become(p, Reading(op, then, expect)) PROVE Calms
  BY <1>2, <1>4, QuietJobs
<1>5. Stop(p) \/ Become(p, Idle) => Calms
  BY <1>2, QuietJobs DEF Stop
<1>6. ASSUME NEW a, MarkStale(p, a) PROVE Calms
  BY <1>3, <1>6 DEF MarkStale
<1>7. ASSUME NEW k, CloseLesson(p, k) PROVE Calms
  BY <1>3, <1>7 DEF CloseLesson
<1> HIDE DEF Calms
<1>8. CASE Begin(p) \/ Answer(p) \/ Dispatch(p)
  BY <1>1, <1>3, <1>4, <1>5, <1>6, <1>8 DEF Begin, Answer, Dispatch, Calms
<1>9. CASE Pend(p) \/ Review(p)
  BY <1>1, <1>3, <1>4, <1>5, <1>6, <1>7, <1>9 DEF Pend, Review, Calms
<1>10. CASE Continue(p)
  BY <1>1, <1>3, <1>4, <1>5, <1>10 DEF Continue, Calms
<1>11. CASE Teach(p) \/ Feedback(p) \/ Revise(p) \/ Complete(p)
  BY <1>1, <1>3, <1>5, <1>7, <1>11 DEF Teach, Feedback, Revise, Complete, Calms
<1>12. CASE Report(p)
  <2>1. Quiet([Idle EXCEPT !.at = "lock", !.section = "rebuild"])
    BY DEF Quiet, Idle, IsJob
  <2> QED
    BY <1>1, <1>2, <1>12, <2>1 DEF Report, Calms
<1> QED
  BY <1>8, <1>9, <1>10, <1>11, <1>12 DEF Calms

\* The session that was made, or is about to be, has such a paper.
PaperInv ==
    /\ \A p \in Procs : job[p].section = "start" =>
          /\ job[p].at \in {"lock", "stalled", "steal"} => PaperOk(job[p].plan.body)
          /\ job[p].at = "event" => PaperOk(session)
    /\ log.state.version > 0 => PaperOk(session)
    /\ stale \subseteq Questions /\ ToSet(session.paper) \subseteq Questions
    /\ session.style \in Styles \cup {"none"}

LEMMA PaperStep ==
    ASSUME PapersAreSound, Inv, PaperInv, [Next]_vars
    PROVE  PaperInv'
<1>1. ASSUME NEW p \in Procs, NEW j, Become(p, j),
             j.section = "start" =>
                 /\ j.at \in {"lock", "stalled", "steal"} => PaperOk(j.plan.body)
                 /\ j.at = "event" => PaperOk(session),
             UNCHANGED <<log, session, stale>>
      PROVE  PaperInv'
  <2>1. \A q \in Procs : job'[q] = IF q = p THEN j ELSE job[q]
    BY <1>1 DEF Become, Inv
  <2> QED
    BY <1>1, <2>1 DEF PaperInv
<1>2. ASSUME NEW p \in Procs, NEW j, Quiet(j), Become(p, j), UNCHANGED <<log, session, stale>>
      PROVE  PaperInv'
  BY <1>1, <1>2 DEF Quiet
<1>4. \A p \in Procs : IsJob(job[p])
  BY DEF Inv, JobFits
<1>5. ASSUME NEW p \in Procs, Stall(p) \/ LookAtLock(p) \/ Steal(p) PROVE PaperInv'
  <2>1. PICK at \in {"lock", "stalled", "steal"} : job[p].at \in {"lock", "stalled", "steal"} /\ GoTo(p, at)
    BY <1>5 DEF Stall, LookAtLock, Steal, At
  <2> DEFINE j == [job[p] EXCEPT !.at = at]
  <2>2. j.at = at /\ j.section = job[p].section /\ j.plan = job[p].plan
    BY <1>4 DEF IsJob
  <2>3. Become(p, j)
    BY <2>1 DEF GoTo
  <2> HIDE DEF j
  <2>4. UNCHANGED <<log, session, stale>>
    BY <1>5 DEF Stall, LookAtLock, Steal, files
  <2> QED
    BY <1>1, <2>1, <2>2, <2>3, <2>4 DEF PaperInv
<1>6. ASSUME NEW p \in Procs, Read(p) \/ Mutate(p) \/ WriteState(p) \/ WriteActive(p) \/ Rebuild(p)
      PROVE  PaperInv'
  <2>1. UNCHANGED <<log, session, stale>>
    BY <1>6 DEF Read, Mutate, WriteState, WriteActive, Rebuild
  <2>2. ASSUME NEW j, Quiet(j), Become(p, j) PROVE PaperInv'
    BY <1>2, <2>1, <2>2
  <2>3. ASSUME NEW j, j.section # "start" \/ j.at = "active", Become(p, j) PROVE PaperInv'
    BY <1>1, <2>1, <2>3
  <2>4. CASE Read(p)
    <3>1. job[p].section = "read"
      BY <2>4 DEF Read, Waits
    <3>2. [job[p] EXCEPT !.at = "decide", !.view = log.state].section = "read"
      BY <1>4, <3>1 DEF IsJob
    <3> QED
      BY <2>2, <2>3, <2>4, <3>2, QuietJobs DEF Read
  <2>5. CASE Mutate(p)
    <3>1. job[p].section = "write"
      BY <2>5 DEF Mutate, Waits
    <3>2. \A n, w : [job[p] EXCEPT !.at = "event", !.next = n, !.plan = w].section = "write"
      BY <1>4, <3>1 DEF IsJob
    <3>3. ASSUME NEW n, NEW w, Become(p, [job[p] EXCEPT !.at = "event", !.next = n, !.plan = w])
          PROVE  PaperInv'
      BY <2>3, <3>2, <3>3
    <3>4. ASSUME NEW t, Become(p, [job[p] EXCEPT !.at = "event", !.next = Written(t),
                                             !.plan = [type |-> @.type]])
          PROVE  PaperInv'
      BY <3>3, <3>4
    <3> QED
      BY <2>2, <2>5, <3>4, QuietJobs DEF Mutate
  <2>6. CASE WriteState(p)
    <3>1. [job[p] EXCEPT !.at = "active"].at = "active"
      BY <1>4 DEF IsJob
    <3> QED
      BY <2>2, <2>3, <2>6, <3>1, QuietJobs DEF WriteState, GoTo
  <2>7. CASE WriteActive(p) \/ Rebuild(p)
    BY <2>2, <2>7, QuietJobs DEF WriteActive, Rebuild
  <2> QED
    BY <1>6, <2>4, <2>5, <2>6, <2>7
<1>7. ASSUME NEW p \in Procs, MakeSession(p) PROVE PaperInv'
  <2> DEFINE n == Opened(job[p].plan.body.paper)
             j == [job[p] EXCEPT !.at = "event", !.next = n]
  <2>1. /\ log' = log /\ stale' = stale /\ job[p].section = "start" /\ job[p].at \in {"lock", "stalled"}
        /\ session' = job[p].plan.body /\ Become(p, j)
    BY <1>7 DEF MakeSession, Waits, At
  <2> HIDE DEF n
  <2>2. j.at = "event" /\ j.section = "start"
    BY <1>4, <2>1 DEF IsJob
  <2> HIDE DEF j
  <2>3. PaperOk(session')
    BY <2>1 DEF PaperInv
  <2>4. ToSet(session'.paper) \subseteq Questions /\ session'.style \in Styles
    BY <2>3 DEF PaperOk, ToSet
  <2>5. \A q \in Procs : job'[q] = IF q = p THEN j ELSE job[q]
    BY <2>1 DEF Become, Inv
  <2>6. \A q \in Procs : q # p => job[q].section # "start"
    BY <2>1 DEF Inv
  <2> QED
    BY <2>1, <2>2, <2>3, <2>4, <2>5, <2>6 DEF PaperInv
<1>8. ASSUME NEW p \in Procs, WriteEvent(p) PROVE PaperInv'
  <2> DEFINE w == [version |-> job[p].next.version]
             j == [job[p] EXCEPT !.at = "state", !.next = w]
  <2>1. session' = session /\ stale' = stale /\ job[p].at = "event" /\ Become(p, j)
    BY <1>8 DEF WriteEvent, At
  <2> HIDE DEF w
  <2>2. j.at = "state"
    BY <1>4 DEF IsJob
  <2> HIDE DEF j
  <2>3. PaperOk(session)
    <3>1. JobFits(job[p], log.state, session)
      BY DEF Inv
    <3> QED
      BY <2>1, <3>1 DEF PaperInv, JobFits
  <2>4. \A q \in Procs : job'[q] = IF q = p THEN j ELSE job[q]
    BY <2>1 DEF Become, Inv
  <2> QED
    BY <2>1, <2>2, <2>3, <2>4 DEF PaperInv
<1>9. ASSUME NEW p \in Procs, Start(p) PROVE PaperInv'
  <2>1. UNCHANGED <<log, session, stale>>
    BY <1>9 DEF Start, files
  <2>2. CASE Become(p, Idle)
    BY <1>2, <2>1, <2>2, QuietJobs
  <2>3. ASSUME NEW r \in Requests, NEW paper, PaperOk([style |-> r.style, paper |-> paper]),
               Become(p, [Idle EXCEPT !.at = "lock", !.section = "start",
                            !.plan = [type |-> "session_started",
                                      body |-> [style |-> r.style, paper |-> paper]]])
        PROVE  PaperInv'
    <3> DEFINE b == [style |-> r.style, paper |-> paper]
               w == [type |-> "session_started", body |-> b]
               j == [Idle EXCEPT !.at = "lock", !.section = "start", !.plan = w]
    <3>1. w.body = b
      OBVIOUS
    <3> HIDE DEF b, w
    <3>2. j.at = "lock" /\ j.section = "start" /\ j.plan = w
      BY DEF Idle
    <3>3. Become(p, j) /\ PaperOk(b)
      BY <2>3 DEF b, w
    <3> HIDE DEF j
    <3> QED
      BY <1>1, <2>1, <3>1, <3>2, <3>3
  <2>4. PICK r \in Requests, stage \in Histories :
          LET paper == PaperOf(r.style, r.focus, r.count, stale, stage) IN
          Become(p, IF paper = <<>> THEN Idle
                    ELSE [Idle EXCEPT !.at = "lock", !.section = "start",
                         !.plan = [type |-> "session_started", body |-> [style |-> r.style, paper |-> paper]]])
    BY <1>9 DEF Start
  <2> DEFINE paper == PaperOf(r.style, r.focus, r.count, stale, stage)
  <2>5. paper # <<>> => PaperOk([style |-> r.style, paper |-> paper])
    BY DEF PaperInv, PapersAreSound
  <2>6. \/ Become(p, Idle)
        \/ paper # <<>> /\ Become(p, [Idle EXCEPT !.at = "lock", !.section = "start",
                         !.plan = [type |-> "session_started", body |-> [style |-> r.style, paper |-> paper]]])
    BY <2>4
  <2> HIDE DEF paper
  <2> QED
    BY <2>2, <2>3, <2>5, <2>6
<1>10. ASSUME NEW p \in Procs, Die(p) \/ GiveUp(p) PROVE PaperInv'
  BY <1>2, <1>10, QuietJobs DEF Die, GiveUp, files
<1>11. ASSUME NEW p \in Procs,
              \/ Begin(p) \/ Answer(p) \/ Dispatch(p) \/ Pend(p) \/ Review(p) \/ Continue(p)
              \/ Teach(p) \/ Feedback(p) \/ Revise(p) \/ Complete(p) \/ Report(p)
       PROVE  PaperInv'
  <2>1. UNCHANGED <<log, session, stale>>
    BY <1>11, CommandJob DEF files
  <2>2. PICK j : Become(p, j) /\ Calm(j)
    BY <1>11, CommandJob
  <2> QED
    BY <1>1, <2>1, <2>2 DEF Calm
<1>12. CASE ChangeEvidence
  BY <1>12 DEF ChangeEvidence, files, PaperInv
<1>13. CASE UNCHANGED vars
  BY <1>13 DEF vars, files, PaperInv
<1> QED
  BY <1>5, <1>6, <1>7, <1>8, <1>9, <1>10, <1>11, <1>12, <1>13 DEF Next

LEMMA PaperInvAlways ==
    ASSUME PapersAreSound
    PROVE  Spec => []PaperInv
<1>1. Init => PaperInv
  <2> SUFFICES ASSUME Init PROVE PaperInv
    OBVIOUS
  <2>1. \A p \in Procs : job[p] = Idle
    BY DEF Init
  <2>2. log.state.version = 0 /\ stale = {} /\ session.paper = <<>> /\ session.style = "none"
    BY DEF Init, NoState, NoSession
  <2>3. ToSet(session.paper) = {}
    BY <2>2 DEF ToSet
  <2> QED
    BY <2>1, <2>2, <2>3, QuietJobs DEF PaperInv, Quiet
<1>2. Inv /\ PaperInv /\ [Next]_vars => PaperInv'
  BY PaperStep, PapersAreSound
<1> QED
  BY <1>1, <1>2, AnyNumberOfProcesses, PTL DEF Spec

\* A session leaves a question behind only when its last answer is reviewed and no probe is due,
\* though continue_session decides outside the lock and another process may answer, review or
\* continue before its event is written.
THEOREM PassedQuestionsStaySettled ==
    ASSUME PapersAreSound
    PROVE  Spec => []PassedQuestionsWereSettled
<1>1. Inv /\ PaperInv => PassedQuestionsWereSettled
  <2> DEFINE s == log.state
             x == s.attempts
  <2> SUFFICES ASSUME Inv, PaperInv, s.version > 0, NEW i \in 1 .. s.index - 1
               PROVE  LET q == session.paper[i] IN
                      /\ TriesOf(s, q) # {}
                      /\ LET a == Item(x, LastTry(s, q)) IN
                         ~ Unreviewed(a) /\ a.review.outcome # "probe"
    BY DEF PassedQuestionsWereSettled
  <2>1. Good(s, session) /\ Passed(s, session)
    BY DEF Inv, PaperInv, Good
  <2>2. PICK k \in DOMAIN x : Settles(s, k, session.paper[i])
    BY <2>1 DEF Passed
  <2>3. LastTry(s, x[k].question) = x[k].id
    BY <2>1, <2>2, LastTryIs DEF Good, Settles
  <2>4. Item(x, x[k].id) = x[k]
    BY <2>1, PlaceIs DEF Item, Good
  <2>5. k \in TriesOf(s, session.paper[i])
    BY <2>2 DEF TriesOf, Settles
  <2> QED
    BY <2>2, <2>3, <2>4, <2>5 DEF Settles
<1> QED
  BY <1>1, PaperInvAlways, PapersAreSound, AnyNumberOfProcesses, PTL

-----------------------------------------------------------------------------
(* The lock *)

Sections == {"none", "read", "write", "rebuild", "start"}
Inside == {"event", "state", "active"}

\* What needs no exclusion: the types of what the lock protects.
LockTyped ==
    /\ lock \in Procs \cup {Nobody, Unnamed} /\ dead \subseteq Procs /\ robbed \in BOOLEAN
    /\ \A p \in Procs :
          /\ job[p].at \in Places /\ job[p].section \in Sections
          /\ p \in dead => job[p].at = "idle"
          /\ job[p].at \in {"event", "state"} => job[p].next.version \in Nat
    /\ file \in Nat /\ log.broken \in BOOLEAN /\ active \in BOOLEAN
    /\ changes \in 0 .. MaxChanges

\* Nobody else has made the lock's directory.
Alone(p) == \A q \in Procs \ {p} : job[q].at \notin Inside \cup {"stalled"}

\* Who is about to write holds the lock, who has made it and not named it is alone to have made
\* it, and what is written follows what was read.
Excludes ==
    /\ \A p \in Procs :
          /\ job[p].at \in Inside => lock = p
          /\ job[p].at = "stalled" => lock = Unnamed /\ Alone(p)
          /\ job[p].at = "event" => job[p].next.version = log.state.version + 1
          /\ job[p].at = "state" => job[p].next.version = log.state.version /\ log.state.version > 0
          /\ job[p].at = "active" => log.state.version > 0
    /\ file <= log.state.version /\ log.broken = FALSE /\ (active => log.state.version > 0)

\* It holds until a waiter moves the lock of a live process away.
LockInv == LockTyped /\ (~ robbed => Excludes)

LEMMA RepairedIs ==
    Repaired \in {file, log.state.version}
  BY DEF Repaired

LEMMA WrittenFollows ==
    ASSUME Inv, NEW p \in Procs, Waits(p, "write"), NEW t \in Changed(p), t # log.state, Accepted(p, t)
    PROVE  /\ Written(t).version = log.state.version + 1
           /\ Good(Written(t), session) /\ Extends(log.state, Written(t))
<1> DEFINE s == log.state
<1>1. s.version > 0 /\ s.version \in Nat /\ Good(s, session) /\ PlanFits(job[p].plan, s, session)
  BY DEF Inv, JobFits, Waits, At
<1>2. Good(t, session) /\ Extends(s, t)
  BY <1>1, StepGood DEF Changed, Accepted
<1> QED
  BY <1>1, <1>2, WrittenGood DEF Written

\* A step of one process keeps the types if what it writes has its type.
LEMMA TypedStep ==
    ASSUME Inv, LockTyped, NEW p \in Procs, NEW j, Become(p, j), p \notin dead,
           j.at \in Places, j.section \in Sections, j.at \in {"event", "state"} => j.next.version \in Nat,
           lock' \in Procs \cup {Nobody, Unnamed}, robbed' \in BOOLEAN, dead' = dead,
           file' \in Nat, log'.broken \in BOOLEAN, active' \in BOOLEAN, changes' = changes
    PROVE  LockTyped'
<1>1. job'[p] = j /\ \A q \in Procs : q # p => job'[q] = job[q]
  BY DEF Become, Inv
<1>2. ASSUME NEW q \in Procs
      PROVE  /\ job'[q].at \in Places /\ job'[q].section \in Sections
             /\ q \in dead' => job'[q].at = "idle"
             /\ job'[q].at \in {"event", "state"} => job'[q].next.version \in Nat
  BY <1>1 DEF LockTyped
<1> QED
  BY <1>2 DEF LockTyped

LEMMA LockTypedStep ==
    ASSUME Inv, LockTyped, [Next]_vars
    PROVE  LockTyped'
<1> DEFINE Types == /\ lock' \in Procs \cup {Nobody, Unnamed} /\ robbed' \in BOOLEAN /\ dead' = dead
                    /\ file' \in Nat /\ log'.broken \in BOOLEAN /\ active' \in BOOLEAN /\ changes' = changes
<1>1. \A p \in Procs : IsJob(job[p]) /\ job[p].section \in Sections
  BY DEF Inv, JobFits, LockTyped
<1>2. ASSUME NEW p \in Procs, NEW j, Quiet(j), Become(p, j), p \notin dead, Types PROVE LockTyped'
  <2>1. j.at \in Places /\ j.section \in Sections /\ j.at \notin {"event", "state"}
    BY <1>2 DEF Quiet, Places, Sections
  <2> QED
    BY <1>2, <2>1, TypedStep
<1>3. ASSUME NEW p \in Procs, NEW j, Become(p, j), p \notin dead, Types, j.section = job[p].section,
             j.at \in Places, j.at \in {"event", "state"} => j.next.version \in Nat
      PROVE  LockTyped'
  BY <1>1, <1>3, TypedStep
<1>4. Repaired \in Nat
  BY RepairedIs DEF LockTyped, Inv
<1>5. ASSUME NEW p \in Procs, Stall(p) \/ LookAtLock(p) \/ Steal(p) PROVE LockTyped'
  <2>1. PICK at \in {"lock", "stalled", "steal"} : GoTo(p, at)
    BY <1>5 DEF Stall, LookAtLock, Steal
  <2> DEFINE j == [job[p] EXCEPT !.at = at]
  <2>2. Become(p, j)
    BY <2>1 DEF GoTo
  <2>3. j.at = at /\ j.section = job[p].section
    BY <1>1 DEF IsJob
  <2> HIDE DEF j
  <2>4. p \notin dead /\ Types
    BY <1>5 DEF Stall, LookAtLock, Steal, At, files, faults, LockTyped
  <2> QED
    BY <1>3, <2>2, <2>3, <2>4 DEF Places
<1>6. ASSUME NEW p \in Procs, GiveUp(p) PROVE LockTyped'
  <2>1. p \notin dead /\ Types
    BY <1>6 DEF GiveUp, At, files, faults, LockTyped
  <2> QED
    BY <1>2, <1>6, <2>1, QuietJobs DEF GiveUp
<1>7. ASSUME NEW p \in Procs, Read(p) PROVE LockTyped'
  <2> DEFINE j == [job[p] EXCEPT !.at = "decide", !.view = log.state]
  <2>1. p \notin dead /\ Types /\ (Become(p, j) \/ Become(p, Idle))
    BY <1>4, <1>7 DEF Read, Waits, At, Unlock, faults, LockTyped
  <2>2. j.at = "decide" /\ j.section = job[p].section
    BY <1>1 DEF IsJob
  <2> HIDE DEF j
  <2> QED
    BY <1>2, <1>3, <2>1, <2>2, QuietJobs DEF Places
<1>8. ASSUME NEW p \in Procs, Mutate(p) PROVE LockTyped'
  <2>1. p \notin dead /\ Waits(p, "write") /\ Types
    BY <1>4, <1>8 DEF Mutate, Waits, At, Unlock, faults, LockTyped
  <2>2. ASSUME NEW t \in Changed(p), t # log.state, Accepted(p, t),
               Become(p, [job[p] EXCEPT !.at = "event", !.next = Written(t), !.plan = [type |-> @.type]])
        PROVE  LockTyped'
    <3> DEFINE n == Written(t)
               w == [type |-> job[p].plan.type]
               j == [job[p] EXCEPT !.at = "event", !.next = n, !.plan = w]
    <3>1. Become(p, j)
      BY <2>2
    <3>2. n.version \in Nat
      BY <2>1, <2>2, WrittenFollows DEF Inv
    <3> HIDE DEF n, w
    <3>3. j.at = "event" /\ j.section = job[p].section /\ j.next = n
      BY <1>1 DEF IsJob
    <3> HIDE DEF j
    <3> QED
      BY <1>3, <2>1, <3>1, <3>2, <3>3 DEF Places
  <2> QED
    BY <1>2, <1>8, <2>1, <2>2, QuietJobs DEF Mutate
<1>9. ASSUME NEW p \in Procs, MakeSession(p) PROVE LockTyped'
  <2> DEFINE n == Opened(job[p].plan.body.paper)
             j == [job[p] EXCEPT !.at = "event", !.next = n]
  <2>1. p \notin dead /\ Types /\ Become(p, j)
    BY <1>9 DEF MakeSession, Waits, At, faults, LockTyped
  <2>2. n.version \in Nat
    BY DEF Opened
  <2> HIDE DEF n
  <2>3. j.at = "event" /\ j.section = job[p].section /\ j.next = n
    BY <1>1 DEF IsJob
  <2> HIDE DEF j
  <2> QED
    BY <1>3, <2>1, <2>2, <2>3 DEF Places
<1>10. ASSUME NEW p \in Procs, WriteEvent(p) PROVE LockTyped'
  <2> DEFINE w == [version |-> job[p].next.version]
             j == [job[p] EXCEPT !.at = "state", !.next = w]
  <2>1. p \notin dead /\ Types /\ Become(p, j) /\ job[p].at = "event"
    <3>1. log'.broken \in {log.broken, TRUE}
      BY <1>10 DEF WriteEvent, Inv
    <3> QED
      BY <1>10, <3>1 DEF WriteEvent, At, faults, LockTyped
  <2>2. w.version \in Nat
    BY <2>1 DEF LockTyped
  <2> HIDE DEF w
  <2>3. j.at = "state" /\ j.section = job[p].section /\ j.next = w
    BY <1>1 DEF IsJob
  <2> HIDE DEF j
  <2> QED
    BY <1>3, <2>1, <2>2, <2>3 DEF Places
<1>11. ASSUME NEW p \in Procs, WriteState(p) PROVE LockTyped'
  <2>1. p \notin dead /\ Types
    BY <1>11 DEF WriteState, At, Unlock, faults, LockTyped
  <2>2. CASE Become(p, Follow(job[p]))
    BY <1>2, <2>1, <2>2, QuietJobs
  <2>3. CASE GoTo(p, "active")
    <3> DEFINE j == [job[p] EXCEPT !.at = "active"]
    <3>1. j.at = "active" /\ j.section = job[p].section /\ Become(p, j)
      BY <1>1, <2>3 DEF IsJob, GoTo
    <3> HIDE DEF j
    <3> QED
      BY <1>3, <2>1, <3>1 DEF Places
  <2> QED
    BY <1>11, <2>2, <2>3 DEF WriteState
<1>12. ASSUME NEW p \in Procs, WriteActive(p) \/ Rebuild(p) PROVE LockTyped'
  <2>1. p \notin dead /\ Types
    BY <1>4, <1>12 DEF WriteActive, Rebuild, Waits, At, Unlock, faults, LockTyped
  <2> QED
    BY <1>2, <1>12, <2>1, QuietJobs DEF WriteActive, Rebuild
<1>13. ASSUME NEW p \in Procs, Start(p) PROVE LockTyped'
  <2>1. p \notin dead /\ Types
    BY <1>13 DEF Start, At, files, faults, LockTyped
  <2>2. ASSUME NEW plan, Become(p, [Idle EXCEPT !.at = "lock", !.section = "start", !.plan = plan])
        PROVE  LockTyped'
    <3> DEFINE j == [Idle EXCEPT !.at = "lock", !.section = "start", !.plan = plan]
    <3>1. j.at = "lock" /\ j.section = "start" /\ Become(p, j)
      BY <2>2 DEF Idle
    <3> HIDE DEF j
    <3> QED
      BY <2>1, <3>1, TypedStep DEF Places, Sections
  <2> QED
    BY <1>2, <1>13, <2>1, <2>2, QuietJobs DEF Start
<1>14. ASSUME NEW p \in Procs, Die(p) PROVE LockTyped'
  <2>1. /\ UNCHANGED <<lock, robbed, log, file, active, changes>>
        /\ dead' = dead \cup {p} /\ Become(p, Idle)
    BY <1>14 DEF Die, files
  <2>2. job'[p] = Idle /\ (\A q \in Procs : q # p => job'[q] = job[q])
    BY <2>1 DEF Become, Inv
  <2>3. Idle.at = "idle" /\ Idle.section = "none"
    BY DEF Idle
  <2> QED
    BY <2>1, <2>2, <2>3 DEF LockTyped, Places, Sections
<1>15. ASSUME NEW p \in Procs,
              \/ Begin(p) \/ Answer(p) \/ Dispatch(p) \/ Pend(p) \/ Review(p) \/ Continue(p)
              \/ Teach(p) \/ Feedback(p) \/ Revise(p) \/ Complete(p) \/ Report(p)
       PROVE  LockTyped'
  <2>1. p \notin dead /\ Types
    BY <1>15, CommandJob DEF files, faults, LockTyped
  <2>2. PICK j : Become(p, j) /\ Calm(j)
    BY <1>15, CommandJob
  <2> QED
    BY <2>1, <2>2, TypedStep DEF Calm, Sections, Places
<1>16. CASE ChangeEvidence
  BY <1>16, BoundAssumption DEF ChangeEvidence, files, faults, LockTyped
<1>17. CASE UNCHANGED vars
  BY <1>17 DEF vars, files, faults, LockTyped
<1> QED
  BY <1>5, <1>6, <1>7, <1>8, <1>9, <1>10, <1>11, <1>12, <1>13, <1>14, <1>15, <1>16, <1>17 DEF Next

\* Who may enter, and who is about to write, is alone.
LEMMA EntersAlone ==
    ASSUME Excludes, NEW p \in Procs, MayEnter(p) \/ job[p].at \in Inside
    PROVE  Alone(p)
<1>1. \A q \in Procs : lock = q => lock # Nobody /\ lock # Unnamed
  BY ProcAssumption
<1>2. CASE lock = Nobody
  BY <1>1, <1>2, ProcAssumption DEF Excludes, Alone
<1>3. CASE job[p].at = "stalled"
  BY <1>3 DEF Excludes
<1>4. CASE job[p].at \in Inside
  BY <1>1, <1>4 DEF Excludes, Alone
<1> QED
  BY <1>2, <1>3, <1>4 DEF MayEnter, At

\* A step that leaves its process without the lock.
LEMMA CalmStep ==
    ASSUME Inv, Excludes, NEW p \in Procs, NEW j, Become(p, j),
           j.at \in {"idle", "lock", "decide", "steal"},
           \/ lock' = lock /\ job[p].at \notin Inside \cup {"stalled"}
           \/ lock' = Nobody /\ Alone(p),
           log' = log, file' \in {file, log.state.version},
           active' = active \/ (active' = TRUE /\ log.state.version > 0)
    PROVE  Excludes'
<1>1. job'[p] = j /\ \A q \in Procs : q # p => job'[q] = job[q]
  BY DEF Become, Inv
<1>2. j.at \notin Inside \cup {"stalled"}
  BY DEF Inside
<1>3. ASSUME NEW q \in Procs
      PROVE  /\ job'[q].at \in Inside => lock' = q
             /\ job'[q].at = "stalled" => lock' = Unnamed /\ Alone(q)'
             /\ job'[q].at = "event" => job'[q].next.version = log'.state.version + 1
             /\ job'[q].at = "state" => job'[q].next.version = log'.state.version /\ log'.state.version > 0
             /\ job'[q].at = "active" => log'.state.version > 0
  <2>1. CASE q = p
    BY <1>1, <1>2, <2>1 DEF Inside
  <2>2. CASE q # p /\ lock' = lock
    <3>1. job'[q] = job[q]
      BY <1>1, <2>2
    <3>2. Alone(q) => Alone(q)'
      BY <1>1, <1>2 DEF Alone
    <3> QED
      BY <2>2, <3>1, <3>2 DEF Excludes
  <2>3. CASE q # p /\ Alone(p)
    BY <1>1, <2>3 DEF Alone, Inside
  <2> QED
    BY <2>1, <2>2, <2>3
<1>4. file' <= log'.state.version /\ log'.broken = FALSE
  BY DEF Excludes, Inv
<1>5. active' => log'.state.version > 0
  BY DEF Excludes
<1> QED
  BY <1>3, <1>4, <1>5 DEF Excludes

\* A step that takes the lock for an event.
LEMMA TakeStep ==
    ASSUME Inv, Excludes, NEW p \in Procs, NEW j, Become(p, j), Alone(p), lock' = p,
           j.at = "event", j.next.version = log.state.version + 1,
           log' = log, file' \in {file, log.state.version}, active' = active
    PROVE  Excludes'
<1>1. job'[p] = j /\ \A q \in Procs : q # p => job'[q] = job[q]
  BY DEF Become, Inv
<1>2. ASSUME NEW q \in Procs
      PROVE  /\ job'[q].at \in Inside => lock' = q
             /\ job'[q].at # "stalled"
             /\ job'[q].at = "event" => job'[q].next.version = log'.state.version + 1
             /\ job'[q].at \notin {"state", "active"}
  <2>1. CASE q = p
    BY <1>1, <2>1
  <2>2. CASE q # p
    BY <1>1, <2>2 DEF Alone, Inside
  <2> QED
    BY <2>1, <2>2
<1>3. file' <= log'.state.version /\ log'.broken = FALSE /\ (active' => log'.state.version > 0)
  BY DEF Excludes, Inv
<1> QED
  BY <1>2, <1>3 DEF Excludes

LEMMA ExcludesStep ==
    ASSUME Inv, LockTyped, Excludes, [Next]_vars, ~ robbed'
    PROVE  Excludes'
<1>1. \A p \in Procs : IsJob(job[p])
  BY DEF Inv, JobFits
<1>2. ASSUME NEW p \in Procs, Stall(p) PROVE Excludes'
  <2> DEFINE j == [job[p] EXCEPT !.at = "stalled"]
  <2>1. lock = Nobody /\ lock' = Unnamed /\ Become(p, j) /\ UNCHANGED <<log, file, active>>
    BY <1>2 DEF Stall, GoTo, files
  <2>2. j.at = "stalled"
    BY <1>1 DEF IsJob
  <2> HIDE DEF j
  <2>3. job'[p] = j /\ \A q \in Procs : q # p => job'[q] = job[q]
    BY <2>1 DEF Become, Inv
  <2>4. Alone(p)
    BY <2>1, EntersAlone DEF MayEnter
  <2>5. Alone(p)'
    BY <2>3, <2>4 DEF Alone
  <2>6. ASSUME NEW q \in Procs
        PROVE  job'[q].at \notin Inside /\ (job'[q].at = "stalled" => q = p)
    <3>1. CASE q = p
      BY <2>2, <2>3, <3>1 DEF Inside
    <3>2. CASE q # p
      BY <2>3, <2>4, <3>2 DEF Alone
    <3> QED
      BY <3>1, <3>2
  <2> QED
    BY <2>1, <2>5, <2>6 DEF Excludes, Inside
<1>3. ASSUME NEW p \in Procs, LookAtLock(p) PROVE Excludes'
  <2> DEFINE j == [job[p] EXCEPT !.at = "steal"]
  <2>1. job[p].at = "lock" /\ Become(p, j) /\ UNCHANGED <<lock, log, file, active>>
    BY <1>3 DEF LookAtLock, At, GoTo, files
  <2>2. j.at = "steal"
    BY <1>1 DEF IsJob
  <2> HIDE DEF j
  <2> QED
    BY <2>1, <2>2, CalmStep DEF Inside
\* Whoever is inside, or has made the directory, is alive: it would be robbed.
<1>4. ASSUME NEW p \in Procs, Steal(p) PROVE Excludes'
  <2> DEFINE j == [job[p] EXCEPT !.at = "lock"]
  <2>1. lock' = Nobody /\ Become(p, j) /\ UNCHANGED <<log, file, active>>
    BY <1>4 DEF Steal, GoTo, files
  <2>2. j.at = "lock"
    BY <1>1 DEF IsJob
  <2> HIDE DEF j
  <2>3. lock \notin Procs \ dead /\ ~ (lock = Unnamed /\ \E q \in Procs : At(q, "stalled"))
    BY <1>4 DEF Steal
  <2>4. ASSUME NEW q \in Procs, job[q].at \in Inside \cup {"stalled"} PROVE FALSE
    <3>1. q \notin dead
      BY <2>4 DEF LockTyped, Inside
    <3>2. CASE job[q].at \in Inside
      BY <2>3, <3>1, <3>2 DEF Excludes
    <3>3. CASE job[q].at = "stalled"
      BY <2>3, <3>1, <3>3 DEF Excludes, At
    <3> QED
      BY <2>4, <3>2, <3>3
  <2>5. Alone(p)
    BY <2>4 DEF Alone
  <2> QED
    BY <2>1, <2>2, <2>5, CalmStep
<1>5. ASSUME NEW p \in Procs, GiveUp(p) PROVE Excludes'
  <2>1. job[p].at = "lock" /\ Become(p, Idle) /\ UNCHANGED <<lock, log, file, active>>
    BY <1>5 DEF GiveUp, At, files
  <2>2. Idle.at = "idle"
    BY DEF Idle
  <2> QED
    BY <2>1, <2>2, CalmStep DEF Inside
<1>6. ASSUME NEW p \in Procs, Read(p) PROVE Excludes'
  <2> DEFINE j == [job[p] EXCEPT !.at = "decide", !.view = log.state]
  <2>1. /\ MayEnter(p) /\ lock' = Nobody /\ (Become(p, j) \/ Become(p, Idle))
        /\ UNCHANGED <<log, active>> /\ file' \in {file, log.state.version}
    BY <1>6, RepairedIs DEF Read, Unlock
  <2>2. j.at = "decide" /\ Idle.at = "idle"
    BY <1>1 DEF IsJob, Idle
  <2> HIDE DEF j
  <2> QED
    BY <2>1, <2>2, EntersAlone, CalmStep
<1>7. ASSUME NEW p \in Procs, Mutate(p) PROVE Excludes'
  <2>1. /\ Waits(p, "write") /\ MayEnter(p)
        /\ UNCHANGED <<log, active>> /\ file' \in {file, log.state.version}
    BY <1>7, RepairedIs DEF Mutate
  <2>2. Alone(p)
    BY <2>1, EntersAlone
  <2>3. ASSUME NEW j, Quiet(j), Become(p, j), lock' = Nobody PROVE Excludes'
    BY <2>1, <2>2, <2>3, CalmStep DEF Quiet
  <2>4. ASSUME NEW t \in Changed(p), t # log.state, Accepted(p, t), lock' = p,
               Become(p, [job[p] EXCEPT !.at = "event", !.next = Written(t), !.plan = [type |-> @.type]])
        PROVE  Excludes'
    <3> DEFINE n == Written(t)
               w == [type |-> job[p].plan.type]
               j == [job[p] EXCEPT !.at = "event", !.next = n, !.plan = w]
    <3>1. Become(p, j)
      BY <2>4
    <3>2. n.version = log.state.version + 1
      BY <2>1, <2>4, WrittenFollows
    <3> HIDE DEF n, w
    <3>3. j.at = "event" /\ j.next = n
      BY <1>1 DEF IsJob
    <3> HIDE DEF j
    <3> QED
      BY <2>1, <2>2, <2>4, <3>1, <3>2, <3>3, TakeStep
  <2> QED
    BY <1>7, <2>3, <2>4, QuietJobs DEF Mutate, Unlock
<1>8. ASSUME NEW p \in Procs, MakeSession(p) PROVE Excludes'
  <2> DEFINE n == Opened(job[p].plan.body.paper)
             j == [job[p] EXCEPT !.at = "event", !.next = n]
  <2>1. /\ MayEnter(p) /\ lock' = p /\ Become(p, j) /\ UNCHANGED <<log, file, active>>
        /\ job[p].at \in {"lock", "stalled"} /\ job[p].section = "start"
    BY <1>8 DEF MakeSession, Waits, At
  <2>2. log.state.version = 0
    BY <2>1 DEF Inv, JobFits
  <2>3. n.version = 1
    BY DEF Opened
  <2> HIDE DEF n
  <2>4. j.at = "event" /\ j.next = n
    BY <1>1 DEF IsJob
  <2> HIDE DEF j
  <2> QED
    BY <2>1, <2>2, <2>3, <2>4, EntersAlone, TakeStep
<1>9. ASSUME NEW p \in Procs, WriteEvent(p) PROVE Excludes'
  <2> DEFINE n == job[p].next
             w == [version |-> n.version]
             j == [job[p] EXCEPT !.at = "state", !.next = w]
  <2>1. /\ UNCHANGED <<lock, file, active>> /\ job[p].at = "event" /\ Become(p, j)
        /\ log' = IF n.version = log.state.version + 1
                  THEN [log EXCEPT !.state = n] ELSE [log EXCEPT !.broken = TRUE]
    BY <1>9 DEF WriteEvent, At
  <2>2. n.version = log.state.version + 1 /\ log.state.version \in Nat /\ lock = p /\ Alone(p)
    BY <2>1, EntersAlone DEF Excludes, Inv, Inside
  <2>3. log'.state = n /\ log'.broken = log.broken
    BY <2>1, <2>2 DEF Inv
  <2>4. w.version = n.version
    OBVIOUS
  <2> HIDE DEF w
  <2>5. j.at = "state" /\ j.next = w
    BY <1>1 DEF IsJob
  <2> HIDE DEF j, n
  <2>6. job'[p] = j /\ \A q \in Procs : q # p => job'[q] = job[q]
    BY <2>1 DEF Become, Inv
  <2>7. ASSUME NEW q \in Procs
        PROVE  /\ job'[q].at \in Inside => lock' = q
               /\ job'[q].at # "stalled"
               /\ job'[q].at \notin {"event", "active"}
               /\ job'[q].at = "state" => job'[q].next.version = log'.state.version /\ log'.state.version > 0
    <3>1. CASE q = p
      BY <2>1, <2>2, <2>3, <2>4, <2>5, <2>6, <3>1
    <3>2. CASE q # p
      BY <2>2, <2>6, <3>2 DEF Alone, Inside
    <3> QED
      BY <3>1, <3>2
  <2>8. file' <= log'.state.version /\ log'.broken = FALSE /\ log'.state.version > 0
    BY <2>1, <2>2, <2>3 DEF Excludes, LockTyped
  <2> QED
    BY <2>7, <2>8 DEF Excludes
<1>10. ASSUME NEW p \in Procs, WriteState(p) PROVE Excludes'
  <2>1. /\ UNCHANGED <<log, active>> /\ job[p].at = "state" /\ Alone(p)
        /\ file' = log.state.version /\ lock = p /\ log.state.version > 0
    BY <1>10, EntersAlone DEF WriteState, At, Excludes, Inside
  <2>2. CASE lock' = Nobody /\ Become(p, Follow(job[p]))
    BY <2>1, <2>2, QuietJobs, CalmStep DEF Quiet
  <2>3. CASE GoTo(p, "active") /\ lock' = lock
    <3> DEFINE j == [job[p] EXCEPT !.at = "active"]
    <3>1. j.at = "active" /\ Become(p, j)
      BY <1>1, <2>3 DEF IsJob, GoTo
    <3> HIDE DEF j
    <3>2. job'[p] = j /\ \A q \in Procs : q # p => job'[q] = job[q]
      BY <3>1 DEF Become, Inv
    <3>3. ASSUME NEW q \in Procs
          PROVE  /\ job'[q].at \in Inside => lock' = q
                 /\ job'[q].at \notin {"stalled", "event", "state"}
      <4>1. CASE q = p
        BY <2>1, <2>3, <3>1, <3>2, <4>1
      <4>2. CASE q # p
        BY <2>1, <3>2, <4>2 DEF Alone, Inside
      <4> QED
        BY <4>1, <4>2
    <3> QED
      BY <2>1, <3>3 DEF Excludes, Inv
  <2> QED
    BY <1>10, <2>2, <2>3 DEF WriteState, Unlock
<1>11. ASSUME NEW p \in Procs, WriteActive(p) PROVE Excludes'
  <2>1. /\ UNCHANGED <<log, file>> /\ job[p].at = "active" /\ active' = TRUE /\ Alone(p)
        /\ lock' = Nobody /\ log.state.version > 0 /\ Become(p, Idle)
    BY <1>11, EntersAlone DEF WriteActive, At, Excludes, Unlock, Inside
  <2> QED
    BY <2>1, QuietJobs, CalmStep DEF Quiet
<1>12. ASSUME NEW p \in Procs, Rebuild(p) PROVE Excludes'
  <2>1. /\ UNCHANGED <<log, active>> /\ lock' = Nobody /\ Alone(p)
        /\ file' \in {file, log.state.version} /\ Become(p, Return(job[p]))
    BY <1>12, EntersAlone, RepairedIs DEF Rebuild, Unlock
  <2> QED
    BY <2>1, QuietJobs, CalmStep DEF Quiet
<1>13. ASSUME NEW p \in Procs, Start(p) PROVE Excludes'
  <2>1. UNCHANGED <<lock, log, file, active>> /\ job[p].at = "idle"
    BY <1>13 DEF Start, At, files
  <2>2. ASSUME NEW plan, Become(p, [Idle EXCEPT !.at = "lock", !.section = "start", !.plan = plan])
        PROVE  Excludes'
    <3> DEFINE j == [Idle EXCEPT !.at = "lock", !.section = "start", !.plan = plan]
    <3>1. j.at = "lock" /\ Become(p, j)
      BY <2>2 DEF Idle
    <3> HIDE DEF j
    <3> QED
      BY <2>1, <3>1, CalmStep DEF Inside
  <2>3. CASE Become(p, Idle)
    BY <2>1, <2>3, QuietJobs, CalmStep DEF Quiet, Inside
  <2> QED
    BY <1>13, <2>2, <2>3 DEF Start
<1>14. ASSUME NEW p \in Procs, Die(p) PROVE Excludes'
  <2>1. UNCHANGED <<lock, log, file, active>> /\ Become(p, Idle)
    BY <1>14 DEF Die, files
  <2>2. job'[p] = Idle /\ (\A q \in Procs : q # p => job'[q] = job[q])
    BY <2>1 DEF Become, Inv
  <2>3. Idle.at = "idle"
    BY DEF Idle
  <2>4. \A q \in Procs : Alone(q) => Alone(q)'
    BY <2>2, <2>3 DEF Alone, Inside
  <2>5. \A q \in Procs : job'[q] = job[q] \/ job'[q].at = "idle"
    BY <2>2, <2>3
  <2> QED
    BY <2>1, <2>4, <2>5 DEF Excludes, Inside
<1>15. ASSUME NEW p \in Procs,
              \/ Begin(p) \/ Answer(p) \/ Dispatch(p) \/ Pend(p) \/ Review(p) \/ Continue(p)
              \/ Teach(p) \/ Feedback(p) \/ Revise(p) \/ Complete(p) \/ Report(p)
       PROVE  Excludes'
  <2>1. UNCHANGED <<lock, log, file, active>>
    BY <1>15, CommandJob DEF files
  <2>2. PICK j : Become(p, j) /\ Calm(j)
    BY <1>15, CommandJob
  <2>3. job[p].at \in {"idle", "decide"}
    BY <1>15 DEF Begin, Answer, Dispatch, Pend, Review, Continue, Teach, Feedback, Revise, Complete,
                 Report, Decides, At
  <2> QED
    BY <2>1, <2>2, <2>3, CalmStep DEF Calm, Inside
<1>16. CASE ChangeEvidence
  BY <1>16 DEF ChangeEvidence, files, Excludes, Alone
<1>17. CASE UNCHANGED vars
  BY <1>17 DEF vars, files, Excludes, Alone
<1> QED
  BY <1>2, <1>3, <1>4, <1>5, <1>6, <1>7, <1>8, <1>9, <1>10, <1>11, <1>12, <1>13, <1>14, <1>15, <1>16, <1>17 DEF Next

\* A robbery is not forgotten.
LEMMA RobbedStays ==
    ASSUME [Next]_vars, robbed
    PROVE  robbed'
<1>1. ASSUME NEW p \in Procs,
             \/ Begin(p) \/ Answer(p) \/ Dispatch(p) \/ Pend(p) \/ Review(p) \/ Continue(p)
             \/ Teach(p) \/ Feedback(p) \/ Revise(p) \/ Complete(p) \/ Report(p)
      PROVE  robbed'
  BY <1>1, CommandJob DEF faults
<1>2. ASSUME NEW p \in Procs,
             \/ Stall(p) \/ LookAtLock(p) \/ Steal(p) \/ GiveUp(p) \/ Read(p) \/ Mutate(p) \/ MakeSession(p)
             \/ WriteEvent(p) \/ WriteState(p) \/ WriteActive(p) \/ Rebuild(p) \/ Start(p) \/ Die(p)
      PROVE  robbed'
  BY <1>2 DEF Stall, LookAtLock, Steal, GiveUp, Read, Mutate, MakeSession, WriteEvent, WriteState,
              WriteActive, Rebuild, Start, Die, faults
<1>3. ASSUME ChangeEvidence \/ UNCHANGED vars PROVE robbed'
  BY <1>3 DEF ChangeEvidence, vars, faults
<1> QED
  BY <1>1, <1>2, <1>3 DEF Next

LEMMA LockInvStep ==
    ASSUME Inv, LockInv, [Next]_vars
    PROVE  LockInv'
  BY LockTypedStep, ExcludesStep, RobbedStays DEF LockInv

-----------------------------------------------------------------------------
(* The mastery record *)

Results == {"stale", "disputed", "unaided_correct", "aided_correct", "incorrect"}

LEMMA ResultIs ==
    ASSUME NEW a, NEW style
    PROVE  /\ Result(a, style) \in Results \cup {"none"}
           /\ a.review.status = "stale" => Result(a, style) = "stale"
           /\ a.review.status = "graded" /\ a.review.score \in {"high", "low"} => Result(a, style) # "none"
           /\ a.review.status = "none" => (Result(a, style) # "none" <=> a.auto \in {"right", "wrong"})
  BY DEF Result, Results

LEMMA SameReviewSameResult ==
    ASSUME NEW a, NEW b, NEW style, a.review = b.review, a.review.status # "none"
    PROVE  Result(a, style) = Result(b, style)
  BY DEF Result

\* A result is never taken back: an automatic one becomes a grade, or the answer is found stale.
LEMMA ResultsStay ==
    ASSUME NEW ses, NEW s, NEW t, Good(s, ses), Good(t, ses), Extends(s, t), NEW i \in DOMAIN s.attempts,
           Result(s.attempts[i], ses.style) # "none"
    PROVE  i \in DOMAIN t.attempts /\ Result(t.attempts[i], ses.style) # "none"
<1> DEFINE a == s.attempts[i]
           b == t.attempts[i]
<1>1. i \in DOMAIN t.attempts
  BY ListFacts DEF Good, Shaped, Extends
<1>2. AttemptFits(a, ses) /\ AttemptFits(b, ses)
  BY <1>1 DEF Good
<1>3. CASE ~ Unreviewed(a)
  <2>1. b.review = a.review /\ a.review.status # "none"
    BY <1>2, <1>3 DEF Extends, AttemptFits
  <2> QED
    BY <1>1, <2>1, SameReviewSameResult
<1>4. CASE Unreviewed(a)
  <2>1. a.auto \in {"right", "wrong"}
    BY <1>4, ResultIs DEF Unreviewed, NoReview
  <2>2. b.auto = a.auto \/ b.review.status = "stale"
    BY <2>1 DEF Extends
  <2>3. CASE b.review.status = "stale"
    BY <1>1, <2>3, ResultIs
  <2>4. CASE b.auto = a.auto /\ ~ Unreviewed(b)
    <3>1. b.review.status = "graded" /\ b.review.score \in {"high", "low"}
      BY <1>2, <2>1, <2>4 DEF AttemptFits, Marks
    <3> QED
      BY <1>1, <3>1, ResultIs
  <2>5. CASE b.auto = a.auto /\ Unreviewed(b)
    BY <1>1, <2>1, <2>5, ResultIs DEF Unreviewed, NoReview
  <2> QED
    BY <2>2, <2>3, <2>4, <2>5
<1> QED
  BY <1>3, <1>4

\* Whatever the record holds has a result in the session.
MasteryInv ==
    /\ log.state.version = 0 => mastery = {}
    /\ \A o \in mastery : \E i \in DOMAIN log.state.attempts :
          log.state.attempts[i].id = o.attempt /\ Result(log.state.attempts[i], session.style) # "none"

\* What a step may do to the events and to the record.
LEMMA RecordSteps ==
    ASSUME Inv, Excludes, [Next]_vars
    PROVE  \/ UNCHANGED <<log, session, mastery>>
           \/ UNCHANGED <<log, session>> /\ log.state.version = 0 /\ mastery' = {}
           \/ UNCHANGED <<log, mastery>> /\ log.state.version = 0
           \/ UNCHANGED <<log, session>> /\ log.state.version > 0 /\ mastery' = Observed(log.state, session.style)
           \/ /\ UNCHANGED <<session, mastery>> /\ log'.state.version > 0
              /\ log.state.version > 0 =>
                    Good(log.state, session) /\ Good(log'.state, session) /\ Extends(log.state, log'.state)
<1> DEFINE Same == UNCHANGED <<log, session, mastery>>
<1>1. ASSUME NEW p \in Procs, Rebuild(p)
      PROVE  /\ UNCHANGED <<log, session>>
             /\ \/ log.state.version = 0 /\ mastery' = {}
                \/ log.state.version > 0 /\ mastery' = Observed(log.state, session.style)
  <2>1. log.state.version > 0 => Readable
    BY DEF Excludes, Readable
  <2> QED
    BY <1>1, <2>1 DEF Rebuild, Rebuilt, Readable, Inv
<1>2. ASSUME NEW p \in Procs, MakeSession(p)
      PROVE  UNCHANGED <<log, mastery>> /\ log.state.version = 0
  <2>1. job[p].section = "start" /\ job[p].at \in {"lock", "stalled"}
    BY <1>2 DEF MakeSession, Waits, At
  <2> QED
    BY <1>2, <2>1 DEF MakeSession, Inv, JobFits
<1>3. ASSUME NEW p \in Procs, WriteEvent(p)
      PROVE  /\ UNCHANGED <<session, mastery>> /\ log'.state.version > 0
             /\ log.state.version > 0 =>
                   Good(log.state, session) /\ Good(log'.state, session) /\ Extends(log.state, log'.state)
  <2> DEFINE n == job[p].next
  <2>1. /\ UNCHANGED <<session, mastery>> /\ job[p].at = "event"
        /\ log' = IF n.version = log.state.version + 1
                  THEN [log EXCEPT !.state = n] ELSE [log EXCEPT !.broken = TRUE]
    BY <1>3 DEF WriteEvent, At
  <2>2. n.version = log.state.version + 1 /\ log.state.version \in Nat
    BY <2>1 DEF Excludes, Inv
  <2>3. log'.state = n
    BY <2>1, <2>2 DEF Inv
  <2>4. JobFits(job[p], log.state, session)
    BY DEF Inv
  <2>5. ASSUME log.state.version > 0
        PROVE  Good(log.state, session) /\ Good(n, session) /\ Extends(log.state, n)
    BY <2>1, <2>2, <2>4, <2>5 DEF JobFits, Goes, Inv
  <2> QED
    BY <2>1, <2>2, <2>3, <2>5
<1>4. ASSUME NEW p \in Procs,
             \/ Begin(p) \/ Answer(p) \/ Dispatch(p) \/ Pend(p) \/ Review(p) \/ Continue(p)
             \/ Teach(p) \/ Feedback(p) \/ Revise(p) \/ Complete(p) \/ Report(p)
      PROVE  Same
  BY <1>4, CommandJob DEF files
<1>5. ASSUME NEW p \in Procs,
             \/ Stall(p) \/ LookAtLock(p) \/ Steal(p) \/ GiveUp(p) \/ Read(p) \/ Mutate(p) \/ WriteState(p)
             \/ WriteActive(p) \/ Start(p) \/ Die(p)
      PROVE  Same
  BY <1>5 DEF Stall, LookAtLock, Steal, GiveUp, Read, Mutate, WriteState, WriteActive, Start, Die, files
<1>6. ASSUME ChangeEvidence \/ UNCHANGED vars PROVE Same
  BY <1>6 DEF ChangeEvidence, vars, files
<1> HIDE DEF Same
<1>7. Same \/ \E p \in Procs : Rebuild(p) \/ MakeSession(p) \/ WriteEvent(p)
  BY <1>4, <1>5, <1>6 DEF Next, Same
<1> QED
  BY <1>1, <1>2, <1>3, <1>7 DEF Same

LEMMA MasteryStep ==
    ASSUME Inv, Excludes, MasteryInv, [Next]_vars
    PROVE  MasteryInv' /\ {o.attempt : o \in mastery} \subseteq {o.attempt : o \in mastery'}
<1> DEFINE s == log.state
           Kept == {o.attempt : o \in mastery} \subseteq {o.attempt : o \in mastery'}
<1>1. CASE UNCHANGED <<log, session, mastery>>
  BY <1>1 DEF MasteryInv
<1>2. CASE s.version = 0 /\ log' = log /\ (mastery' = mastery \/ mastery' = {})
  BY <1>2 DEF MasteryInv
<1>3. CASE UNCHANGED <<log, session>> /\ s.version > 0 /\ mastery' = Observed(s, session.style)
  <2>1. \A o \in mastery' : \E i \in DOMAIN s.attempts :
           s.attempts[i].id = o.attempt /\ Result(s.attempts[i], session.style) # "none"
    BY <1>3 DEF Observed, ToSet
  <2>2. ASSUME NEW o \in mastery PROVE \E u \in mastery' : u.attempt = o.attempt
    <3>1. PICK i \in DOMAIN s.attempts :
             s.attempts[i].id = o.attempt /\ Result(s.attempts[i], session.style) # "none"
      BY DEF MasteryInv
    <3> DEFINE a == s.attempts[i]
               u == [attempt |-> a.id, question |-> a.question, result |-> Result(a, session.style)]
    <3>2. u \in mastery'
      BY <1>3, <3>1 DEF Observed, ToSet
    <3>3. u.attempt = o.attempt
      BY <3>1
    <3> QED
      BY <3>2, <3>3
  <2> QED
    BY <1>3, <2>1, <2>2 DEF MasteryInv
<1>4. CASE /\ UNCHANGED <<session, mastery>> /\ log'.state.version > 0
           /\ s.version > 0 => Good(s, session) /\ Good(log'.state, session) /\ Extends(s, log'.state)
  <2>1. CASE s.version = 0
    BY <1>4, <2>1 DEF MasteryInv
  <2>2. CASE s.version > 0
    <3>1. ASSUME NEW o \in mastery
          PROVE  \E i \in DOMAIN log'.state.attempts :
                    /\ log'.state.attempts[i].id = o.attempt
                    /\ Result(log'.state.attempts[i], session.style) # "none"
      <4>1. PICK i \in DOMAIN s.attempts :
               s.attempts[i].id = o.attempt /\ Result(s.attempts[i], session.style) # "none"
        BY DEF MasteryInv
      <4>2. i \in DOMAIN log'.state.attempts /\ Result(log'.state.attempts[i], session.style) # "none"
        BY <1>4, <2>2, <4>1, ResultsStay
      <4>3. log'.state.attempts[i].id = s.attempts[i].id
        BY <1>4, <2>2 DEF Extends
      <4> QED
        BY <4>1, <4>2, <4>3
    <3> QED
      BY <1>4, <3>1 DEF MasteryInv
  <2> QED
    BY <2>1, <2>2 DEF Inv
<1> QED
  BY <1>1, <1>2, <1>3, <1>4, RecordSteps

LEMMA LockInvInit == Init => LockInv /\ MasteryInv
<1> SUFFICES ASSUME Init PROVE LockInv /\ MasteryInv
  OBVIOUS
<1>1. \A p \in Procs : job[p].at = "idle" /\ job[p].section = "none"
  BY DEF Init, Idle
<1>2. log.state.version = 0 /\ log.broken = FALSE
  BY DEF Init, NoState
<1>3. lock = Nobody /\ dead = {} /\ robbed = FALSE /\ file = 0 /\ active = FALSE /\ mastery = {} /\ changes = 0
  BY DEF Init
<1>4. 0 \in 0 .. MaxChanges
  BY BoundAssumption
<1>5. LockInv
  <2>1. active \in BOOLEAN /\ (active => log.state.version > 0)
    BY <1>3
  <2>2. file \in Nat /\ file <= log.state.version /\ changes \in 0 .. MaxChanges
    BY <1>2, <1>3, <1>4
  <2>3. \A p \in Procs : job[p].at \in Places /\ job[p].section \in Sections
    BY <1>1 DEF Places, Sections
  <2> QED
    BY <1>1, <1>2, <1>3, <2>1, <2>2, <2>3 DEF LockInv, LockTyped, Excludes, Inside
<1> QED
  BY <1>2, <1>3, <1>5 DEF MasteryInv

\* A rebuild that runs late, beside another command's or after a death, takes no attempt out of the
\* record until the lock of a live process is moved away (rebuild_mastery, Store.lock): results are
\* never taken back, and until then the session is never unreadable.
THEOREM RecordNeverShrinks == Spec => MasteryOnlyGrows
<1> DEFINE RecordInv == ~ robbed => MasteryInv
           Grows == {o.attempt : o \in mastery} \subseteq {o.attempt : o \in mastery'}
<1>1. Init => RecordInv
  BY LockInvInit
<1>2. Inv /\ LockInv /\ [Next]_vars => LockInv'
  BY LockInvStep
<1>3. Inv /\ LockInv /\ RecordInv /\ [Next]_vars => RecordInv' /\ [~ robbed' => Grows]_vars
  BY MasteryStep, RobbedStays DEF LockInv
<1> QED
  BY <1>1, <1>2, <1>3, LockInvInit, AnyNumberOfProcesses, PTL DEF Spec, MasteryOnlyGrows

-----------------------------------------------------------------------------
(* The session *)

Recorded == mastery \subseteq [attempt : AttemptIds, question : Questions, result : Results]

LEMMA GoodFits ==
    ASSUME NEW ses, NEW s, Good(s, ses), PaperOk(ses)
    PROVE  Fits(s, ses.paper, ses.style)
<1>1. s.current = IF s.index <= Len(ses.paper) THEN ses.paper[s.index] ELSE 0
  BY DEF Good, Passed
<1>2. ASSUME NEW a \in ToSet(s.attempts)
      PROVE  /\ a.question \in ToSet(ses.paper)
             /\ a.auto # "none" => /\ Bank[a.question].kind = "choice" /\ ses.style = "regular"
                                  /\ a.auto = a.answer
             /\ ~ Unreviewed(a) =>
                   /\ a.review.hint >= a.hint /\ (a.hint > 0 => ~ a.review.unaided)
                   /\ a.auto # "none" => /\ a.review.status = "graded"
                                        /\ a.review.outcome = IF a.auto = "right" THEN "mastered" ELSE "exhausted"
  <2>1. a.question \in ToSet(ses.paper) /\ AttemptFits(a, ses)
    BY DEF Good, Passed, ToSet
  <2> QED
    BY <2>1 DEF AttemptFits, Marks
<1>3. \A l \in ToSet(s.lessons) : l.question \in ToSet(ses.paper)
  BY DEF Good, LessonsFit, ToSet
<1> QED
  BY <1>1, <1>2, <1>3 DEF Fits

\* The record changes in a rebuild, to what a readable session shows or to nothing.
LEMMA RecordChanges ==
    ASSUME [Next]_vars
    PROVE  \/ mastery' = mastery \/ mastery' = {}
           \/ log.state.version > 0 /\ mastery' = Observed(log.state, session.style)
<1>1. ASSUME NEW p \in Procs,
             \/ Begin(p) \/ Answer(p) \/ Dispatch(p) \/ Pend(p) \/ Review(p) \/ Continue(p)
             \/ Teach(p) \/ Feedback(p) \/ Revise(p) \/ Complete(p) \/ Report(p)
      PROVE  mastery' = mastery
  BY <1>1, CommandJob DEF files
<1>2. ASSUME NEW p \in Procs,
             \/ Stall(p) \/ LookAtLock(p) \/ Steal(p) \/ GiveUp(p) \/ Read(p) \/ Mutate(p) \/ MakeSession(p)
             \/ WriteEvent(p) \/ WriteState(p) \/ WriteActive(p) \/ Start(p) \/ Die(p)
      PROVE  mastery' = mastery
  BY <1>2 DEF Stall, LookAtLock, Steal, GiveUp, Read, Mutate, MakeSession, WriteEvent, WriteState,
              WriteActive, Start, Die, files
<1>3. ASSUME ChangeEvidence \/ UNCHANGED vars PROVE mastery' = mastery
  BY <1>3 DEF ChangeEvidence, vars, files
<1>4. ASSUME NEW p \in Procs, Rebuild(p)
      PROVE  mastery' = {} \/ (log.state.version > 0 /\ mastery' = Observed(log.state, session.style))
  BY <1>4 DEF Rebuild, Rebuilt, Readable
<1> QED
  BY <1>1, <1>2, <1>3, <1>4 DEF Next

\* Whatever dies and whoever takes the lock next, until the lock of a live process is moved away a
\* session with a first event stays readable: state.json is never ahead of the events, the chain
\* never breaks, the state fits its bank, and active.json names no other session (mutate,
\* recover_state, validate_state_against_bank).  The variables keep their types even then.
THEOREM OnlyRobberyBreaksSessions ==
    ASSUME PapersAreSound
    PROVE  Spec => []ReadableUntilRobbed
<1>1. Inv /\ LockInv /\ [Next]_vars => LockInv'
  BY LockInvStep
<1>2. Init => Recorded
  BY DEF Init, Recorded
<1>3. Inv /\ PaperInv /\ Recorded /\ [Next]_vars => Recorded'
  <2> SUFFICES ASSUME Inv, PaperInv, Recorded, [Next]_vars PROVE Recorded'
    OBVIOUS
  <2>1. CASE mastery' = mastery \/ mastery' = {}
    BY <2>1 DEF Recorded
  <2>2. CASE log.state.version > 0 /\ mastery' = Observed(log.state, session.style)
    <3>1. Good(log.state, session) /\ PaperOk(session)
      BY <2>2 DEF Inv, PaperInv
    <3>2. ASSUME NEW a \in ToSet(log.state.attempts)
          PROVE  a.id \in AttemptIds /\ a.question \in Questions
      BY <3>1 DEF Good, AttemptFits, Passed, ToSet, PaperInv
    <3> QED
      BY <2>2, <3>2, ResultIs DEF Recorded, Observed
  <2> QED
    BY <2>1, <2>2, RecordChanges
<1>4. Inv /\ LockInv /\ PaperInv /\ Recorded => ReadableUntilRobbed
  <2> SUFFICES ASSUME Inv, LockInv, PaperInv, Recorded PROVE ReadableUntilRobbed
    OBVIOUS
  <2>1. TypeOK
    BY DEF TypeOK, LockInv, LockTyped, PaperInv, Inv, Recorded, Results, Sections
  <2>2. ASSUME ~ robbed, log.state.version > 0
        PROVE  Readable /\ Fits(log.state, session.paper, session.style)
    BY <2>2, GoodFits DEF Readable, LockInv, Excludes, Inv, PaperInv
  <2>3. (~ robbed /\ active) => log.state.version > 0
    BY DEF LockInv, Excludes
  <2> QED
    BY <2>1, <2>2, <2>3 DEF ReadableUntilRobbed, SessionStaysReadable
<1> QED
  BY <1>1, <1>2, <1>3, <1>4, LockInvInit, PaperInvAlways, PapersAreSound, AnyNumberOfProcesses,
     PTL DEF Spec

-----------------------------------------------------------------------------
(* What the guards let through is legal.  Beside Inv: the state is one that validate_event *)
(* accepts, lessons and feedback stay where they are, and a plan says what its type needs.  *)

IsFeedback(f) == f \in [id : {f.id}, base : {f.base}, applied : {f.applied}]

LessonTyped(l) ==
    /\ l.open \in BOOLEAN /\ l.revisions \in Nat /\ l.revisions > 0
    /\ IsList(l.feedback)
    /\ \A i \in DOMAIN l.feedback : IsFeedback(l.feedback[i])

\* An automatic result waits for its review as it was given: the review will not change it.
AutoStands(a, ses) ==
    Unreviewed(a) /\ a.fresh /\ Bank[a.question].kind = "choice" /\ ses.style = "regular" =>
        a.auto = a.answer

Sound(s, ses) ==
    /\ SoundState(s, Len(ses.paper))
    /\ \A k \in DOMAIN s.lessons : LessonTyped(s.lessons[k])
    /\ \A i \in DOMAIN s.attempts : AutoStands(s.attempts[i], ses)

\* Lessons keep their place, and their feedback.
Keeps(s, t) ==
    /\ Len(s.lessons) <= Len(t.lessons)
    /\ \A k \in DOMAIN s.lessons : \A id :
          Holds(s.lessons[k].feedback, id) => Holds(t.lessons[k].feedback, id)

\* What is prepared, beside PlanFits: true of every state that keeps what s has.
PlanHolds(w, s, ses) ==
    /\ w.type = "answer_submitted" =>
          w.body.id = w.id /\ w.body.question = w.question /\ AutoStands(w.body, ses)
    /\ w.type = "answer_reviewed" =>
          SoundReview(w.body) /\ (w.item = "agent" => w.body.status # "stale")
    /\ w.type = "session_ended" =>
          w.body = 0 /\ (PaperOk(ses) => w.question = ses.paper[Len(ses.paper)])
    /\ w.type \in LessonTypes \ {"teaching_started"} => w.id \in DOMAIN s.lessons
    /\ w.type = "teaching_revised" => Holds(s.lessons[w.id].feedback, w.item)

JobHolds(j, s, ses) ==
    /\ j.at = "decide" => Sound(j.view, ses) /\ Keeps(j.view, s)
    /\ j.at \in {"lock", "stalled", "steal"} /\ j.section = "write" => PlanHolds(j.plan, s, ses)
    /\ j.at = "event" /\ j.section # "start" /\ j.next.version = s.version + 1 =>
          Sound(j.next, ses) /\ Keeps(s, j.next)

SoundInv ==
    /\ log.state.version > 0 => Sound(log.state, session)
    /\ \A p \in Procs : JobHolds(job[p], log.state, session)

LEMMA AtMostOne ==
    ASSUME NEW S, IsFiniteSet(S), Cardinality(S) <= 1, NEW a \in S, NEW b \in S
    PROVE  a = b
<1> SUFFICES ASSUME a # b PROVE FALSE
  OBVIOUS
<1>1. IsFiniteSet({a}) /\ Cardinality({a}) = 1
  BY FS_Singleton
<1>2. Cardinality({a} \cup {b}) = 2
  <2>1. b \notin {a}
    OBVIOUS
  <2>2. Cardinality({a} \cup {b}) = Cardinality({a}) + 1
    BY SMTT(30), <1>1, <2>1, FS_AddElement
  <2> QED
    BY <1>1, <2>2
<1>3. Cardinality({a} \cup {b}) <= Cardinality(S)
  <2>1. {a} \cup {b} \in SUBSET S
    OBVIOUS
  <2> QED
    BY <2>1, FS_Subset
<1>4. Cardinality(S) \in Nat
  BY FS_CardinalityType
<1> QED
  BY <1>2, <1>3, <1>4

LEMMA OneOrNone ==
    ASSUME NEW S, NEW a, S \subseteq {a}
    PROVE  IsFiniteSet(S) /\ Cardinality(S) <= 1
<1>1. CASE S = {}
  BY <1>1, FS_EmptySet
<1>2. CASE S = {a}
  <2>1. IsFiniteSet({a}) /\ Cardinality({a}) = 1
    BY FS_Singleton
  <2> QED
    BY <1>2, <2>1
<1> QED
  BY <1>1, <1>2

\* One lesson is open, and of its feedback one waits to be applied.
LEMMA OneLessonOpen ==
    ASSUME NEW s, NEW total, SoundState(s, total), IsList(s.lessons),
           NEW k \in DOMAIN s.lessons, NEW j \in DOMAIN s.lessons, s.lessons[k].open, s.lessons[j].open
    PROVE  k = j
<1> DEFINE S == {i \in DOMAIN s.lessons : s.lessons[i].open}
<1>1. k \in S /\ j \in S
  BY Zenon
<1>3. Cardinality(S) <= 1
  BY DEF SoundState
<1>2. IsFiniteSet(S)
  <2>1. Len(s.lessons) \in Nat /\ S \subseteq 1 .. Len(s.lessons)
    BY ListFacts
  <2>2. IsFiniteSet(1 .. Len(s.lessons))
    BY <2>1, FS_Interval
  <2> QED
    BY <2>1, <2>2, FS_Subset
<1> HIDE DEF S
<1> QED
  BY <1>1, <1>2, <1>3, AtMostOne

LEMMA OneFeedbackPending ==
    ASSUME NEW l, SoundLesson(l), IsList(l.feedback), NEW f \in Pending(l), NEW g \in Pending(l)
    PROVE  f = g
<1> DEFINE x == l.feedback
<1>1. IsFiniteSet(ToSet(x))
  <2>1. IsFiniteSet(1 .. Len(x)) /\ x \in Surjection(1 .. Len(x), ToSet(x))
    <3>1. /\ Len(x) \in Nat /\ DOMAIN x = 1 .. Len(x)
          /\ x \in [1 .. Len(x) -> ToSet(x)]
      BY ListFacts DEF IsList
    <3>2. IsFiniteSet(1 .. Len(x))
      BY <3>1, FS_Interval
    <3> QED
      BY <3>1, <3>2 DEF Surjection, ToSet
  <2> QED
    BY <2>1, FS_Surjection
<1>2. IsFiniteSet(Pending(l)) /\ Cardinality(Pending(l)) <= 1
  <2>1. Pending(l) \in SUBSET ToSet(x)
    BY DEF Pending
  <2> QED
    BY <1>1, <2>1, FS_Subset DEF SoundLesson
<1> QED
  BY <1>2, AtMostOne

LEMMA ActiveLessonIs ==
    ASSUME NEW s, NEW total, SoundState(s, total), IsList(s.lessons), NEW q
    PROVE  LET k == ActiveLesson(s, q) IN
           /\ k # 0 => k \in DOMAIN s.lessons /\ s.lessons[k].question = q /\ s.lessons[k].open
           /\ (\E j \in DOMAIN s.lessons : s.lessons[j].question = q /\ s.lessons[j].open) => k # 0
<1> DEFINE S == {k \in LessonsOf(s, q) : s.lessons[k].open}
<1>1. ASSUME NEW k \in S PROVE ActiveLesson(s, q) = k /\ k # 0
  <2>1. S \in SUBSET Int /\ \A j \in S : j = k
    BY ListFacts, OneLessonOpen DEF LessonsOf
  <2>2. Max(S) = k /\ k # 0
    <3>1. k # 0
      BY ListFacts DEF LessonsOf
    <3>2. \A j \in S : j <= k
      BY <2>1
    <3> HIDE DEF S
    <3> QED
      BY <2>1, <3>1, <3>2, MaxIs
  <2> QED
    BY <2>2 DEF ActiveLesson
<1>2. S = {} => ActiveLesson(s, q) = 0
  BY DEF ActiveLesson
<1> QED
  BY <1>1, <1>2 DEF LessonsOf

\* While it is taught, the open lesson is the current question's.
LEMMA Teaching ==
    ASSUME NEW s, NEW total, SoundState(s, total), IsList(s.lessons),
           s.status \in {"teaching_open", "teaching_feedback_saved"}
    PROVE  \E k \in DOMAIN s.lessons :
              /\ s.lessons[k].open /\ s.lessons[k].question = s.current
              /\ Pending(s.lessons[k]) = {} <=> s.status = "teaching_open"
  BY DEF SoundState, ToSet

LEMMA PutFacts ==
    ASSUME NEW x, IsList(x), NEW k \in DOMAIN x, NEW e
    PROVE  LET y == [x EXCEPT ![k] = e] IN
           /\ IsList(y) /\ Len(y) = Len(x) /\ DOMAIN y = DOMAIN x
           /\ y[k] = e /\ \A i \in DOMAIN x : i # k => y[i] = x[i]
<1> DEFINE y == [x EXCEPT ![k] = e]
<1>1. x \in Seq(ToSet(x) \cup {e})
  BY DEF IsList
<1>2. y \in Seq(ToSet(x) \cup {e}) /\ Len(y) = Len(x)
  BY <1>1
<1>3. DOMAIN y = DOMAIN x /\ y[k] = e /\ \A i \in DOMAIN x : i # k => y[i] = x[i]
  BY <1>1
<1> QED
  BY <1>2, <1>3, SequenceIsList

\* What a step of mutate starts from, and what is to be shown of it.
Ready(w, s, ses) ==
    Good(s, ses) /\ Sound(s, ses) /\ PaperOk(ses) /\ PlanFits(w, s, ses) /\ PlanHolds(w, s, ses)
Passes(w, s, t, ses) == Legal(w, s, t, Len(ses.paper)) /\ Sound(t, ses) /\ Keeps(s, t)

LEMMA StateFields ==
    ASSUME NEW s, IsState(s)
    PROVE  DOMAIN s = {"version", "status", "index", "current", "attempts", "lessons", "keys"}
  BY DEF IsState

LEMMA SameLessonsKept ==
    ASSUME NEW ses, NEW s, Good(s, ses), NEW t, t.lessons = s.lessons
    PROVE  Keeps(s, t)
  BY ListFacts DEF Keeps, Good, LessonsFit

\* The lessons of a session that is not teaching stay sound.
LEMMA StaysSound ==
    ASSUME NEW s, NEW t, NEW total, SoundState(s, total), t.lessons = s.lessons,
           s.status \notin {"teaching_open", "teaching_feedback_saved"},
           t.status \notin {"teaching_open", "teaching_feedback_saved"},
           IF t.status = "completed" THEN t.current = 0 /\ t.index = total + 1
                                     ELSE t.current # 0 /\ t.index <= total,
           Distinct(t.attempts),
           \A a \in ToSet(t.attempts) : Unreviewed(a) \/ SoundReview(a.review)
    PROVE  SoundState(t, total)
  BY DEF SoundState

LEMMA PassesAnswer ==
    ASSUME NEW ses, NEW s, NEW w, Ready(w, s, ses), w.type = "answer_submitted",
           NEW t \in Into(w, s), t # s
    PROVE  Passes(w, s, t, ses)
<1> DEFINE m == Len(s.attempts)
           total == Len(ses.paper)
           b == w.body
<1>1. /\ ~ Holds(s.attempts, w.id) /\ s.status = "question_open" /\ w.question = s.current
      /\ t = [s EXCEPT !.attempts = Append(@, b), !.status = "answer_saved"]
  <2>1. t \in IntoAnswer(w, s)
    BY DEF Into
  <2> QED
    BY <2>1 DEF IntoAnswer, Here
<1>2. Good(s, ses) /\ Shaped(s) /\ IsState(s) /\ IsList(s.attempts) /\ Sound(s, ses) /\ SoundState(s, total)
  BY DEF Ready, Good, Shaped, Sound
<1>3. /\ IsState(t) /\ t.attempts = Append(s.attempts, b) /\ t.status = "answer_saved"
      /\ t.index = s.index /\ t.current = s.current /\ t.lessons = s.lessons /\ t.keys = s.keys
  BY <1>1, <1>2 DEF IsState
<1>4. /\ IsList(t.attempts) /\ Len(t.attempts) = m + 1 /\ m \in Nat
      /\ \A i \in DOMAIN s.attempts : t.attempts[i] = s.attempts[i]
      /\ t.attempts[m + 1] = b /\ DOMAIN s.attempts = 1 .. m /\ DOMAIN t.attempts = 1 .. m + 1
  BY <1>2, <1>3, AppendFacts, ListFacts
<1>5. Unreviewed(b) /\ b.id = w.id /\ b.question = s.current /\ AutoStands(b, ses)
  BY <1>1 DEF Ready, PlanFits, PlanHolds
<1>6. SoundState(t, total)
  <2>1. Distinct(t.attempts)
    <3>1. \A i \in DOMAIN s.attempts : s.attempts[i].id # b.id
      BY <1>1, <1>5 DEF Holds
    <3>2. ASSUME NEW i \in 1 .. m + 1, NEW j \in 1 .. m + 1, t.attempts[i].id = t.attempts[j].id
          PROVE  i = j
      <4>1. i \in 1 .. m /\ j \in 1 .. m => i = j
        BY <1>2, <1>4, <3>2 DEF Shaped, Distinct
      <4>2. i \in 1 .. m /\ j = m + 1 => FALSE
        BY <1>4, <3>1, <3>2
      <4>3. i = m + 1 /\ j \in 1 .. m => FALSE
        BY <1>4, <3>1, <3>2
      <4> QED
        BY <1>4, <4>1, <4>2, <4>3
    <3> QED
      BY <1>4, <3>2 DEF Distinct
  <2>2. \A a \in ToSet(t.attempts) : Unreviewed(a) \/ SoundReview(a.review)
    <3>1. \A i \in DOMAIN s.attempts : Unreviewed(s.attempts[i]) \/ SoundReview(s.attempts[i].review)
      BY <1>2 DEF SoundState, ToSet
    <3> QED
      BY <1>4, <1>5, <3>1 DEF ToSet
  <2>3. s.current # 0 /\ s.index <= total
    BY <1>1, <1>2 DEF SoundState
  <2> QED
    BY <1>1, <1>2, <1>3, <2>1, <2>2, <2>3, StaysSound
<1>7. Legal(w, s, t, total)
  <2>1. \A f \in DOMAIN s \ (MayChange(w.type) \cup {"version"}) : t[f] = s[f]
    BY <1>2, <1>3, StateFields DEF MayChange
  <2>2. s.status \in ComesFrom[w.type] /\ t.status = LeadsTo[w.type]
    BY <1>1, <1>3 DEF ComesFrom, LeadsTo
  <2>3. AddsAttempt(w, s, t)
    <3>1. Front(t.attempts) = s.attempts
      <4>1. Append(s.attempts, b) \in Seq(ToSet(s.attempts) \cup {b}) /\ s.attempts \in Seq(ToSet(s.attempts) \cup {b})
        BY <1>2 DEF IsList
      <4> QED
        BY <4>1, <1>3, <1>4 DEF Front
    <3>2. Last(t.attempts) = b
      BY <1>4 DEF Last
    <3> QED
      BY <3>1, <3>2, <1>4, <1>5 DEF AddsAttempt
  <2> QED
    BY <1>6, <2>1, <2>2, <2>3 DEF Legal, Moves
<1>8. Sound(t, ses)
  BY <1>2, <1>3, <1>4, <1>5, <1>6 DEF Sound
<1> QED
  BY <1>2, <1>3, <1>7, <1>8, SameLessonsKept DEF Passes

\* A review under which the attempt keeps its result, or a stale one, which takes it back.
LEMMA PassesReviewed ==
    ASSUME NEW ses, NEW s, NEW w, Ready(w, s, ses), w.type = "answer_reviewed",
           NEW i \in DOMAIN s.attempts, s.attempts[i].id = w.id, Unreviewed(s.attempts[i]),
           w.body # NoReview, NEW auto,
           w.body.status # "stale" => auto = s.attempts[i].auto,
           w.body.status = "stale" => auto = "none",
           NEW t, t = With(s, w, w.body, auto, "reviewed")
    PROVE  Passes(w, s, t, ses)
<1> DEFINE total == Len(ses.paper)
           x == s.attempts
           y == t.attempts
<1>1. Good(s, ses) /\ Shaped(s) /\ IsState(s) /\ IsList(x) /\ Sound(s, ses) /\ SoundState(s, total)
      /\ \A j \in DOMAIN x : IsAttempt(x[j])
  BY DEF Ready, Good, Shaped, Sound
<1>2. Place(x, w.id) = i
  BY <1>1, PlaceIs
<1>3. /\ IsState(t) /\ t.status = "reviewed" /\ t.index = s.index /\ t.current = s.current
      /\ t.lessons = s.lessons /\ IsList(y) /\ Len(y) = Len(x)
      /\ \A j \in DOMAIN x : j # i => y[j] = x[j]
      /\ IsAttempt(y[i]) /\ y[i].id = x[i].id /\ y[i].question = x[i].question
      /\ y[i].fresh = x[i].fresh /\ y[i].answer = x[i].answer /\ y[i].hint = x[i].hint
      /\ y[i].review = w.body /\ y[i].auto = auto
  BY <1>1, <1>2, ReviewedFacts
<1>4. DOMAIN y = DOMAIN x
  BY <1>1, <1>3, ListFacts
<1>5. t.keys = s.keys
  BY <1>1 DEF With, IsState
<1>6. s.status \in {"answer_saved", "agent_review_pending"}
  BY <1>1 DEF Good, Awaited
<1>7. SoundState(t, total)
  <2>1. Distinct(y)
    BY <1>1, <1>3, <1>4 DEF Shaped, Distinct
  <2>2. \A a \in ToSet(y) : Unreviewed(a) \/ SoundReview(a.review)
    <3>1. \A j \in DOMAIN x : Unreviewed(x[j]) \/ SoundReview(x[j].review)
      BY <1>1 DEF SoundState, ToSet
    <3>2. SoundReview(w.body)
      BY DEF Ready, PlanHolds
    <3> QED
      BY <1>3, <1>4, <3>1, <3>2 DEF ToSet
  <2>3. s.current # 0 /\ s.index <= total
    BY <1>1, <1>6 DEF SoundState
  <2>4. /\ s.status \notin {"teaching_open", "teaching_feedback_saved"}
        /\ t.status \notin {"teaching_open", "teaching_feedback_saved"} /\ t.lessons = s.lessons
    BY <1>3, <1>6
  <2>5. IF t.status = "completed" THEN t.current = 0 /\ t.index = total + 1
                                  ELSE t.current # 0 /\ t.index <= total
    BY <1>3, <2>3
  <2> HIDE DEF total
  <2> QED
    BY <1>1, <2>1, <2>2, <2>4, <2>5, StaysSound
<1>8. AddsReview(w, s, t)
  <2>1. Holds(x, w.id)
    BY DEF Holds
  <2>2. \A j \in DOMAIN x : x[j].id # w.id => y[j] = x[j]
    BY <1>3
  <2>3. CASE w.body.status # "stale"
    <3>1. y[i] = [x[i] EXCEPT !.review = w.body]
      BY <1>1, <1>3, <2>3 DEF IsAttempt
    <3> QED
      BY <1>2, <1>4, <2>1, <2>2, <2>3, <3>1 DEF AddsReview
  <2>4. CASE w.body.status = "stale"
    <3> DEFINE old == [x[i] EXCEPT !.auto = "none"]
               new == [y[i] EXCEPT !.auto = "none"]
    <3>1. old.review = x[i].review
      BY <1>1 DEF IsAttempt
    <3>2. Unreviewed(old)
      BY <3>1 DEF Unreviewed
    <3>3. new = [old EXCEPT !.review = w.body]
      BY <1>1, <1>3 DEF IsAttempt
    <3> HIDE DEF old, new
    <3> QED
      BY <1>2, <1>4, <2>1, <2>2, <2>4, <3>2, <3>3 DEF AddsReview, old, new
  <2> QED
    BY <2>3, <2>4
<1>9. Legal(w, s, t, total)
  <2>1. \A f \in DOMAIN s \ (MayChange(w.type) \cup {"version"}) : t[f] = s[f]
    BY <1>1, <1>3, <1>5, StateFields DEF MayChange
  <2>2. s.status \in ComesFrom[w.type] /\ t.status = LeadsTo[w.type]
    BY <1>6, <1>3 DEF ComesFrom, LeadsTo
  <2> QED
    BY <1>7, <1>8, <2>1, <2>2 DEF Legal, Moves
<1>10. Sound(t, ses)
  <2>1. AutoStands(y[i], ses)
    BY <1>3 DEF AutoStands, Unreviewed
  <2> QED
    BY <1>1, <1>3, <1>4, <1>7, <2>1 DEF Sound
<1> QED
  BY <1>1, <1>3, <1>9, <1>10, SameLessonsKept DEF Passes

LEMMA PassesReview ==
    ASSUME NEW ses, NEW s, NEW w, Ready(w, s, ses), w.type = "answer_reviewed",
           NEW t \in Into(w, s), t # s
    PROVE  Passes(w, s, t, ses)
<1>1. PICK i \in DOMAIN s.attempts : s.attempts[i].id = w.id /\ ReviewFits(w, s, s.attempts[i], ses)
  BY DEF Ready, PlanFits
<1>2. Item(s.attempts, w.id) = s.attempts[i]
  BY <1>1, PlaceIs DEF Item, Ready, Good
<1>3. AutoStands(s.attempts[i], ses)
  BY DEF Ready, Sound
<1>4. CASE w.item = "stale"
  <2>1. t \in IntoStale(w, s)
    BY <1>4 DEF Into
  <2>2. t = With(s, w, w.body, "none", "reviewed") /\ Unreviewed(s.attempts[i])
    BY <2>1, <1>2 DEF IntoStale
  <2>3. w.body.status = "stale" /\ w.body # NoReview
    BY <1>1, <1>4 DEF ReviewFits, NoReview
  <2> QED
    BY <1>1, <2>2, <2>3, PassesReviewed
<1>5. CASE w.item = "auto"
  <2>1. t \in IntoAuto(w, s)
    BY <1>5 DEF Into
  <2>2. t = With(s, w, w.body, s.attempts[i].answer, "reviewed") /\ Unreviewed(s.attempts[i])
    BY <2>1, <1>2 DEF IntoAuto
  <2>3. w.body.status = "graded" /\ w.body # NoReview
    BY <1>1, <1>5 DEF ReviewFits, NoReview
  <2>4. s.attempts[i].auto = s.attempts[i].answer
    BY <1>1, <1>3, <1>5, <2>2 DEF ReviewFits, AutoStands
  <2> QED
    BY <1>1, <2>2, <2>3, <2>4, PassesReviewed
<1>6. CASE w.item = "agent"
  <2>1. t \in IntoReview(w, s)
    BY <1>6 DEF Into
  <2>2. t = With(s, w, w.body, s.attempts[i].auto, "reviewed") /\ Unreviewed(s.attempts[i])
    BY <2>1, <1>2 DEF IntoReview
  <2>3. w.body.status # "stale" /\ w.body # NoReview
    BY <1>1, <1>6 DEF ReviewFits, NoReview, Ready, PlanHolds
  <2> QED
    BY <1>1, <2>2, <2>3, PassesReviewed
<1> QED
  BY <1>1, <1>4, <1>5, <1>6 DEF ReviewFits

LEMMA PassesGrading ==
    ASSUME NEW ses, NEW s, NEW w, Ready(w, s, ses), w.type = "grading_started",
           NEW t \in Into(w, s), t # s, Legal(w, s, t, Len(ses.paper))
    PROVE  Passes(w, s, t, ses)
<1>1. t = [s EXCEPT !.status = "agent_review_pending"]
  BY DEF Into, IntoGrading
<1>2. Good(s, ses) /\ Sound(s, ses) /\ IsState(s)
  BY DEF Ready, Good, Shaped
<1>3. t.attempts = s.attempts /\ t.lessons = s.lessons
  BY <1>1, <1>2 DEF IsState
<1>4. Sound(t, ses)
  BY <1>2, <1>3 DEF Sound, Legal
<1> QED
  BY <1>2, <1>3, <1>4, SameLessonsKept DEF Passes

\* The question after the n-th is the one a command saw there: the index has not moved, since the
\* current question is still the n-th and a paper repeats none.
LEMMA PassesContinue ==
    ASSUME NEW ses, NEW s, NEW w, Ready(w, s, ses),
           w.type \in {"question_presented", "socratic_turn", "session_ended"},
           NEW t \in Into(w, s), t # s
    PROVE  Passes(w, s, t, ses)
<1> DEFINE total == Len(ses.paper)
<1>1. /\ s.status = "reviewed" /\ w.question = s.current /\ LastTry(s, s.current) = w.id
      /\ w.id \notin s.keys
      /\ t = IF w.type = "socratic_turn"
             THEN [s EXCEPT !.keys = @ \cup {w.id}, !.status = "question_open"]
             ELSE [[s EXCEPT !.keys = @ \cup {w.id}, !.status = "question_open"]
                      EXCEPT !.index = @ + 1, !.current = w.body,
                             !.status = IF w.body = 0 THEN "completed" ELSE "question_open"]
  <2>1. t \in IntoContinuation(w, s)
    BY DEF Into
  <2> QED
    BY <2>1 DEF IntoContinuation, Here
<1>2. Good(s, ses) /\ IsState(s) /\ Sound(s, ses) /\ SoundState(s, total) /\ s.index \in Nat
  BY DEF Ready, Good, Shaped, Sound
<1>3. /\ ses.paper \in Seq(Questions) /\ total \in Nat /\ total > 0 /\ 0 \notin Questions
      /\ s.current # 0 /\ s.index <= total /\ s.index > 0 /\ s.current = ses.paper[s.index]
  <2>1. Passed(s, ses) /\ PaperOk(ses)
    BY DEF Ready, Good
  <2> QED
    BY <1>1, <1>2, <2>1, BankAssumption DEF SoundState, Passed, PaperOk
<1>4. \A a \in ToSet(s.attempts) : Unreviewed(a) \/ SoundReview(a.review)
  BY <1>2 DEF SoundState
<1>5. Distinct(s.attempts)
  BY <1>2 DEF SoundState
<1>6. CASE w.type = "socratic_turn"
  <2>1. /\ t.attempts = s.attempts /\ t.current = s.current /\ t.index = s.index
        /\ t.status = "question_open" /\ t.lessons = s.lessons /\ t.keys = s.keys \cup {w.id}
    BY <1>1, <1>2, <1>6 DEF IsState
  <2>2. SoundState(t, total)
    <3>1. /\ s.status \notin {"teaching_open", "teaching_feedback_saved"}
          /\ t.status \notin {"teaching_open", "teaching_feedback_saved"} /\ t.lessons = s.lessons
      BY <1>1, <2>1
    <3>2. IF t.status = "completed" THEN t.current = 0 /\ t.index = total + 1
                                    ELSE t.current # 0 /\ t.index <= total
      BY <1>3, <2>1
    <3>3. Distinct(t.attempts) /\ \A a \in ToSet(t.attempts) : Unreviewed(a) \/ SoundReview(a.review)
      BY <1>4, <1>5, <2>1
    <3> HIDE DEF total
    <3> QED
      BY <1>2, <3>1, <3>2, <3>3, StaysSound
  <2>3. \A f \in DOMAIN s \ (MayChange(w.type) \cup {"version"}) : t[f] = s[f]
    BY <1>2, <1>6, <2>1, StateFields DEF MayChange
  <2>4. s.status \in ComesFrom[w.type] /\ t.status = LeadsTo[w.type]
    BY <1>1, <1>6, <2>1 DEF ComesFrom, LeadsTo
  <2>5. Moves(w, s, t)
    BY <1>1, <1>6, <2>1 DEF Moves, ConsumesKey
  <2>6. Sound(t, ses)
    BY <1>2, <2>1, <2>2 DEF Sound
  <2> QED
    BY <1>2, <2>1, <2>2, <2>3, <2>4, <2>5, <2>6, SameLessonsKept DEF Passes, Legal
<1>7. CASE w.type \in {"question_presented", "session_ended"}
  <2>1. t = [[s EXCEPT !.keys = @ \cup {w.id}, !.status = "question_open"]
                EXCEPT !.index = @ + 1, !.current = w.body,
                       !.status = IF w.body = 0 THEN "completed" ELSE "question_open"]
    BY <1>1, <1>7
  <2>2. /\ t.attempts = s.attempts /\ t.current = w.body /\ t.index = s.index + 1
        /\ t.status = IF w.body = 0 THEN "completed" ELSE "question_open"
        /\ t.lessons = s.lessons /\ t.keys = s.keys \cup {w.id}
    BY <1>2, <2>1 DEF IsState
  <2>3. PICK n \in DOMAIN ses.paper :
          /\ w.question = ses.paper[n]
          /\ w.type = "question_presented" => n + 1 \in DOMAIN ses.paper /\ w.body = ses.paper[n + 1]
    BY <1>7 DEF Ready, PlanFits
  <2>4. s.index = n
    BY <1>1, <1>2, <1>3, <2>3 DEF Ready, PaperOk
  <2>5. w.type = "session_ended" => w.body = 0 /\ s.index = total
    <3>1. w.type = "session_ended" => w.body = 0 /\ w.question = ses.paper[total]
      BY DEF Ready, PlanHolds
    <3> QED
      BY <1>1, <1>2, <1>3, <3>1 DEF Ready, PaperOk
  <2>6. w.type = "question_presented" => w.body # 0 /\ s.index + 1 <= total
    BY <1>3, <2>3, <2>4
  <2>7. SoundState(t, total)
    <3>1. IF t.status = "completed" THEN t.current = 0 /\ t.index = total + 1
                                    ELSE t.current # 0 /\ t.index <= total
      BY <1>7, <2>2, <2>5, <2>6
    <3>2. t.status \notin {"teaching_open", "teaching_feedback_saved"}
      BY <2>2
    <3>3. Distinct(t.attempts) /\ \A a \in ToSet(t.attempts) : Unreviewed(a) \/ SoundReview(a.review)
      BY <1>4, <1>5, <2>2
    <3>4. s.status \notin {"teaching_open", "teaching_feedback_saved"} /\ t.lessons = s.lessons
      BY <1>1, <2>2
    <3> HIDE DEF total
    <3> QED
      BY <1>2, <3>1, <3>2, <3>3, <3>4, StaysSound
  <2>8. \A f \in DOMAIN s \ (MayChange(w.type) \cup {"version"}) : t[f] = s[f]
    BY <1>2, <1>7, <2>2, StateFields DEF MayChange
  <2>9. s.status \in ComesFrom[w.type] /\ t.status = LeadsTo[w.type]
    BY <1>1, <1>7, <2>2, <2>5, <2>6 DEF ComesFrom, LeadsTo
  <2>10. Moves(w, s, t)
    BY <1>1, <1>7, <2>2, <2>5 DEF Moves, ConsumesKey
  <2>11. Sound(t, ses)
    BY <1>2, <2>2, <2>7 DEF Sound
  <2> QED
    BY <1>2, <2>2, <2>7, <2>8, <2>9, <2>10, <2>11, SameLessonsKept DEF Passes, Legal
<1> QED
  BY <1>6, <1>7

\* A lesson that changes says what it said: its question, and the feedback it has.
Develops(l, m) ==
    /\ IsLesson(m) /\ LessonTyped(m) /\ SoundLesson(m) /\ m.question = l.question
    /\ \A id : Holds(l.feedback, id) => Holds(m.feedback, id)

LEMMA FeedbackAdded ==
    ASSUME NEW l, IsLesson(l), LessonTyped(l), SoundLesson(l), NEW item, ~ Holds(l.feedback, item),
           Pending(l) = {}, l.open,
           NEW m, m = [l EXCEPT !.feedback = Append(@, [id |-> item, base |-> l.revisions, applied |-> 0])]
    PROVE  Develops(l, m) /\ m.open /\ Pending(m) # {}
<1> DEFINE e == [id |-> item, base |-> l.revisions, applied |-> 0]
           x == l.feedback
           y == m.feedback
           n == Len(x)
<1>1. IsFeedback(e) /\ e.id = item /\ e.base = l.revisions /\ e.applied = 0
  BY DEF IsFeedback
<1> HIDE DEF e
<1>2. IsLesson(m) /\ y = Append(x, e) /\ m.open = l.open /\ m.revisions = l.revisions /\ m.question = l.question
  BY DEF IsLesson, e
<1>3. m.open
  BY Zenon, <1>2
<1>4. /\ IsList(x) /\ l.revisions \in Nat /\ l.revisions > 0
      /\ \A i \in DOMAIN x : IsFeedback(x[i])
  BY DEF LessonTyped
<1>5. /\ IsList(y) /\ Len(y) = n + 1 /\ n \in Nat
      /\ \A i \in DOMAIN x : y[i] = x[i]
      /\ y[n + 1] = e /\ DOMAIN x = 1 .. n /\ DOMAIN y = 1 .. n + 1
  BY <1>2, <1>4, AppendFacts, ListFacts
<1>6. LessonTyped(m)
  <2>1. m.open \in BOOLEAN
    BY Zenon, <1>2 DEF LessonTyped
  <2>2. \A i \in DOMAIN y : IsFeedback(y[i])
    BY <1>1, <1>4, <1>5
  <2> QED
    BY <1>2, <1>4, <1>5, <2>1, <2>2 DEF LessonTyped
<1>7. SoundLesson(m)
  <2>1. Distinct(y)
    <3>1. ASSUME NEW i \in 1 .. n + 1, NEW j \in 1 .. n + 1, y[i].id = y[j].id
          PROVE  i = j
      <4>1. i \in 1 .. n /\ j \in 1 .. n => i = j
        BY <1>5, <3>1 DEF SoundLesson, Distinct
      <4>2. \A k \in 1 .. n : y[k].id # e.id
        BY <1>1, <1>5 DEF Holds
      <4> QED
        BY <1>5, <3>1, <4>1, <4>2
    <3> QED
      BY <1>5, <3>1 DEF Distinct
  <2>2. Pending(m) \subseteq {e}
    BY <1>5 DEF Pending, ToSet
  <2>3. Cardinality(Pending(m)) <= 1
    BY <2>2, OneOrNone
  <2>4. ASSUME NEW i \in DOMAIN y
        PROVE  /\ y[i].base \in 1 .. l.revisions
               /\ y[i].applied = 0 \/ y[i].applied \in y[i].base + 1 .. l.revisions
    <3>1. CASE i \in DOMAIN x
      BY <1>5, <3>1 DEF SoundLesson, ToSet
    <3>2. CASE i = n + 1
      BY <1>1, <1>4, <1>5, <3>2
    <3> QED
      BY <1>5, <3>1, <3>2
  <2> QED
    BY <1>2, <2>1, <2>3, <2>4 DEF SoundLesson, ToSet
<1>8. e \in Pending(m)
  BY <1>1, <1>5 DEF Pending, ToSet
<1>9. \A id : Holds(x, id) => Holds(y, id)
  BY <1>5 DEF Holds
<1> QED
  BY <1>2, <1>3, <1>6, <1>7, <1>8, <1>9 DEF Develops

LEMMA FeedbackApplied ==
    ASSUME NEW l, IsLesson(l), LessonTyped(l), SoundLesson(l), NEW i \in DOMAIN l.feedback,
           l.feedback[i] \in Pending(l), l.feedback[i].base = l.revisions, l.open,
           NEW m, m = [[l EXCEPT !.feedback[i].applied = l.revisions + 1] EXCEPT !.revisions = l.revisions + 1]
    PROVE  Develops(l, m) /\ m.open /\ Pending(m) = {}
<1> DEFINE x == l.feedback
           y == m.feedback
           r == l.revisions + 1
           e == [x[i] EXCEPT !.applied = r]
<1>1. /\ IsList(x) /\ l.revisions \in Nat /\ l.revisions > 0
      /\ \A j \in DOMAIN x : IsFeedback(x[j])
  BY DEF LessonTyped
<1>2. IsFeedback(e) /\ e.id = x[i].id /\ e.base = x[i].base /\ e.applied = r
  BY <1>1 DEF IsFeedback
<1>3. /\ IsLesson(m) /\ y = [x EXCEPT ![i] = e]
      /\ m.open = l.open /\ m.revisions = r /\ m.question = l.question
  BY DEF IsLesson
<1>4. m.open
  BY Zenon, <1>3
<1> HIDE DEF e
<1>5. IsList(y) /\ DOMAIN y = DOMAIN x /\ y[i] = e /\ \A j \in DOMAIN x : j # i => y[j] = x[j]
  BY <1>1, <1>3, PutFacts
<1>6. LessonTyped(m)
  <2>1. m.open \in BOOLEAN
    BY Zenon, <1>3 DEF LessonTyped
  <2>2. \A j \in DOMAIN y : IsFeedback(y[j])
    BY <1>1, <1>2, <1>5
  <2> QED
    BY <1>1, <1>3, <1>5, <2>1, <2>2 DEF LessonTyped
<1>7. \A j \in DOMAIN x : x[j].applied = 0 => j = i
  <2>1. ASSUME NEW j \in DOMAIN x, x[j].applied = 0 PROVE j = i
    <3>1. x[j] \in Pending(l)
      BY <2>1 DEF Pending, ToSet
    <3>2. x[j] = x[i]
      BY <1>1, <3>1, OneFeedbackPending
    <3> QED
      BY <3>2 DEF SoundLesson, Distinct
  <2> QED
    BY <2>1
<1>8. Pending(m) = {}
  <2>1. \A j \in DOMAIN y : y[j].applied # 0
    BY <1>1, <1>2, <1>5, <1>7
  <2> QED
    BY <2>1 DEF Pending, ToSet
<1>9. SoundLesson(m)
  <2>1. Distinct(y)
    BY <1>2, <1>5 DEF SoundLesson, Distinct
  <2>2. Cardinality(Pending(m)) <= 1
    BY <1>8, OneOrNone
  <2>3. ASSUME NEW j \in DOMAIN y
        PROVE  /\ y[j].base \in 1 .. r
               /\ y[j].applied = 0 \/ y[j].applied \in y[j].base + 1 .. r
    <3>1. /\ x[j].base \in 1 .. l.revisions
          /\ x[j].applied = 0 \/ x[j].applied \in x[j].base + 1 .. l.revisions
      BY <1>5 DEF SoundLesson, ToSet
    <3>2. CASE j = i
      BY <1>1, <1>2, <1>5, <3>1, <3>2
    <3>3. CASE j # i
      BY <1>1, <1>5, <3>1, <3>3
    <3> QED
      BY <3>2, <3>3
  <2>4. \A f \in ToSet(y) : f.base \in 1 .. r /\ (f.applied = 0 \/ f.applied \in f.base + 1 .. r)
    BY <2>3 DEF ToSet
  <2> QED
    BY <1>3, <2>1, <2>2, <2>4 DEF SoundLesson
<1>10. \A id : Holds(x, id) => Holds(y, id)
  BY <1>2, <1>5 DEF Holds
<1> QED
  BY <1>3, <1>4, <1>6, <1>8, <1>9, <1>10 DEF Develops

LEMMA LessonClosed ==
    ASSUME NEW l, IsLesson(l), LessonTyped(l), SoundLesson(l), NEW m, m = [l EXCEPT !.open = FALSE]
    PROVE  Develops(l, m) /\ ~ m.open
<1>1. IsLesson(m) /\ m.open = FALSE /\ m.feedback = l.feedback /\ m.revisions = l.revisions
      /\ m.question = l.question
  BY DEF IsLesson
<1>2. LessonTyped(m)
  BY <1>1 DEF LessonTyped
<1>3. SoundLesson(m)
  BY <1>1 DEF SoundLesson, Pending
<1>4. \A id : Holds(l.feedback, id) => Holds(m.feedback, id)
  BY <1>1
<1>5. ~ m.open
  BY Zenon, <1>1
<1> QED
  BY <1>1, <1>2, <1>3, <1>4, <1>5 DEF Develops

\* The open lesson is put in its place: taught further, or closed.
LEMMA LessonPut ==
    ASSUME NEW ses, NEW s, Good(s, ses), Sound(s, ses), NEW k \in DOMAIN s.lessons, s.lessons[k].open,
           s.status \in {"teaching_open", "teaching_feedback_saved"},
           NEW m, Develops(s.lessons[k], m),
           NEW t, t.attempts = s.attempts, t.index = s.index, t.current = s.current,
           t.lessons = [s.lessons EXCEPT ![k] = m],
           \/ /\ m.open /\ t.status \in {"teaching_open", "teaching_feedback_saved"}
              /\ Pending(m) = {} <=> t.status = "teaching_open"
           \/ ~ m.open /\ t.status = "question_open"
    PROVE  Sound(t, ses) /\ Keeps(s, t)
<1> DEFINE total == Len(ses.paper)
           x == s.lessons
           y == t.lessons
<1>1. SoundState(s, total) /\ IsList(x) /\ \A j \in DOMAIN x : LessonTyped(x[j])
  BY DEF Good, Sound, LessonsFit
<1>2. IsList(y) /\ Len(y) = Len(x) /\ DOMAIN y = DOMAIN x /\ y[k] = m /\ \A j \in DOMAIN x : j # k => y[j] = x[j]
  BY <1>1, PutFacts
<1>3. \A j \in DOMAIN x : x[j].open => j = k
  BY <1>1, OneLessonOpen
<1>4. \A j \in DOMAIN y : y[j].open => j = k
  BY <1>2, <1>3
<1>5. x[k].question = s.current
  BY <1>1, <1>3, Teaching
<1>6. SoundState(t, total)
  <2> DEFINE opened == {j \in DOMAIN y : y[j].open}
             now == {l \in ToSet(y) : l.open}
  <2>1. t.status # "completed" /\ t.current # 0 /\ t.index <= total
    BY <1>1 DEF SoundState
  <2>2. \A l \in ToSet(y) : SoundLesson(l)
    <3>1. \A j \in DOMAIN x : SoundLesson(x[j])
      BY <1>1 DEF SoundState, ToSet
    <3> QED
      BY <1>2, <3>1 DEF ToSet, Develops
  <2>3. Cardinality(opened) <= 1
    <3>1. opened \subseteq {k}
      BY <1>4
    <3> HIDE DEF opened
    <3> QED
      BY <3>1, OneOrNone
  <2>4. t.status \in {"teaching_open", "teaching_feedback_saved"} =>
           \E l \in now : l.question = t.current /\ (Pending(l) = {} <=> t.status = "teaching_open")
    <3>1. t.status \in {"teaching_open", "teaching_feedback_saved"} => m.open /\ (Pending(m) = {} <=> t.status = "teaching_open")
      OBVIOUS
    <3>2. m \in ToSet(y)
      BY <1>2 DEF ToSet
    <3>3. m.question = t.current
      BY <1>5 DEF Develops
    <3> QED
      BY <3>1, <3>2, <3>3
  <2>5. t.status \notin {"teaching_open", "teaching_feedback_saved"} => now = {}
    <3>1. t.status \notin {"teaching_open", "teaching_feedback_saved"} => ~ m.open
      OBVIOUS
    <3> QED
      BY <1>2, <1>4, <3>1 DEF ToSet
  <2>6. Distinct(t.attempts) /\ \A a \in ToSet(t.attempts) : Unreviewed(a) \/ SoundReview(a.review)
    BY <1>1 DEF SoundState
  <2> QED
    BY <2>1, <2>2, <2>3, <2>4, <2>5, <2>6 DEF SoundState
<1>7. \A j \in DOMAIN y : LessonTyped(y[j])
  BY <1>1, <1>2 DEF Develops
<1>8. Sound(t, ses)
  BY <1>6, <1>7 DEF Sound
<1>9. Keeps(s, t)
  <2>1. Len(x) <= Len(y)
    BY <1>1, <1>2, ListFacts
  <2>2. ASSUME NEW j \in DOMAIN x, NEW id, Holds(x[j].feedback, id) PROVE Holds(y[j].feedback, id)
    <3>1. CASE j = k
      BY <1>2, <2>2, <3>1 DEF Develops
    <3>2. CASE j # k
      BY <1>2, <2>2, <3>2
    <3> QED
      BY <3>1, <3>2
  <2> QED
    BY <2>1, <2>2 DEF Keeps
<1> QED
  BY <1>8, <1>9

LEMMA PassesTeaching ==
    ASSUME NEW ses, NEW s, NEW w, Ready(w, s, ses), w.type = "teaching_started",
           NEW t \in Into(w, s), t # s
    PROVE  Passes(w, s, t, ses)
<1> DEFINE total == Len(ses.paper)
           x == s.lessons
           y == t.lessons
           l == NewLesson(w.question)
           n == Len(x)
<1>1. /\ s.status = "question_open" /\ w.question = s.current
      /\ t = [s EXCEPT !.lessons = Append(@, NewLesson(w.question)), !.status = "teaching_open"]
  BY DEF Into, IntoLesson, Here
<1>2. /\ Good(s, ses) /\ IsState(s) /\ Sound(s, ses) /\ SoundState(s, total) /\ IsList(x)
      /\ \A j \in DOMAIN x : LessonTyped(x[j])
  BY DEF Ready, Good, Shaped, Sound, LessonsFit
<1>3. l.open = TRUE /\ l.question = s.current /\ l.revisions = 1 /\ l.feedback = <<>>
  BY <1>1 DEF NewLesson
<1>4. l.open
  BY Zenon, <1>3
<1>5. IsList(l.feedback) /\ DOMAIN l.feedback = {} /\ ToSet(l.feedback) = {}
  <2>1. <<>> \in Seq({}) /\ DOMAIN <<>> = {}
    OBVIOUS
  <2>2. IsList(l.feedback) /\ DOMAIN l.feedback = {}
    BY <1>3, <2>1, SequenceIsList
  <2> QED
    BY <2>2 DEF ToSet
<1>6. LessonTyped(l)
  <2>1. l.open \in BOOLEAN
    BY Zenon, <1>3
  <2>2. l.revisions \in Nat /\ l.revisions > 0
    BY <1>3
  <2> HIDE DEF l
  <2> QED
    BY <1>5, <2>1, <2>2 DEF LessonTyped
<1>7. SoundLesson(l) /\ Pending(l) = {}
  <2>1. Pending(l) = {}
    BY <1>5 DEF Pending
  <2> QED
    BY <1>5, <2>1, OneOrNone DEF SoundLesson, Distinct
<1> HIDE DEF l
<1>8. /\ t.attempts = s.attempts /\ t.current = s.current /\ t.index = s.index /\ t.keys = s.keys
      /\ y = Append(x, l) /\ t.status = "teaching_open"
  BY <1>1, <1>2 DEF IsState, l
<1>9. /\ IsList(y) /\ Len(y) = n + 1 /\ n \in Nat
      /\ \A i \in DOMAIN x : y[i] = x[i]
      /\ y[n + 1] = l /\ DOMAIN x = 1 .. n /\ DOMAIN y = 1 .. n + 1
  BY <1>2, <1>8, AppendFacts, ListFacts
<1>10. SoundState(t, total)
  <2> DEFINE opened == {j \in DOMAIN y : y[j].open}
             now == {e \in ToSet(y) : e.open}
  <2>1. t.current # 0 /\ t.index <= total
    BY <1>1, <1>2, <1>8 DEF SoundState
  <2>2. \A e \in ToSet(y) : SoundLesson(e)
    <3>1. \A j \in DOMAIN x : SoundLesson(x[j])
      BY <1>2 DEF SoundState, ToSet
    <3> QED
      BY <1>7, <1>9, <3>1 DEF ToSet
  <2>3. Cardinality(opened) <= 1
    <3>1. \A j \in DOMAIN x : ~ x[j].open
      BY <1>1, <1>2 DEF SoundState, ToSet
    <3>2. opened \subseteq {n + 1}
      BY <1>9, <3>1
    <3> HIDE DEF opened
    <3> QED
      BY <3>2, OneOrNone
  <2>4. \E e \in now : e.question = t.current /\ (Pending(e) = {} <=> t.status = "teaching_open")
    <3>1. l \in ToSet(y)
      BY <1>9 DEF ToSet
    <3> QED
      BY <1>3, <1>4, <1>7, <1>8, <3>1
  <2>5. Distinct(t.attempts) /\ \A a \in ToSet(t.attempts) : Unreviewed(a) \/ SoundReview(a.review)
    BY <1>2, <1>8 DEF SoundState
  <2> QED
    BY <1>8, <2>1, <2>2, <2>3, <2>4, <2>5 DEF SoundState
<1>11. Sound(t, ses)
  BY <1>2, <1>6, <1>8, <1>9, <1>10 DEF Sound
<1>12. Keeps(s, t)
  BY <1>9 DEF Keeps
<1>13. Legal(w, s, t, total)
  <2>1. \A f \in DOMAIN s \ (MayChange(w.type) \cup {"version"}) : t[f] = s[f]
    BY <1>2, <1>8, StateFields DEF MayChange
  <2>2. s.status \in ComesFrom[w.type] /\ t.status = LeadsTo[w.type]
    BY <1>1, <1>8 DEF ComesFrom, LeadsTo
  <2>3. ChangesLesson(w, s, t)
    BY <1>1, <1>8 DEF ChangesLesson, l
  <2> QED
    BY <1>10, <2>1, <2>2, <2>3 DEF Legal, Moves
<1> QED
  BY <1>11, <1>12, <1>13 DEF Passes

LEMMA PassesLesson ==
    ASSUME NEW ses, NEW s, NEW w, Ready(w, s, ses), w.type \in LessonTypes \ {"teaching_started"},
           NEW t \in Into(w, s), t # s
    PROVE  Passes(w, s, t, ses)
<1> DEFINE total == Len(ses.paper)
           x == s.lessons
           k == w.id
           Teaches == s.status \in {"teaching_open", "teaching_feedback_saved"}
           Stays == /\ t.attempts = s.attempts /\ t.index = s.index /\ t.current = s.current
                    /\ t.keys = s.keys
<1>1. /\ Good(s, ses) /\ IsState(s) /\ Sound(s, ses) /\ SoundState(s, total) /\ IsList(x)
      /\ k \in DOMAIN x
  BY DEF Ready, Good, Shaped, Sound, LessonsFit, PlanHolds
<1>2. IsLesson(x[k]) /\ LessonTyped(x[k]) /\ SoundLesson(x[k])
  BY <1>1 DEF Good, LessonsFit, Sound, SoundState, ToSet
<1>3. x \in [DOMAIN x -> ToSet(x)]
  BY <1>1 DEF IsList, ToSet
<1>4. ASSUME Stays,
             s.status \in ComesFrom[w.type], t.status = LeadsTo[w.type], ChangesLesson(w, s, t),
             Sound(t, ses) /\ Keeps(s, t)
      PROVE  Passes(w, s, t, ses)
  <2>1. \A f \in DOMAIN s \ (MayChange(w.type) \cup {"version"}) : t[f] = s[f]
    BY <1>1, <1>4, StateFields DEF MayChange, LessonTypes
  <2>2. Moves(w, s, t)
    BY <1>4 DEF Moves, LessonTypes
  <2> QED
    BY <1>4, <2>1, <2>2 DEF Passes, Legal, Sound
<1>5. ASSUME x[k].open, Teaches PROVE x[k].question = s.current
  <2>1. PICK j \in DOMAIN x : x[j].open /\ x[j].question = s.current
    BY <1>1, <1>5, Teaching
  <2>2. j = k
    BY <1>1, <1>5, <2>1, OneLessonOpen
  <2> QED
    BY <2>1, <2>2
<1>6. CASE w.type = "teaching_feedback_submitted"
  <2> DEFINE e == [id |-> w.item, base |-> w.body, applied |-> 0]
             m == [x[k] EXCEPT !.feedback = Append(@, e)]
  <2>1. /\ x[k].open /\ s.status = "teaching_open" /\ x[k].revisions = w.body
        /\ Pending(x[k]) = {} /\ ~ Holds(x[k].feedback, w.item)
        /\ t = [s EXCEPT !.lessons[w.id].feedback = Append(@, e), !.status = "teaching_feedback_saved"]
    BY <1>6 DEF Into, IntoFeedback
  <2>2. Stays /\ t.lessons = [x EXCEPT ![k] = m] /\ t.status = "teaching_feedback_saved"
    BY <1>1, <2>1 DEF IsState
  <2>3. Develops(x[k], m) /\ m.open /\ Pending(m) # {}
    BY <1>2, <2>1, FeedbackAdded
  <2>4. ChangesLesson(w, s, t)
    BY <1>6, <2>1, <2>2 DEF ChangesLesson
  <2> HIDE DEF m
  <2>5. Sound(t, ses) /\ Keeps(s, t)
    BY <1>1, <2>1, <2>2, <2>3, LessonPut
  <2> QED
    BY <1>4, <1>6, <2>1, <2>2, <2>4, <2>5 DEF ComesFrom, LeadsTo
<1>7. CASE w.type = "teaching_revised"
  <2> DEFINE i == Place(x[k].feedback, w.item)
             d == [x[k] EXCEPT !.feedback[i].applied = w.body + 1]
             m == [d EXCEPT !.revisions = w.body + 1]
  <2>1. /\ x[k].open /\ s.status = "teaching_feedback_saved" /\ x[k].revisions = w.body
        /\ x[k].feedback[i] \in Pending(x[k]) /\ x[k].feedback[i].base = w.body
        /\ t = [s EXCEPT !.lessons[w.id].feedback[i].applied = w.body + 1,
                         !.lessons[w.id].revisions = w.body + 1, !.status = "teaching_open"]
    BY ZenonT(60), <1>7 DEF Into, IntoRevision
  <2>2. Holds(x[k].feedback, w.item)
    BY <1>7 DEF Ready, PlanHolds
  <2>3. i \in DOMAIN x[k].feedback
    BY <2>2 DEF Holds, Place
  <2> HIDE DEF i
  <2>4. Stays /\ t.status = "teaching_open"
    BY <1>1, <2>1 DEF IsState
  <2>5. t.lessons = [x EXCEPT ![k] = m]
    <3>1. t.lessons = [[x EXCEPT ![k] = d] EXCEPT ![k].revisions = w.body + 1]
      BY <1>1, <2>1 DEF IsState
    <3> HIDE DEF d
    <3> QED
      BY SMTT(30), <3>1, <1>3
  <2>6. Develops(x[k], m) /\ m.open /\ Pending(m) = {}
    <3>1. m = [[x[k] EXCEPT !.feedback[i].applied = x[k].revisions + 1] EXCEPT !.revisions = x[k].revisions + 1]
      BY <2>1
    <3>2. x[k].feedback[i] \in Pending(x[k]) /\ x[k].feedback[i].base = x[k].revisions
      BY <2>1
    <3>3. x[k].open
      BY <2>1
    <3> HIDE DEF m, d
    <3> QED
      BY ZenonT(60), <1>2, <2>3, <3>1, <3>2, <3>3, FeedbackApplied
  <2>7. ChangesLesson(w, s, t)
    <3> DEFINE r == [x[k] EXCEPT !.revisions = @ + 1]
               v == [r EXCEPT !.feedback[i].applied = w.body + 1]
    <3>1. Item(x[k].feedback, w.item).applied = 0
      BY <2>1 DEF Item, Pending, i
    <3>2. v = m
      BY <1>2, <2>1 DEF IsLesson
    <3>3. [s.lessons EXCEPT ![w.id].revisions = @ + 1,
                            ![w.id].feedback[Place(x[k].feedback, w.item)].applied = w.body + 1]
            = [x EXCEPT ![k] = v]
      <4>1. [s.lessons EXCEPT ![w.id].revisions = @ + 1,
                              ![w.id].feedback[i].applied = w.body + 1]
              = [[x EXCEPT ![k] = r] EXCEPT ![k].feedback[i].applied = w.body + 1]
        OBVIOUS
      <4>2. [[x EXCEPT ![k] = r] EXCEPT ![k].feedback[i].applied = w.body + 1] = [x EXCEPT ![k] = v]
        <5> HIDE DEF r
        <5> QED
          BY SMTT(30), <1>3
      <4> QED
        BY <4>1, <4>2 DEF i
    <3>4. x[k].open /\ w.body + 1 = x[k].revisions + 1
      BY <2>1
    <3> HIDE DEF v, r, m
    <3> QED
      BY ZenonT(60), <1>7, <2>2, <2>5, <3>1, <3>2, <3>3, <3>4 DEF ChangesLesson
  <2>8. x[k].open /\ s.status = "teaching_feedback_saved"
    BY <2>1
  <2> HIDE DEF m, d
  <2>9. Sound(t, ses) /\ Keeps(s, t)
    BY ZenonT(60), <1>1, <2>4, <2>5, <2>6, <2>8, LessonPut
  <2>10. s.status \in ComesFrom[w.type] /\ t.status = LeadsTo[w.type]
    BY <1>7, <2>4, <2>8 DEF ComesFrom, LeadsTo
  <2> QED
    BY <1>4, <2>4, <2>7, <2>9, <2>10
<1>8. CASE w.type \in {"teaching_completed", "teaching_invalidated"}
  <2> DEFINE m == [x[k] EXCEPT !.open = FALSE]
  <2>1. /\ x[k].open /\ Teaches
        /\ t = [s EXCEPT !.lessons[w.id].open = FALSE, !.status = "question_open"]
        /\ w.type = "teaching_completed" => s.status = "teaching_open" /\ Pending(x[k]) = {}
    BY <1>8 DEF Into, IntoCompletion, IntoInvalidation, Closed
  <2>2. Stays /\ t.lessons = [x EXCEPT ![k] = m] /\ t.status = "question_open"
    BY <1>1, <2>1 DEF IsState
  <2>3. Develops(x[k], m) /\ ~ m.open
    BY <1>2, LessonClosed
  <2>4. x[k].question = s.current
    BY <1>5, <2>1
  <2>5. ChangesLesson(w, s, t)
    BY Zenon, <1>8, <2>1, <2>2, <2>4 DEF ChangesLesson
  <2> HIDE DEF m
  <2>6. Sound(t, ses) /\ Keeps(s, t)
    BY <1>1, <2>1, <2>2, <2>3, LessonPut
  <2> QED
    BY <1>4, <1>8, <2>1, <2>2, <2>5, <2>6 DEF ComesFrom, LeadsTo
<1> QED
  BY <1>6, <1>7, <1>8 DEF LessonTypes

\* Whatever was decided on an older state: what the guards let through, the checks accept.
LEMMA GuardsSuffice ==
    ASSUME NEW ses, NEW s, NEW w, Ready(w, s, ses), NEW t \in Into(w, s), t # s,
           w.type = "grading_started" => Legal(w, s, t, Len(ses.paper))
    PROVE  Passes(w, s, t, ses)
<1>1. w.type \in {"answer_submitted", "answer_reviewed", "grading_started", "question_presented",
                   "socratic_turn", "session_ended", "teaching_started"}
                \cup (LessonTypes \ {"teaching_started"})
  BY DEF Ready, PlanFits
<1> QED
  BY <1>1, PassesAnswer, PassesReview, PassesGrading, PassesContinue, PassesTeaching, PassesLesson

-----------------------------------------------------------------------------
(* The processes, with what they hold. *)

LEMMA QuietHolds ==
    ASSUME NEW j, Quiet(j), NEW s, NEW ses
    PROVE  JobHolds(j, s, ses)
  BY DEF Quiet, JobHolds

LEMMA HoldsStep ==
    ASSUME Inv, SoundInv, NEW p \in Procs, NEW j, Become(p, j), JobHolds(j, log.state, session),
           log' = log, session' = session
    PROVE  SoundInv'
<1>1. \A q \in Procs : job'[q] = IF q = p THEN j ELSE job[q]
  BY DEF Inv, Become
<1>2. \A q \in Procs : JobHolds(job'[q], log.state, session)
  BY <1>1 DEF SoundInv
<1> QED
  BY <1>2 DEF SoundInv

LEMMA QuietHoldsStep ==
    ASSUME Inv, SoundInv, NEW p \in Procs, NEW j, Quiet(j), Become(p, j),
           log' = log, session' = session
    PROVE  SoundInv'
  BY QuietHolds, HoldsStep

LEMMA WriteHolds ==
    ASSUME Inv, SoundInv, NEW p \in Procs, NEW w, Write(p, w), PlanHolds(w, log.state, session),
           log' = log, session' = session
    PROVE  SoundInv'
<1> DEFINE j == [Idle EXCEPT !.at = "lock", !.section = "write", !.then = job[p].then, !.plan = w]
<1>1. j.at = "lock" /\ j.section = "write" /\ j.plan = w
  BY DEF Idle
<1>2. Become(p, j)
  BY DEF Write
<1> HIDE DEF j
<1>3. JobHolds(j, log.state, session)
  BY <1>1 DEF JobHolds
<1> QED
  BY <1>2, <1>3, HoldsStep

\* What a command that decides knows beside Deciding.
LEMMA DecidingSound ==
    ASSUME Inv, SoundInv, NEW p \in Procs, NEW ops, Decides(p, ops)
    PROVE  Sound(View(p), session) /\ Keeps(View(p), log.state) /\ IsList(View(p).lessons)
<1>1. Good(View(p), session)
  BY Deciding
<1> QED
  BY <1>1 DEF SoundInv, JobHolds, Decides, At, View, Good, LessonsFit

LEMMA StopHolds ==
    ASSUME Inv, SoundInv, NEW p \in Procs, NEW ops, Decides(p, ops),
           Stop(p) \/ Become(p, Idle) \/ \E op, then, expect : Become(p, Reading(op, then, expect))
    PROVE  SoundInv'
  BY Deciding, QuietJobs, QuietHoldsStep DEF Stop

LEMMA MarkStaleHolds ==
    ASSUME Inv, SoundInv, NEW p \in Procs, NEW ops, Decides(p, ops), NEW a, MarkStale(p, a)
    PROVE  SoundInv'
<1> DEFINE g == StaleReview(a)
           w == Plan("answer_reviewed", a.question, a.id, "stale", g, 0)
<1>1. /\ g.status = "stale" /\ g.outcome = "none" /\ g.score = "none" /\ g.unaided = FALSE
  BY DEF StaleReview, NoReview
<1>2. ~ g.unaided
  BY Zenon, <1>1
<1> HIDE DEF g
<1>3. SoundReview(g)
  BY <1>1, <1>2 DEF SoundReview
<1>4. w.type = "answer_reviewed" /\ w.item = "stale" /\ w.body = g
  BY DEF Plan
<1>5. Write(p, w)
  BY DEF MarkStale, g
<1> HIDE DEF w
<1>6. PlanHolds(w, log.state, session)
  BY <1>3, <1>4 DEF PlanHolds, LessonTypes
<1> QED
  BY <1>5, <1>6, Deciding, WriteHolds

\* A lesson that was open in the view is still there.
LEMMA LessonHolds ==
    ASSUME Inv, SoundInv, NEW p \in Procs, NEW ops, Decides(p, ops), NEW w, Write(p, w),
           w.type \in LessonTypes,
           w.type # "teaching_started" => w.id # 0 /\ w.id = ActiveLesson(View(p), Asked(p)),
           w.type = "teaching_revised" => \E f \in Pending(View(p).lessons[w.id]) : w.item = f.id
    PROVE  SoundInv'
<1> DEFINE v == View(p)
           s == log.state
           k == w.id
<1>1. /\ Sound(v, session) /\ Keeps(v, s) /\ IsList(v.lessons) /\ SoundState(v, Len(session.paper))
      /\ Good(v, session) /\ Good(s, session)
  BY DecidingSound, Deciding DEF Sound
<1>2. w.type # "teaching_started" => k \in DOMAIN v.lessons
  BY <1>1, ActiveLessonIs
<1>3. w.type # "teaching_started" => k \in DOMAIN s.lessons
  BY <1>1, <1>2, ListFacts DEF Keeps, Good, LessonsFit
<1>4. ASSUME w.type = "teaching_revised" PROVE Holds(s.lessons[k].feedback, w.item)
  <2>1. PICK f \in Pending(v.lessons[k]) : w.item = f.id
    BY <1>4
  <2>2. Holds(v.lessons[k].feedback, w.item)
    BY <2>1 DEF Pending, ToSet, Holds
  <2> QED
    BY <1>1, <1>2, <1>4, <2>2 DEF Keeps
<1>5. PlanHolds(w, s, session)
  BY <1>3, <1>4 DEF PlanHolds, LessonTypes
<1> QED
  BY <1>5, Deciding, WriteHolds

LEMMA CloseHolds ==
    ASSUME Inv, SoundInv, NEW p \in Procs, NEW ops, Decides(p, ops), NEW k, k # 0,
           k = ActiveLesson(View(p), Asked(p)), CloseLesson(p, k)
    PROVE  SoundInv'
<1> DEFINE w == Plan("teaching_invalidated", Asked(p), k, 0, 0, 0)
<1>1. w.type = "teaching_invalidated" /\ w.id = k
  BY DEF Plan
<1>2. Write(p, w)
  BY DEF CloseLesson
<1> HIDE DEF w
<1> QED
  BY <1>1, <1>2, LessonHolds DEF LessonTypes

LEMMA AnswerHolds ==
    ASSUME Inv, SoundInv, NEW p \in Procs, Answer(p)
    PROVE  SoundInv'
<1>1. Decides(p, {"answer"})
  BY DEF Answer
<1>2. CASE Stop(p) \/ Become(p, Idle) \/ Become(p, Reading("dispatch", "none", 0))
  BY <1>1, <1>2, StopHolds
<1>3. ASSUME NEW id, NEW answer,
             Write(p, Plan("answer_submitted", Asked(p), id, 0, Prepared(p, id, answer), job[p].expect))
      PROVE  SoundInv'
  <2> DEFINE a == Prepared(p, id, answer)
             w == Plan("answer_submitted", Asked(p), id, 0, a, job[p].expect)
  <2>1. /\ a.id = id /\ a.question = Asked(p) /\ a.answer = answer
        /\ a.fresh => Asked(p) \notin stale
        /\ a.auto = IF Bank[Asked(p)].kind = "choice" /\ session.style = "regular" /\ Asked(p) \notin stale
                    THEN answer ELSE "none"
    BY DEF Prepared
  <2> HIDE DEF a
  <2>2. AutoStands(a, session)
    BY <2>1 DEF AutoStands
  <2>3. w.type = "answer_submitted" /\ w.body = a /\ w.id = id /\ w.question = Asked(p)
    BY DEF Plan
  <2>4. Write(p, w)
    BY <1>3 DEF a
  <2> HIDE DEF w
  <2>5. PlanHolds(w, log.state, session)
    BY <2>1, <2>2, <2>3 DEF PlanHolds, LessonTypes
  <2> QED
    BY <1>1, <2>4, <2>5, Deciding, WriteHolds
<1> QED
  BY <1>2, <1>3 DEF Answer

LEMMA DispatchHolds ==
    ASSUME Inv, SoundInv, NEW p \in Procs, Dispatch(p)
    PROVE  SoundInv'
<1>1. Decides(p, {"dispatch"})
  BY DEF Dispatch
<1>2. CASE Stop(p)
  BY <1>1, <1>2, StopHolds
<1>3. ASSUME NEW a, MarkStale(p, a) PROVE SoundInv'
  BY <1>1, <1>3, MarkStaleHolds
<1>4. ASSUME NEW a, Write(p, Plan("answer_reviewed", a.question, a.id, "auto", AutoReview(a), 0))
      PROVE  SoundInv'
  <2> DEFINE g == AutoReview(a)
             w == Plan("answer_reviewed", a.question, a.id, "auto", g, 0)
  <2>1. /\ g.status = "graded" /\ g.hint = a.hint
        /\ g.outcome = IF a.answer = "right" THEN "mastered" ELSE "exhausted"
        /\ g.score = IF a.answer = "right" THEN "high" ELSE "low"
    BY DEF AutoReview
  <2>2. g.unaided => a.answer = "right" /\ a.hint = 0
    <3>1. g.unaided = (a.answer = "right" /\ a.hint = 0)
      BY ZenonT(30) DEF AutoReview
    <3> HIDE DEF g
    <3> QED
      BY Zenon, <3>1
  <2> HIDE DEF g
  <2>3. SoundReview(g)
    BY <2>1, <2>2 DEF SoundReview
  <2>4. w.type = "answer_reviewed" /\ w.item = "auto" /\ w.body = g
    BY DEF Plan
  <2>5. Write(p, w)
    BY <1>4 DEF g
  <2> HIDE DEF w
  <2>6. PlanHolds(w, log.state, session)
    BY <2>3, <2>4 DEF PlanHolds, LessonTypes
  <2> QED
    BY <1>1, <2>5, <2>6, Deciding, WriteHolds
<1> QED
  BY <1>2, <1>3, <1>4 DEF Dispatch

LEMMA PendHolds ==
    ASSUME Inv, SoundInv, NEW p \in Procs, Pend(p)
    PROVE  SoundInv'
<1> DEFINE v == View(p)
           k == ActiveLesson(v, Asked(p))
<1>1. Decides(p, {"pending", "pending again"})
  BY DEF Pend
<1>2. CASE Stop(p) \/ Become(p, Reading("dispatch", "pending again", 0))
  BY <1>1, <1>2, StopHolds
<1>3. ASSUME v.status \in {"teaching_open", "teaching_feedback_saved"}, CloseLesson(p, k)
      PROVE  SoundInv'
  <2>1. IsList(v.lessons) /\ SoundState(v, Len(session.paper))
    BY <1>1, DecidingSound DEF Sound
  <2>2. k # 0
    BY <1>3, <2>1, Teaching, ActiveLessonIs DEF Asked
  <2> QED
    BY <1>1, <1>3, <2>2, CloseHolds
<1>4. ASSUME NEW a, MarkStale(p, a) PROVE SoundInv'
  BY <1>1, <1>4, MarkStaleHolds
<1>5. ASSUME NEW a, Write(p, Plan("grading_started", a.question, a.id, 0, 0, 0)) PROVE SoundInv'
  <2> DEFINE w == Plan("grading_started", a.question, a.id, 0, 0, 0)
  <2>1. w.type = "grading_started" /\ Write(p, w)
    BY <1>5 DEF Plan
  <2> HIDE DEF w
  <2>2. PlanHolds(w, log.state, session)
    BY <2>1 DEF PlanHolds, LessonTypes
  <2> QED
    BY <1>1, <2>1, <2>2, Deciding, WriteHolds
<1> QED
  BY <1>2, <1>3, <1>4, <1>5 DEF Pend

LEMMA ReviewHolds ==
    ASSUME Inv, SoundInv, NEW p \in Procs, Review(p)
    PROVE  SoundInv'
<1>1. Decides(p, {"review"})
  BY DEF Review
<1>2. CASE Stop(p)
  BY <1>1, <1>2, StopHolds
<1>3. ASSUME NEW a, MarkStale(p, a) PROVE SoundInv'
  BY <1>1, <1>3, MarkStaleHolds
<1>4. ASSUME NEW a, NEW r \in AgentReviews(a, session.style),
             Write(p, Plan("answer_reviewed", a.question, a.id, "agent", r, 0))
      PROVE  SoundInv'
  <2> DEFINE w == Plan("answer_reviewed", a.question, a.id, "agent", r, 0)
  <2>1. SoundReview(r) /\ r.status # "stale"
    BY DEF AgentReviews
  <2>2. w.type = "answer_reviewed" /\ w.body = r /\ Write(p, w)
    BY <1>4 DEF Plan
  <2> HIDE DEF w
  <2>3. PlanHolds(w, log.state, session)
    BY <2>1, <2>2 DEF PlanHolds, LessonTypes
  <2> QED
    BY <1>1, <2>2, <2>3, Deciding, WriteHolds
<1> QED
  BY <1>2, <1>3, <1>4 DEF Review

LEMMA ContinueHolds ==
    ASSUME Inv, SoundInv, NEW p \in Procs, Continue(p)
    PROVE  SoundInv'
<1> DEFINE v == View(p)
           q == Asked(p)
           Event(type, next) == Plan(type, q, LastTry(v, q), 0, next, 0)
<1>1. Decides(p, {"continue", "continue again"})
  BY DEF Continue
<1>2. CASE Stop(p) \/ Become(p, Reading("dispatch", "continue again", 0))
  BY <1>1, <1>2, StopHolds
<1>3. ASSUME NEW type \in {"socratic_turn", "question_presented"}, NEW next, Write(p, Event(type, next))
      PROVE  SoundInv'
  <2> DEFINE w == Event(type, next)
  <2>1. w.type = type /\ Write(p, w)
    BY <1>3 DEF Plan
  <2> HIDE DEF w, Event
  <2>2. PlanHolds(w, log.state, session)
    BY <2>1 DEF PlanHolds, LessonTypes
  <2> QED
    BY <1>1, <2>1, <2>2, Deciding, WriteHolds
<1>4. ASSUME v.status = "reviewed", Following(v) = 0, Write(p, Event("session_ended", 0))
      PROVE  SoundInv'
  <2> DEFINE w == Event("session_ended", 0)
  <2>1. w.type = "session_ended" /\ w.body = 0 /\ w.question = v.current /\ Write(p, w)
    BY <1>4 DEF Plan, Asked
  <2> HIDE DEF w, Event
  <2>2. ASSUME PaperOk(session) PROVE w.question = session.paper[Len(session.paper)]
    <3>1. Good(v, session) /\ SoundState(v, Len(session.paper)) /\ Passed(v, session)
      BY <1>1, <2>2, Deciding, DecidingSound DEF Sound, Good
    <3>2. /\ v.index \in Nat /\ v.index > 0 /\ v.index <= Len(session.paper)
          /\ v.current = session.paper[v.index]
      BY <1>4, <3>1 DEF SoundState, Passed, Good, Shaped
    <3>3. v.index = Len(session.paper)
      <4>1. v.index < Len(session.paper) => session.paper[v.index + 1] \in Questions
        BY <2>2, <3>2 DEF PaperOk
      <4>2. ~ (v.index < Len(session.paper))
        BY <1>4, <4>1, BankAssumption DEF Following
      <4> QED
        BY <2>2, <3>2, <4>2 DEF PaperOk
    <3> QED
      BY <2>1, <3>2, <3>3
  <2>3. PlanHolds(w, log.state, session)
    BY <2>1, <2>2 DEF PlanHolds, LessonTypes
  <2> QED
    BY <1>1, <2>1, <2>3, Deciding, WriteHolds
<1> QED
  BY <1>2, <1>3, <1>4 DEF Continue

LEMMA TeachingHolds ==
    ASSUME Inv, SoundInv, NEW p \in Procs, Teach(p) \/ Feedback(p) \/ Revise(p) \/ Complete(p)
    PROVE  SoundInv'
<1> DEFINE ops == {"teach", "feedback", "revise", "complete"}
           v == View(p)
           k == ActiveLesson(v, Asked(p))
<1>1. At(p, "decide") /\ UNCHANGED <<lock, faults, files, stale, changes>> /\ job[p].op \in ops
  BY DEF Teach, Feedback, Revise, Complete, Decides
<1>2. Decides(p, ops)
  BY <1>1 DEF Decides
<1>3. CASE Stop(p)
  BY <1>2, <1>3, StopHolds
<1>4. ASSUME k # 0, CloseLesson(p, k) PROVE SoundInv'
  BY <1>2, <1>4, CloseHolds
<1>5. ASSUME NEW type \in LessonTypes, NEW id, NEW item, NEW body, NEW expect,
             type # "teaching_started" => id = k /\ k # 0,
             type = "teaching_revised" => \E f \in Pending(v.lessons[k]) : item = f.id,
             Write(p, Plan(type, Asked(p), id, item, body, expect))
      PROVE  SoundInv'
  <2> DEFINE w == Plan(type, Asked(p), id, item, body, expect)
  <2>1. w.type = type /\ w.id = id /\ w.item = item /\ Write(p, w)
    BY <1>5 DEF Plan
  <2> HIDE DEF w
  <2> QED
    BY <1>2, <1>5, <2>1, LessonHolds DEF LessonTypes
<1>6. CASE Teach(p)
  BY <1>3, <1>5, <1>6 DEF Teach, LessonTypes
<1>7. CASE Feedback(p)
  BY <1>3, <1>5, <1>7 DEF Feedback, LessonTypes
<1>8. CASE Revise(p)
  BY <1>3, <1>4, <1>5, <1>8 DEF Revise, LessonTypes
<1>9. CASE Complete(p)
  BY <1>3, <1>4, <1>5, <1>9 DEF Complete, LessonTypes
<1> QED
  BY <1>6, <1>7, <1>8, <1>9

\* Steps that prepare nothing and read nothing.
LEMMA OtherStepsHold ==
    ASSUME Inv, SoundInv, NEW p \in Procs,
           \/ Stall(p) \/ LookAtLock(p) \/ Steal(p) \/ GiveUp(p) \/ WriteState(p) \/ WriteActive(p) \/ Rebuild(p)
           \/ Begin(p) \/ Start(p) \/ Report(p) \/ Die(p)
    PROVE  SoundInv'
<1>1. log' = log /\ session' = session
  BY DEF Stall, LookAtLock, Steal, GiveUp, WriteState, WriteActive, Rebuild, Begin, Start, Report, Die, Decides,
         files
<1>2. IsJob(job[p]) /\ JobHolds(job[p], log.state, session)
  BY DEF Inv, JobFits, SoundInv
<1>3. ASSUME NEW j, Quiet(j), Become(p, j) PROVE SoundInv'
  BY <1>1, <1>3, QuietHoldsStep
<1>4. ASSUME NEW j, j.section = "start" \/ j.at = "active", j.at # "decide", Become(p, j) PROVE SoundInv'
  <2>1. JobHolds(j, log.state, session)
    BY <1>4 DEF JobHolds
  <2> QED
    BY <1>1, <1>4, <2>1, HoldsStep
<1>5. CASE Stall(p) \/ LookAtLock(p) \/ Steal(p)
  <2>1. PICK at \in {"lock", "stalled", "steal"} : job[p].at \in {"lock", "stalled", "steal"} /\ GoTo(p, at)
    BY <1>5 DEF Stall, LookAtLock, Steal, At
  <2> DEFINE j == [job[p] EXCEPT !.at = at]
  <2>2. j.at = at /\ j.section = job[p].section /\ j.plan = job[p].plan
    BY <1>2 DEF IsJob
  <2>3. Become(p, j)
    BY <2>1 DEF GoTo
  <2> HIDE DEF j
  <2>4. JobHolds(j, log.state, session)
    BY <1>2, <2>1, <2>2 DEF JobHolds
  <2> QED
    BY <1>1, <2>3, <2>4, HoldsStep
<1>6. CASE WriteState(p)
  <2>1. [job[p] EXCEPT !.at = "active"].at = "active"
    BY <1>2 DEF IsJob
  <2> QED
    BY <1>3, <1>4, <1>6, <2>1, QuietJobs DEF WriteState, GoTo
<1>7. CASE WriteActive(p) \/ Rebuild(p) \/ GiveUp(p) \/ Die(p)
  BY <1>3, <1>7, QuietJobs DEF WriteActive, Rebuild, GiveUp, Die
<1>8. CASE Begin(p)
  BY <1>3, <1>8, QuietJobs DEF Begin
<1>9. CASE Report(p)
  <2>1. Quiet([Idle EXCEPT !.at = "lock", !.section = "rebuild"])
    BY DEF Quiet, Idle, IsJob
  <2> QED
    BY <1>3, <1>9, <2>1 DEF Report
<1>10. CASE Start(p)
  <2>1. ASSUME NEW plan, Become(p, [Idle EXCEPT !.at = "lock", !.section = "start", !.plan = plan])
        PROVE  SoundInv'
    <3> DEFINE j == [Idle EXCEPT !.at = "lock", !.section = "start", !.plan = plan]
    <3>1. j.at = "lock" /\ j.section = "start"
      BY DEF Idle
    <3> QED
      BY <1>4, <2>1, <3>1
  <2>2. CASE Become(p, Idle)
    BY <1>3, <2>2, QuietJobs
  <2> QED
    BY <1>10, <2>1, <2>2 DEF Start
<1> QED
  BY <1>5, <1>6, <1>7, <1>8, <1>9, <1>10

LEMMA ReadHolds ==
    ASSUME Inv, SoundInv, NEW p \in Procs, Read(p)
    PROVE  SoundInv'
<1>1. log' = log /\ session' = session
  BY DEF Read, faults
<1>2. CASE Become(p, Idle)
  BY <1>1, <1>2, QuietJobs, QuietHoldsStep
<1>3. CASE Readable /\ Become(p, [job[p] EXCEPT !.at = "decide", !.view = log.state])
  <2> DEFINE j == [job[p] EXCEPT !.at = "decide", !.view = log.state]
             s == log.state
  <2>1. IsJob(job[p])
    BY DEF Inv, JobFits
  <2>2. j.at = "decide" /\ j.view = s
    BY <2>1 DEF IsJob
  <2> HIDE DEF j
  <2>3. Sound(s, session) /\ Good(s, session)
    BY <1>3 DEF Readable, Inv, SoundInv
  <2>4. Keeps(s, s)
    BY <2>3, SameLessonsKept
  <2>5. JobHolds(j, s, session)
    BY <2>2, <2>3, <2>4 DEF JobHolds
  <2> QED
    BY <1>1, <1>3, <2>5, HoldsStep DEF j
<1> QED
  BY <1>2, <1>3 DEF Read

LEMMA MutateHolds ==
    ASSUME Inv, PaperInv, SoundInv, NEW p \in Procs, Mutate(p)
    PROVE  SoundInv'
<1>1. log' = log /\ session' = session /\ Waits(p, "write")
  BY DEF Mutate
<1>2. CASE Become(p, Idle) \/ Become(p, Follow(job[p]))
  BY <1>1, <1>2, QuietJobs, QuietHoldsStep
<1>3. ASSUME NEW t \in Changed(p), t # log.state, Accepted(p, t),
             Become(p, [job[p] EXCEPT !.at = "event", !.next = Written(t), !.plan = [type |-> @.type]])
      PROVE  SoundInv'
  <2> DEFINE s == log.state
             n == Written(t)
             w == [type |-> job[p].plan.type]
             j == [job[p] EXCEPT !.at = "event", !.next = n, !.plan = w]
  <2>1. JobFits(job[p], s, session) /\ JobHolds(job[p], s, session)
        /\ job[p].section = "write" /\ job[p].at \in {"lock", "stalled"}
    BY <1>1 DEF Inv, SoundInv, Waits, At
  <2>2. Ready(job[p].plan, s, session)
    BY <2>1 DEF JobFits, JobHolds, Ready, Inv, SoundInv, PaperInv
  <2>3. Sound(t, session) /\ Keeps(s, t) /\ Good(t, session)
    <3>1. Good(s, session) /\ PlanFits(job[p].plan, s, session)
      BY <2>2 DEF Ready
    <3> QED
      BY <1>3, <2>2, <3>1, GuardsSuffice, StepGood DEF Changed, Accepted, Passes
  <2>4. Sound(n, session) /\ Keeps(s, n)
    <3>1. /\ n.attempts = t.attempts /\ n.current = t.current /\ n.index = t.index
          /\ n.status = t.status /\ n.lessons = t.lessons
      BY <2>3 DEF Written, Good, Shaped, IsState
    <3> HIDE DEF n
    <3>2. SoundState(n, Len(session.paper))
      BY <2>3, <3>1 DEF Sound, SoundState
    <3> QED
      BY <2>3, <3>1, <3>2 DEF Sound, Keeps
  <2> HIDE DEF n, w
  <2>5. j.at = "event" /\ j.section = "write" /\ j.next = n
    BY <2>1 DEF JobFits, IsJob
  <2>6. Become(p, j)
    BY <1>3 DEF n, w
  <2> HIDE DEF j
  <2>7. JobHolds(j, s, session)
    BY <2>4, <2>5 DEF JobHolds
  <2> QED
    BY <1>1, <2>6, <2>7, HoldsStep
<1> QED
  BY <1>2, <1>3 DEF Mutate

LEMMA MakeSessionHolds ==
    ASSUME Inv, SoundInv, NEW p \in Procs, MakeSession(p)
    PROVE  SoundInv'
<1> DEFINE n == Opened(job[p].plan.body.paper)
           j == [job[p] EXCEPT !.at = "event", !.next = n]
<1>1. log' = log /\ job[p].section = "start" /\ job[p].at \in {"lock", "stalled"} /\ Become(p, j)
  BY DEF MakeSession, Waits, At
<1>2. JobFits(job[p], log.state, session) /\ log.state.version = 0
  BY <1>1 DEF Inv, JobFits
<1> HIDE DEF n
<1>3. j.at = "event" /\ j.section = "start"
  BY <1>1, <1>2 DEF JobFits, IsJob
<1> HIDE DEF j
<1>4. \A q \in Procs : job'[q] = IF q = p THEN j ELSE job[q]
  BY <1>1 DEF Inv, Become
<1>5. ASSUME NEW q \in Procs PROVE JobHolds(job'[q], log.state, session')
  <2>1. JobFits(job[q], log.state, session)
    BY DEF Inv
  <2> QED
    BY <1>2, <1>3, <1>4, <2>1 DEF JobFits, JobHolds
<1> QED
  BY <1>1, <1>2, <1>5 DEF SoundInv

LEMMA PlanKept ==
    ASSUME NEW ses, NEW s, NEW t, IsList(s.lessons), IsList(t.lessons), Keeps(s, t),
           NEW w, PlanHolds(w, s, ses)
    PROVE  PlanHolds(w, t, ses)
<1>1. \A k \in DOMAIN s.lessons : k \in DOMAIN t.lessons
  BY ListFacts DEF Keeps
<1>2. w.type \in LessonTypes \ {"teaching_started"} => w.id \in DOMAIN t.lessons
  BY <1>1 DEF PlanHolds
<1>3. w.type = "teaching_revised" => Holds(t.lessons[w.id].feedback, w.item)
  BY DEF PlanHolds, Keeps, LessonTypes
<1> QED
  BY <1>2, <1>3 DEF PlanHolds

LEMMA KeepsFurther ==
    ASSUME NEW r, NEW s, NEW t, IsList(r.lessons), IsList(s.lessons), IsList(t.lessons),
           Keeps(r, s), Keeps(s, t)
    PROVE  Keeps(r, t)
<1>1. \A k \in DOMAIN r.lessons : k \in DOMAIN s.lessons
  BY ListFacts DEF Keeps
<1>2. Len(r.lessons) <= Len(t.lessons)
  BY ListFacts DEF Keeps
<1> QED
  BY <1>1, <1>2 DEF Keeps

LEMMA OpenedSound ==
    ASSUME NEW ses, PaperOk(ses)
    PROVE  Sound(Opened(ses.paper), ses)
<1> DEFINE s == Opened(ses.paper)
<1>1. s.status = "question_open" /\ s.index = 1 /\ s.current = ses.paper[1] /\ s.attempts = <<>> /\ s.lessons = <<>>
  BY DEF Opened
<1> HIDE DEF s
<1>2. /\ DOMAIN s.attempts = {} /\ ToSet(s.attempts) = {}
      /\ DOMAIN s.lessons = {} /\ ToSet(s.lessons) = {}
  BY <1>1 DEF ToSet
<1>3. s.current # 0 /\ s.index <= Len(ses.paper)
  BY <1>1, BankAssumption DEF PaperOk
<1>4. Cardinality({k \in DOMAIN s.lessons : s.lessons[k].open}) <= 1
  <2>1. {k \in DOMAIN s.lessons : s.lessons[k].open} = {}
    BY <1>2
  <2> QED
    BY <2>1, FS_EmptySet
<1>5. SoundState(s, Len(ses.paper))
  BY <1>1, <1>2, <1>3, <1>4 DEF SoundState, Distinct
<1> QED
  BY <1>2, <1>5 DEF Sound, s

LEMMA WriteEventHolds ==
    ASSUME Inv, PaperInv, SoundInv, NEW p \in Procs, WriteEvent(p)
    PROVE  SoundInv'
<1> DEFINE s == log.state
           n == job[p].next
           w == [version |-> n.version]
           j == [job[p] EXCEPT !.at = "state", !.next = w]
<1>1. /\ session' = session /\ dead' = dead /\ job[p].at = "event" /\ Become(p, j)
      /\ log' = IF n.version = s.version + 1 THEN [log EXCEPT !.state = n] ELSE [log EXCEPT !.broken = TRUE]
  BY DEF WriteEvent, At, faults
<1>2. JobFits(job[p], s, session) /\ JobHolds(job[p], s, session) /\ s.version \in Nat
      /\ log \in [state : {s}, broken : {log.broken}]
  BY DEF Inv, SoundInv
<1> HIDE DEF w
<1>3. j.at = "state"
  BY <1>2 DEF JobFits, IsJob
<1> HIDE DEF j
<1>4. \A q \in Procs : job'[q] = IF q = p THEN j ELSE job[q]
  BY <1>1 DEF Inv, Become
<1>5. \A t : JobHolds(j, t, session)
  BY <1>3 DEF JobHolds
<1>6. CASE n.version # s.version + 1
  <2>1. log'.state = s
    BY <1>1, <1>2, <1>6
  <2> QED
    BY <1>1, <1>4, <1>5, <2>1 DEF SoundInv
<1>7. CASE n.version = s.version + 1
  <2>1. log'.state = n
    BY <1>1, <1>2, <1>7
  <2>2. Sound(n, session) /\ (s.version > 0 => Keeps(s, n))
    <3>1. CASE job[p].section = "start"
      <4>1. n = Opened(session.paper) /\ s.version = 0 /\ PaperOk(session)
        BY <1>1, <1>2, <3>1 DEF JobFits, PaperInv
      <4> QED
        BY <4>1, OpenedSound
    <3>2. CASE job[p].section # "start"
      BY <1>1, <1>2, <1>7, <3>2 DEF JobHolds
    <3> QED
      BY <3>1, <3>2
  <2>3. ASSUME NEW q \in Procs, q # p PROVE JobHolds(job[q], n, session)
    <3>1. JobFits(job[q], s, session) /\ JobHolds(job[q], s, session)
      BY DEF Inv, SoundInv
    <3>2. CASE s.version = 0
      <4>1. job[p].section = "start"
        BY <1>1, <1>2, <3>2 DEF JobFits
      <4>2. job[q].section # "start"
        BY <4>1, <2>3 DEF Inv
      <4> QED
        BY <3>1, <3>2, <4>2 DEF JobFits, JobHolds
    <3>3. CASE s.version > 0
      <4>1. IsList(s.lessons) /\ Keeps(s, n)
        BY <2>2, <3>3 DEF Inv, Good, LessonsFit
      <4>2. IsList(n.lessons)
        BY <1>1, <1>2, <1>7, <3>3 DEF JobFits, Goes, Good, LessonsFit
      <4>3. job[q].at = "decide" => Keeps(job[q].view, n)
        BY <3>1, <4>1, <4>2, KeepsFurther DEF JobFits, JobHolds, Good, LessonsFit
      <4>4. job[q].at \in {"lock", "stalled", "steal"} /\ job[q].section = "write" => PlanHolds(job[q].plan, n, session)
        BY <3>1, <4>1, <4>2, PlanKept DEF JobHolds
      <4>5. job[q].at = "event" => job[q].next.version # n.version + 1
        BY <3>1, <3>3, <1>2, <1>7 DEF JobFits, Goes
      <4> QED
        BY <3>1, <4>3, <4>4, <4>5 DEF JobHolds
    <3> QED
      BY <3>2, <3>3, <1>2
  <2>4. \A q \in Procs : JobHolds(job'[q], n, session)
    BY <1>4, <1>5, <2>3
  <2> QED
    BY <1>1, <2>1, <2>2, <2>4 DEF SoundInv
<1> QED
  BY <1>6, <1>7

\* A change that the guards let through, whatever happened to the session between the read and the
\* lock, is one the checks of mutate accept: they refuse nothing, but for a pending that the next
\* question has overtaken (apply_* in mutate, validate_event_transition, xsync.py).
THEOREM GuardedWritesAreLegal ==
    ASSUME PapersAreSound
    PROVE  Spec => []WritesAreLegal
<1>1. Init => SoundInv
  <2> SUFFICES ASSUME Init PROVE SoundInv
    OBVIOUS
  <2>1. \A p \in Procs : job[p] = Idle
    BY DEF Init
  <2>2. \A p \in Procs : JobHolds(job[p], log.state, session)
    BY <2>1, QuietJobs, QuietHolds
  <2>3. log.state.version = 0
    BY DEF Init, NoState
  <2> QED
    BY <2>2, <2>3 DEF SoundInv
<1>2. Inv /\ PaperInv /\ SoundInv /\ [Next]_vars => SoundInv'
  <2> SUFFICES ASSUME Inv, PaperInv, SoundInv, [Next]_vars PROVE SoundInv'
    OBVIOUS
  <2>1. ASSUME NEW p \in Procs,
               \/ Stall(p) \/ LookAtLock(p) \/ Steal(p) \/ GiveUp(p)
               \/ Read(p) \/ Mutate(p) \/ MakeSession(p) \/ WriteEvent(p) \/ WriteState(p)
               \/ WriteActive(p) \/ Rebuild(p) \/ Begin(p) \/ Start(p) \/ Report(p) \/ Die(p)
        PROVE  SoundInv'
    BY <2>1, OtherStepsHold, ReadHolds, MutateHolds, MakeSessionHolds, WriteEventHolds
  <2>2. ASSUME NEW p \in Procs,
               \/ Answer(p) \/ Dispatch(p) \/ Pend(p) \/ Review(p) \/ Continue(p)
               \/ Teach(p) \/ Feedback(p) \/ Revise(p) \/ Complete(p)
        PROVE  SoundInv'
    BY <2>2, AnswerHolds, DispatchHolds, PendHolds, ReviewHolds, ContinueHolds, TeachingHolds
  <2>3. CASE ChangeEvidence
    BY <2>3 DEF ChangeEvidence, files, SoundInv
  <2>4. CASE UNCHANGED vars
    BY <2>4 DEF vars, files, SoundInv
  <2> QED
    BY <2>1, <2>2, <2>3, <2>4 DEF Next
<1>3. Inv /\ PaperInv /\ SoundInv => WritesAreLegal
  <2> SUFFICES ASSUME Inv, PaperInv, SoundInv, NEW p \in Procs,
                      Waits(p, "write"), Readable, job[p].plan.type # "grading_started",
                      NEW t \in Changed(p), t # log.state
               PROVE  Accepted(p, t)
    BY DEF WritesAreLegal
  <2>1. JobFits(job[p], log.state, session) /\ JobHolds(job[p], log.state, session)
        /\ job[p].section = "write" /\ job[p].at \in {"lock", "stalled"} /\ log.state.version > 0
    BY DEF Inv, SoundInv, Waits, At, Readable
  <2>2. Ready(job[p].plan, log.state, session)
    BY <2>1 DEF JobFits, JobHolds, Ready, Inv, SoundInv, PaperInv
  <2> QED
    BY <2>2, GuardsSuffice DEF Changed, Accepted, Passes
<1> QED
  BY <1>1, <1>2, <1>3, PaperInvAlways, PapersAreSound, AnyNumberOfProcesses, PTL DEF Spec
=============================================================================
