------------------------------- MODULE QuizRules -------------------------------
(***************************************************************************)
(* The legacy quiz (xsync.py) without its files: which questions a session *)
(* asks, the state of a session, the change every command makes to it, the *)
(* checks a change must pass before it is written, and what the learner's  *)
(* mastery record takes from it.                                           *)
(*                                                                         *)
(* An answer is right or wrong when a choice question decides it, and just *)
(* text otherwise.  A score is high from 0.8 on.  An attempt is known by   *)
(* the id its client chose, a lesson and a feedback by their position.     *)
(***************************************************************************)
EXTENDS Integers, Sequences, FiniteSets, FiniteSetsExt, SequencesExt

CONSTANTS
    Bank,           \* questions of the installed bank: kind, domain, depth, needs, styles
    MaxTries        \* max_attempts of a Socratic question; it has MaxTries - 1 probes

Questions == DOMAIN Bank

ASSUME BankAssumption ==
    /\ Questions = 1 .. Len(Bank)
    /\ \A q \in Questions : Bank[q].needs \subseteq Questions /\ Bank[q].depth \in 1 .. 5
    /\ \A q \in Questions : \A r \in Bank[q].needs : Bank[q].styles \subseteq Bank[r].styles
    /\ \A T \in SUBSET Questions : T # {} => \E q \in T : Bank[q].needs \cap T = {}
ASSUME TriesAssumption == MaxTries \in Nat \ {0}

-----------------------------------------------------------------------------
(* The questions of a session. *)

\* The questions that stay when one that lacks a prerequisite is removed, again and again.
Standing(S) == UNION {T \in SUBSET S : \A q \in T : Bank[q].needs \subseteq T}

\* A question and everything it needs, in S.
Needed(q, S) ==
    {r \in S : \A T \in SUBSET S : q \in T /\ Standing(T) = T => r \in T}

\* What the mastery record says of a question decides when it is asked.
Groups == [due |-> 0, learning |-> 1, new |-> 2, reviewing |-> 3, stable |-> 4]

Sooner(q, r, stage) ==
    LET g == Groups[stage[q]] h == Groups[stage[r]] IN
    \/ g < h
    \/ g = h /\ Bank[q].depth < Bank[r].depth
    \/ g = h /\ Bank[q].depth = Bank[r].depth /\ q <= r

\* Prerequisites first, then by urgency, depth and place in the bank.
Prioritized(S, stage) ==
    LET Order[T \in SUBSET S] ==
          IF T = {} THEN <<>>
          ELSE LET ready == {q \in T : Bank[q].needs \cap T = {}}
                   first == CHOOSE q \in ready : \A r \in ready : Sooner(q, r, stage)
               IN <<first>> \o Order[T \ {first}]
    IN  Order[S]

\* Of two sets of places, the one whose later domain is asked first, then the smaller one,
\* then the one with the earlier places.
Tighter(x, y) ==
    \/ x.last < y.last
    \/ x.last = y.last /\ Cardinality(x.places) < Cardinality(y.places)
    \/ /\ x.last = y.last /\ Cardinality(x.places) = Cardinality(y.places)
       /\ x.places # y.places
       /\ Min((x.places \ y.places) \cup (y.places \ x.places)) \in x.places

\* Mutant: two questions, without what they need.
MixesAlone(order, count) ==
    LET S == ToSet(order)
        at(q) == CHOOSE i \in DOMAIN order : order[i] = q
        pairs == {p \in S \X S : Bank[p[1]].domain = "business" /\ Bank[p[2]].domain = "technical"}
    IN  {[last |-> Max({at(p[1]), at(p[2])}), places |-> {at(p[1]), at(p[2])}] : p \in pairs}

\* Sets of questions that cover both domains and need nothing outside themselves.
Mixes(order, count) ==
    LET S == ToSet(order)
        at(q) == CHOOSE i \in DOMAIN order : order[i] = q
        pairs == {p \in S \X S : Bank[p[1]].domain = "business" /\ Bank[p[2]].domain = "technical"}
    IN  {m \in {[last |-> Max({at(p[1]), at(p[2])}),
                 places |-> {at(q) : q \in Needed(p[1], S) \cup Needed(p[2], S)}] : p \in pairs} :
            Cardinality(m.places) <= count}

\* The set grows to count questions, each with its prerequisites.
Filled(order, count, places) ==
    LET Fill[n \in 0 .. count] ==
          IF n = 0 THEN places
          ELSE LET open == {i \in DOMAIN order \ Fill[n - 1] :
                     Bank[order[i]].needs \subseteq {order[j] : j \in Fill[n - 1]}}
               IN IF Cardinality(Fill[n - 1]) < count /\ open # {}
                  THEN Fill[n - 1] \cup {Min(open)} ELSE Fill[n - 1]
    IN  Fill[count]

\* <<>> when the command refuses: too few questions, or no mix of the two domains.
Selected(order, count, focus) ==
    IF Len(order) < count THEN <<>>
    ELSE IF focus # "mixed" THEN SubSeq(order, 1, count)
    ELSE LET mixes == Mixes(order, count) IN
         IF mixes = {} THEN <<>>
         ELSE LET best == CHOOSE m \in mixes : \A o \in mixes : ~ Tighter(o, m)
                  kept == Filled(order, count, best.places)
              IN SelectSeq(order, LAMBDA q : \E i \in kept : order[i] = q)

\* start_session: the active questions of a style and a focus, without the stale and the
\* disputed ones and what needs them.
PaperOf(style, focus, count, stale, stage) ==
    LET asked == {q \in Questions : style \in Bank[q].styles /\ focus \in {"mixed", Bank[q].domain}}
        fresh == Standing(asked \ stale)
        known == Standing({q \in fresh : stage[q] # "disputed"})
    IN  Selected(Prioritized(known, stage), count, focus)

-----------------------------------------------------------------------------
(* The state of a session. *)

NoReview == [status |-> "none", outcome |-> "none", score |-> "none", unaided |-> FALSE, hint |-> 0]

StaleReview(a) == [NoReview EXCEPT !.status = "stale", !.hint = a.hint]
AutoReview(a) ==
    LET right == a.answer = "right" IN
    [status |-> "graded", outcome |-> IF right THEN "mastered" ELSE "exhausted",
     score |-> IF right THEN "high" ELSE "low", unaided |-> right /\ a.hint = 0, hint |-> a.hint]

Opened(paper) == [version |-> 1, status |-> "question_open", index |-> 1, current |-> paper[1],
                  attempts |-> <<>>, lessons |-> <<>>, keys |-> {}]

Answers(q) == IF Bank[q].kind = "choice" THEN {"right", "wrong"} ELSE {"text"}

\* Attempts and feedback are known by their id.
Holds(items, id) == \E i \in DOMAIN items : items[i].id = id
Place(items, id) == CHOOSE i \in DOMAIN items : items[i].id = id
Item(items, id) == items[Place(items, id)]

Unreviewed(a) == a.review = NoReview
TriesOf(s, q) == {i \in DOMAIN s.attempts : s.attempts[i].question = q}
\* The last attempt at a question, or 0.
LastTry(s, q) == IF TriesOf(s, q) = {} THEN 0 ELSE s.attempts[Max(TriesOf(s, q))].id

Pending(l) == {f \in ToSet(l.feedback) : f.applied = 0}
NewLesson(q) == [question |-> q, open |-> TRUE, revisions |-> 1, feedback |-> <<>>]
LessonsOf(s, q) == {k \in DOMAIN s.lessons : s.lessons[k].question = q}
\* The open lesson of a question, or 0.
ActiveLesson(s, q) ==
    LET open == {k \in LessonsOf(s, q) : s.lessons[k].open}
    IN  IF open = {} THEN 0 ELSE Max(open)
HintLevel(s, q) == IF LessonsOf(s, q) = {} THEN 0 ELSE 4

-----------------------------------------------------------------------------
(* The change a command makes, prepared outside the lock: w names the event, the question, *)
(* the attempt or lesson, the feedback, the payload, and the version the client expects.   *)
(* It is applied to the state found under the lock, which may be a later one: {} refuses,  *)
(* {s} finds it already done.                                                              *)

Expected(w, s) == w.expect \in {0, s.version}
Here(w, s) == s.current = w.question
With(s, w, review, auto, status) ==
    LET i == Place(s.attempts, w.id)
    IN  [s EXCEPT !.attempts[i].review = review, !.attempts[i].auto = auto, !.status = status]

\* Mutant: the status of the session is not looked at again under the lock.
IntoAnswerUnguarded(w, s) ==
    IF Holds(s.attempts, w.id)
    THEN {t \in {s} : Item(s.attempts, w.id).answer = w.body.answer}
    ELSE {t \in {[s EXCEPT !.attempts = Append(@, w.body), !.status = "answer_saved"]} :
             Expected(w, s) /\ Here(w, s)}

IntoAnswer(w, s) ==
    IF Holds(s.attempts, w.id)
    THEN {t \in {s} : Item(s.attempts, w.id).answer = w.body.answer}
    ELSE {t \in {[s EXCEPT !.attempts = Append(@, w.body), !.status = "answer_saved"]} :
             Expected(w, s) /\ s.status = "question_open" /\ Here(w, s)}

IntoStale(w, s) ==
    LET a == Item(s.attempts, w.id) IN
    IF a.review.status = "stale" THEN {t \in {s} : Here(w, s)}
    ELSE {t \in {With(s, w, w.body, "none", "reviewed")} : Here(w, s) /\ Unreviewed(a)}

IntoAuto(w, s) ==
    LET a == Item(s.attempts, w.id) IN
    IF ~ Unreviewed(a) THEN {s}
    ELSE {t \in {With(s, w, w.body, a.answer, "reviewed")} : s.status = "answer_saved"}

IntoGrading(w, s) ==
    IF s.status = "agent_review_pending" THEN {s}
    ELSE {t \in {[s EXCEPT !.status = "agent_review_pending"]} : s.status = "answer_saved"}

IntoReview(w, s) ==
    LET a == Item(s.attempts, w.id) IN
    {t \in {IF Unreviewed(a) THEN With(s, w, w.body, a.auto, "reviewed") ELSE s} :
        s.status = "agent_review_pending" /\ Here(w, s)}

IntoLesson(w, s) ==
    IF ActiveLesson(s, w.question) # 0 THEN {s}
    ELSE {t \in {[s EXCEPT !.lessons = Append(@, NewLesson(w.question)), !.status = "teaching_open"]} :
             Expected(w, s) /\ s.status = "question_open" /\ Here(w, s)}

IntoFeedback(w, s) ==
    LET l == s.lessons[w.id] IN
    IF l.open /\ Holds(l.feedback, w.item)
    THEN {t \in {s} : Item(l.feedback, w.item).base = w.body}
    ELSE {t \in {[s EXCEPT !.lessons[w.id].feedback = Append(@, [id |-> w.item, base |-> w.body, applied |-> 0]),
                           !.status = "teaching_feedback_saved"]} :
             /\ l.open /\ Expected(w, s) /\ s.status = "teaching_open" /\ Here(w, s)
             /\ l.revisions = w.body /\ Pending(l) = {}}

IntoRevision(w, s) ==
    LET l == s.lessons[w.id]
        i == Place(l.feedback, w.item) IN
    {t \in {[s EXCEPT !.lessons[w.id].feedback[i].applied = w.body + 1,
                      !.lessons[w.id].revisions = w.body + 1, !.status = "teaching_open"]} :
        /\ s.status = "teaching_feedback_saved" /\ Here(w, s) /\ l.open
        /\ l.feedback[i] \in Pending(l) /\ l.feedback[i].base = w.body /\ l.revisions = w.body}

Closed(w, s) == [s EXCEPT !.lessons[w.id].open = FALSE, !.status = "question_open"]

IntoCompletion(w, s) ==
    IF ~ s.lessons[w.id].open THEN {s}
    ELSE {t \in {Closed(w, s)} : /\ Expected(w, s) /\ s.status = "teaching_open" /\ Here(w, s)
                                 /\ Pending(s.lessons[w.id]) = {}}

IntoInvalidation(w, s) ==
    IF ~ s.lessons[w.id].open THEN {s}
    ELSE {t \in {Closed(w, s)} :
             s.status \in {"teaching_open", "teaching_feedback_saved"} /\ Here(w, s)}

\* w.body is the next question, 0 behind the last one; a probe asks the same one again.
IntoContinuation(w, s) ==
    LET used == [s EXCEPT !.keys = @ \cup {w.id}, !.status = "question_open"]
        next == [used EXCEPT !.index = @ + 1, !.current = w.body,
                             !.status = IF w.body = 0 THEN "completed" ELSE "question_open"]
    IN  IF w.id \in s.keys THEN {s}
        ELSE {t \in {IF w.type = "socratic_turn" THEN used ELSE next} :
                 s.status = "reviewed" /\ Here(w, s) /\ LastTry(s, w.question) = w.id}

Into(w, s) ==
    CASE w.type = "answer_submitted" -> IntoAnswer(w, s)
      [] w.type = "answer_reviewed" /\ w.item = "stale" -> IntoStale(w, s)
      [] w.type = "answer_reviewed" /\ w.item = "auto" -> IntoAuto(w, s)
      [] w.type = "answer_reviewed" /\ w.item = "agent" -> IntoReview(w, s)
      [] w.type = "grading_started" -> IntoGrading(w, s)
      [] w.type = "teaching_started" -> IntoLesson(w, s)
      [] w.type = "teaching_feedback_submitted" -> IntoFeedback(w, s)
      [] w.type = "teaching_revised" -> IntoRevision(w, s)
      [] w.type = "teaching_completed" -> IntoCompletion(w, s)
      [] w.type = "teaching_invalidated" -> IntoInvalidation(w, s)
      [] w.type \in {"question_presented", "socratic_turn", "session_ended"} -> IntoContinuation(w, s)

-----------------------------------------------------------------------------
(* What an event must be before mutate writes it and when a chain is read again. *)

Distinct(items) == \A i, j \in DOMAIN items : items[i].id = items[j].id => i = j

\* validate_review: the score, the outcome and the status of a review agree.
SoundReview(r) ==
    /\ r.status = "graded" <=> r.score # "none"
    /\ r.status = "graded" => r.outcome \in {"mastered", "probe", "exhausted"}
    /\ r.status = "unscored" => r.outcome \in {"none", "probe"}
    /\ r.status = "disputed" <=> r.outcome = "disputed"
    /\ r.status = "stale" => r.outcome = "none"
    /\ r.outcome = "mastered" => r.score = "high"
    /\ r.outcome = "exhausted" => r.score # "high"
    /\ r.unaided => r.hint = 0 /\ r.score = "high"

\* validate_lesson_record: feedback is written for a revision and applied by a later one.
SoundLesson(l) ==
    /\ Distinct(l.feedback) /\ Cardinality(Pending(l)) <= 1
    /\ \A f \in ToSet(l.feedback) :
          /\ f.base \in 1 .. l.revisions
          /\ f.applied = 0 \/ f.applied \in f.base + 1 .. l.revisions

\* validate_materialized_state, of a session of so many questions.
SoundState(s, total) ==
    LET active == {l \in ToSet(s.lessons) : l.open} IN
    /\ IF s.status = "completed" THEN s.current = 0 /\ s.index = total + 1
                                 ELSE s.current # 0 /\ s.index <= total
    /\ \A l \in ToSet(s.lessons) : SoundLesson(l)
    /\ Cardinality({k \in DOMAIN s.lessons : s.lessons[k].open}) <= 1
    /\ IF s.status \in {"teaching_open", "teaching_feedback_saved"}
       THEN \E l \in active : /\ l.question = s.current
                              /\ Pending(l) = {} <=> s.status = "teaching_open"
       ELSE active = {}
    /\ Distinct(s.attempts)
    /\ \A a \in ToSet(s.attempts) : Unreviewed(a) \/ SoundReview(a.review)

\* The fields of a state that an event of some type may change.
MayChange(type) ==
    CASE type \in {"answer_submitted", "answer_reviewed"} -> {"status", "attempts"}
      [] type = "grading_started" -> {"status"}
      [] type \in {"teaching_started", "teaching_feedback_submitted", "teaching_revised",
                   "teaching_completed", "teaching_invalidated"} -> {"status", "lessons"}
      [] type = "socratic_turn" -> {"status", "keys"}
      [] OTHER -> {"status", "keys", "index", "current"}

\* The statuses it may come from, and the one it leads to.
ComesFrom == [
    answer_submitted |-> {"question_open"}, grading_started |-> {"answer_saved"},
    answer_reviewed |-> {"answer_saved", "agent_review_pending"},
    teaching_started |-> {"question_open"}, teaching_feedback_submitted |-> {"teaching_open"},
    teaching_revised |-> {"teaching_feedback_saved"}, teaching_completed |-> {"teaching_open"},
    teaching_invalidated |-> {"teaching_open", "teaching_feedback_saved"},
    question_presented |-> {"reviewed"}, socratic_turn |-> {"reviewed"}, session_ended |-> {"reviewed"}]
LeadsTo == [
    answer_submitted |-> "answer_saved", grading_started |-> "agent_review_pending",
    answer_reviewed |-> "reviewed",
    teaching_started |-> "teaching_open", teaching_feedback_submitted |-> "teaching_feedback_saved",
    teaching_revised |-> "teaching_open", teaching_completed |-> "question_open",
    teaching_invalidated |-> "question_open",
    question_presented |-> "question_open", socratic_turn |-> "question_open",
    session_ended |-> "completed"]

\* One attempt more, and that one unreviewed and for the current question.
AddsAttempt(w, s, t) ==
    /\ Len(t.attempts) = Len(s.attempts) + 1 /\ Front(t.attempts) = s.attempts
    /\ Last(t.attempts) = w.body /\ Unreviewed(w.body) /\ w.body.question = s.current

\* One attempt reviewed as the event says; only a stale review may take its result back.
AddsReview(w, s, t) ==
    /\ DOMAIN t.attempts = DOMAIN s.attempts /\ Holds(s.attempts, w.id)
    /\ LET i == Place(s.attempts, w.id)
           old == IF w.body.status = "stale" THEN [s.attempts[i] EXCEPT !.auto = "none"] ELSE s.attempts[i]
           new == IF w.body.status = "stale" THEN [t.attempts[i] EXCEPT !.auto = "none"] ELSE t.attempts[i]
       IN  Unreviewed(old) /\ new = [old EXCEPT !.review = w.body]
    /\ \A j \in DOMAIN s.attempts : s.attempts[j].id # w.id => t.attempts[j] = s.attempts[j]

ChangesLesson(w, s, t) ==
    LET l == s.lessons[w.id] IN
    CASE w.type = "teaching_started" ->
            t.lessons = Append(s.lessons, NewLesson(w.question)) /\ w.question = s.current
      [] w.type = "teaching_feedback_submitted" ->
            /\ t.lessons = [s.lessons EXCEPT ![w.id].feedback =
                               Append(@, [id |-> w.item, base |-> w.body, applied |-> 0])]
            /\ l.open /\ w.body = l.revisions
      [] w.type = "teaching_revised" ->
            /\ l.open /\ Holds(l.feedback, w.item) /\ Item(l.feedback, w.item).applied = 0
            /\ t.lessons = [s.lessons EXCEPT ![w.id].revisions = @ + 1,
                               ![w.id].feedback[Place(l.feedback, w.item)].applied = w.body + 1]
            /\ w.body + 1 = l.revisions + 1
      [] w.type = "teaching_completed" ->
            t.lessons = [s.lessons EXCEPT ![w.id].open = FALSE] /\ Pending(l) = {}
      [] w.type = "teaching_invalidated" ->
            t.lessons = [s.lessons EXCEPT ![w.id].open = FALSE] /\ l.question = s.current

\* The key of the last attempt is consumed, once.
ConsumesKey(w, s, t) ==
    w.id = LastTry(s, s.current) /\ w.id \notin s.keys /\ t.keys = s.keys \cup {w.id}

Moves(w, s, t) ==
    CASE w.type = "answer_submitted" -> AddsAttempt(w, s, t)
      [] w.type = "answer_reviewed" -> AddsReview(w, s, t)
      [] w.type = "grading_started" ->
            /\ Holds(s.attempts, w.id) /\ Unreviewed(Item(s.attempts, w.id))
            /\ Item(s.attempts, w.id).question = s.current
      [] w.type = "socratic_turn" -> ConsumesKey(w, s, t)
      [] w.type = "question_presented" ->
            ConsumesKey(w, s, t) /\ t.index = s.index + 1 /\ t.current = w.body
      [] w.type = "session_ended" ->
            ConsumesKey(w, s, t) /\ t.index = s.index + 1 /\ t.current = 0
      [] OTHER -> ChangesLesson(w, s, t)

\* validate_event_transition
Legal(w, s, t, total) ==
    /\ SoundState(t, total)
    /\ \A f \in DOMAIN s \ (MayChange(w.type) \cup {"version"}) : t[f] = s[f]
    /\ s.status \in ComesFrom[w.type] /\ t.status = LeadsTo[w.type]
    /\ Moves(w, s, t)

\* validate_state_against_bank: the state belongs to the questions of its session.
Fits(s, paper, style) ==
    /\ s.current = IF s.index <= Len(paper) THEN paper[s.index] ELSE 0
    /\ \A a \in ToSet(s.attempts) :
          /\ a.question \in ToSet(paper)
          /\ a.auto # "none" => /\ Bank[a.question].kind = "choice" /\ style = "regular"
                               /\ a.auto = a.answer
          /\ ~ Unreviewed(a) =>
                /\ a.review.hint >= a.hint /\ (a.hint > 0 => ~ a.review.unaided)
                /\ a.auto # "none" => /\ a.review.status = "graded"
                                     /\ a.review.outcome = IF a.auto = "right" THEN "mastered" ELSE "exhausted"
    /\ \A l \in ToSet(s.lessons) : l.question \in ToSet(paper)

-----------------------------------------------------------------------------
(* What the mastery record takes from a session. *)

\* attempt_grade: the result of an attempt, or "none".
Result(a, style) ==
    LET r == a.review
        unaided == r.unaided \/ (style = "regular" /\ r.outcome = "mastered" /\ r.hint = 0) IN
    CASE r.status \in {"stale", "disputed"} -> r.status
      [] r.status = "graded" /\ r.score = "high" -> IF unaided THEN "unaided_correct" ELSE "aided_correct"
      [] r.status = "graded" /\ r.score = "low" -> "incorrect"
      [] r.status = "none" /\ a.auto = "right" -> "unaided_correct"
      [] r.status = "none" /\ a.auto = "wrong" -> "incorrect"
      [] OTHER -> "none"

\* rebuild_mastery: the history it writes.
Observed(s, style) ==
    {o \in {[attempt |-> a.id, question |-> a.question, result |-> Result(a, style)] : a \in ToSet(s.attempts)} :
        o.result # "none"}

\* The reviews an agent can write of an answer.  It may name a higher hint than the answer's, which
\* only takes "unaided" away: that is among the choices here already.
AgentReviews(a, style) ==
    {r \in [status : {"graded", "unscored", "disputed"}, outcome : {"mastered", "probe", "exhausted", "disputed"},
            score : {"none", "high", "low"}, unaided : BOOLEAN, hint : {a.hint}] :
        /\ SoundReview(r) /\ (a.hint > 0 => ~ r.unaided)
        /\ r.outcome \in {"mastered", "exhausted"} => r.status = "graded"
        /\ r.status = "unscored" => Bank[a.question].kind = "choice"
        /\ r.outcome = "probe" => style = "socratic"}
=============================================================================
