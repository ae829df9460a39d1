---------------------------------- MODULE Quiz ----------------------------------
(***************************************************************************)
(* The legacy quiz (xsync.py): one learner's session, and the processes of *)
(* the commands that work on it: the terminal, the browser page's server,  *)
(* the host agent.                                                         *)
(*                                                                         *)
(* A command reads the session under the project lock, decides outside it  *)
(* (the evidence is checked there), and takes the lock again to write: the *)
(* change is prepared for the state it read and applied to the one it then *)
(* finds.  An event file is written first, state.json after it; a reader   *)
(* that finds state.json behind the events repairs it.  A review is        *)
(* followed by a rebuild of the mastery record, under the lock a third     *)
(* time.  A process may die at any step.                                   *)
(*                                                                         *)
(* The lock is a directory with an owner.json, made one after the other.   *)
(* A waiter that sees a dead owner, or none for thirty seconds, moves the  *)
(* directory away, whatever it holds by then.                              *)
(***************************************************************************)
EXTENDS QuizRules

CONSTANTS
    Procs, Nobody, Unnamed,
    Slow,                       \* sections whose process may be held up before it names its lock
    Requests,                   \* what start may be asked for: style, focus and count
    Histories,                  \* stages the learner's earlier sessions may have left
    AttemptIds, FeedbackIds,    \* bounds: ids the clients choose
    MaxEvents,                  \* bound: no command that writes begins after so many events
    MaxLessons, MaxChanges,     \* bounds: lessons, and changes of the repository
    MaxDeaths                   \* bound: processes that die

ASSUME ProcAssumption == Nobody \notin Procs /\ Unnamed \notin Procs \cup {Nobody}
ASSUME BoundAssumption == {MaxEvents, MaxLessons, MaxChanges, MaxDeaths} \subseteq Nat

VARIABLES
    lock,           \* the lock directory: the owner in its owner.json, Unnamed, or Nobody
    dead,
    robbed,         \* was a lock moved away from a live process? No step depends on it.
    job,            \* the command each process runs
    session,        \* config.json and bank.json of the session: its style and its questions
    log,            \* the event chain: the state after its last event; is it broken?
    file,           \* version of state.json, 0 when there is none
    active,         \* does active.json name the session?
    mastery,        \* the history in mastery.json; profile.json repeats its count
    stale, changes  \* questions whose evidence no longer matches the repository

files == <<session, log, file, active, mastery>>
faults == <<dead, robbed>>
vars == <<lock, faults, job, files, stale, changes>>

-----------------------------------------------------------------------------
NoState == [version |-> 0]
Styles == {"regular", "socratic"}
NoPlan == [type |-> "none"]
NoSession == [style |-> "none", paper |-> <<>>]

\* at: where the process is; section: what it takes the lock for; op: the command;
\* then: the command it goes back to when a saved answer is dispatched.
Idle == [at |-> "idle", section |-> "none", op |-> "none", then |-> "none", expect |-> 0,
         view |-> NoState, plan |-> NoPlan, next |-> NoState]

Init ==
    /\ lock = Nobody /\ dead = {} /\ robbed = FALSE
    /\ job = [p \in Procs |-> Idle]
    /\ session = NoSession /\ log = [state |-> NoState, broken |-> FALSE]
    /\ file = 0 /\ active = FALSE /\ mastery = {}
    /\ stale = {} /\ changes = 0

At(p, at) == p \notin dead /\ job[p].at = at
Become(p, j) == job' = [job EXCEPT ![p] = j]
GoTo(p, at) == Become(p, [job[p] EXCEPT !.at = at])
\* finally: rmtree of the directory, whoever holds it.
Unlock == lock' = Nobody

Reading(op, then, expect) ==
    [Idle EXCEPT !.at = "lock", !.section = "read", !.op = op, !.then = then, !.expect = expect]
Return(j) == IF j.then = "none" THEN Idle ELSE Reading(j.then, "none", 0)

-----------------------------------------------------------------------------
(* The lock *)

Waits(p, section) == (At(p, "lock") \/ At(p, "stalled")) /\ job[p].section = section
\* Mutant: the directory may be there already (exist_ok).
EntersAnyway(p) == At(p, "lock") \/ At(p, "stalled")
\* Makes the directory and names its owner; one that stalled between them has made it already.
MayEnter(p) == lock = Nobody \/ At(p, "stalled")

\* Thirty seconds pass after mkdir before owner.json is there; a shorter pause shows nothing.
Stall(p) ==
    /\ job[p].section \in Slow /\ At(p, "lock") /\ lock = Nobody
    /\ lock' = Unnamed /\ GoTo(p, "stalled") /\ UNCHANGED <<faults, files, stale, changes>>

Abandoned == lock \in dead \cup {Unnamed}

\* The owner's pid is dead, or nobody has written owner.json for thirty seconds.
LookAtLock(p) ==
    /\ At(p, "lock") /\ Abandoned
    /\ GoTo(p, "steal") /\ UNCHANGED <<lock, faults, files, stale, changes>>

\* What is moved away is what is there by now, not what was looked at.
Steal(p) ==
    /\ At(p, "steal") /\ lock' = Nobody /\ GoTo(p, "lock")
    /\ robbed' = (robbed \/ lock \in Procs \ dead
                         \/ (lock = Unnamed /\ \E q \in Procs : At(q, "stalled")))
    /\ UNCHANGED <<dead, files, stale, changes>>

\* Five seconds have passed.
GiveUp(p) ==
    /\ At(p, "lock") /\ lock \notin dead \cup {Nobody}
    /\ Become(p, Idle) /\ UNCHANGED <<lock, faults, files, stale, changes>>

-----------------------------------------------------------------------------
(* Sections under the lock.  One that writes a single file is a step; one that writes *)
(* several takes the lock with its first read and drops it with the last file.        *)

Readable == log.state.version > 0 /\ ~ log.broken /\ file <= log.state.version
Repaired == IF Readable THEN log.state.version ELSE file

\* session_data; a state that does not fit its bank is refused.
Read(p) ==
    /\ Waits(p, "read") /\ MayEnter(p) /\ Unlock /\ file' = Repaired
    /\ Become(p, IF Readable /\ Fits(log.state, session.paper, session.style)
                 THEN [job[p] EXCEPT !.at = "decide", !.view = log.state] ELSE Idle)
    /\ UNCHANGED <<faults, session, log, active, mastery, stale, changes>>

Changed(p) == Into(job[p].plan, log.state)
Written(t) == [t EXCEPT !.version = log.state.version + 1]
Accepted(p, t) == Legal(job[p].plan, log.state, t, Len(session.paper))

\* What follows a write: a saved answer is dispatched, a review enters the mastery record.
Follow(j) ==
    CASE j.plan.type = "answer_submitted" -> Reading("dispatch", "none", 0)
      [] j.plan.type = "answer_reviewed" -> [Idle EXCEPT !.at = "lock", !.section = "rebuild", !.then = j.then]
      [] OTHER -> Return(j)

\* mutate, up to the event file.
Mutate(p) ==
    /\ Waits(p, "write") /\ MayEnter(p) /\ file' = Repaired
    /\ IF ~ Readable \/ Changed(p) = {}
       THEN Become(p, Idle) /\ Unlock
       ELSE \E t \in Changed(p) :
              IF t = log.state THEN Become(p, Follow(job[p])) /\ Unlock
              ELSE IF Accepted(p, t)
                   THEN lock' = p /\ Become(p, [job[p] EXCEPT !.at = "event", !.next = Written(t),
                                                                  !.plan = [type |-> @.type]])
                   ELSE Become(p, Idle) /\ Unlock
    /\ UNCHANGED <<faults, session, log, active, mastery, stale, changes>>

\* start_session makes the directory with config.json and bank.json.
MakeSession(p) ==
    /\ Waits(p, "start") /\ MayEnter(p) /\ lock' = p
    /\ session' = job[p].plan.body
    /\ Become(p, [job[p] EXCEPT !.at = "event", !.next = Opened(job[p].plan.body.paper)])
    /\ UNCHANGED <<faults, log, file, active, mastery, stale, changes>>

\* The sequence number was chosen when the chain was read: a second writer repeats it.
WriteEvent(p) ==
    /\ At(p, "event")
    /\ Become(p, [job[p] EXCEPT !.at = "state", !.next = [version |-> @.version]])
    /\ log' = IF job[p].next.version = log.state.version + 1
              THEN [log EXCEPT !.state = job[p].next] ELSE [log EXCEPT !.broken = TRUE]
    /\ UNCHANGED <<lock, faults, session, file, active, mastery, stale, changes>>

WriteState(p) ==
    /\ At(p, "state") /\ file' = job[p].next.version
    /\ IF job[p].section = "start" THEN GoTo(p, "active") /\ UNCHANGED lock
                                   ELSE Unlock /\ Become(p, Follow(job[p]))
    /\ UNCHANGED <<faults, session, log, active, mastery, stale, changes>>

WriteActive(p) ==
    /\ At(p, "active") /\ active' = TRUE /\ Unlock /\ Become(p, Idle)
    /\ UNCHANGED <<faults, session, log, file, mastery, stale, changes>>

\* Mutant: a session whose state.json is behind its events is left out.
RebuiltWhenSaved(p) ==
    IF Readable /\ file = log.state.version THEN Observed(log.state, session.style) ELSE {}

\* A session that cannot be read is left out of the record.
Rebuilt(p) == IF Readable THEN Observed(log.state, session.style) ELSE {}

Rebuild(p) ==
    /\ Waits(p, "rebuild") /\ MayEnter(p) /\ Unlock
    /\ file' = Repaired /\ mastery' = Rebuilt(p) /\ Become(p, Return(job[p]))
    /\ UNCHANGED <<faults, session, log, active, stale, changes>>

-----------------------------------------------------------------------------
(* Commands, as they decide on the state they read *)

Plan(type, question, id, item, body, expect) ==
    [type |-> type, question |-> question, id |-> id, item |-> item, body |-> body, expect |-> expect]
Write(p, plan) ==
    Become(p, [Idle EXCEPT !.at = "lock", !.section = "write", !.then = job[p].then, !.plan = plan])
Stop(p) == Become(p, Return(job[p]))
Decides(p, ops) == At(p, "decide") /\ job[p].op \in ops /\ UNCHANGED <<lock, faults, files, stale, changes>>
View(p) == job[p].view
Asked(p) == View(p).current
Expects(p) == job[p].expect \in {0, View(p).version}

MarkStale(p, a) == Write(p, Plan("answer_reviewed", a.question, a.id, "stale", StaleReview(a), 0))
CloseLesson(p, k) == Write(p, Plan("teaching_invalidated", Asked(p), k, 0, 0, 0))

\* Answers that have no review yet.
Waiting(s) == {a \in ToSet(s.attempts) : Unreviewed(a)}

Begin(p) ==
    /\ At(p, "idle") /\ log.state.version > 0
    /\ \E op \in {"answer", "teach", "feedback", "revise", "complete", "pending", "review", "continue",
                  "report"} :
         /\ op = "report" \/ log.state.version < MaxEvents
         /\ \E expect \in (IF op \in {"answer", "teach", "feedback", "complete"} THEN {0, log.state.version} ELSE {0}) :
              Become(p, Reading(op, "none", expect))
    /\ UNCHANGED <<lock, faults, files, stale, changes>>

\* One session is followed: another start comes only when one failed before its first event.
Start(p) ==
    /\ At(p, "idle") /\ log.state.version = 0
    /\ \A o \in Procs \ dead : job[o].section # "start"
    /\ \E r \in Requests, stage \in Histories :
         LET paper == PaperOf(r.style, r.focus, r.count, stale, stage) IN
         Become(p, IF paper = <<>> THEN Idle
                   ELSE [Idle EXCEPT !.at = "lock", !.section = "start",
                         !.plan = [type |-> "session_started", body |-> [style |-> r.style, paper |-> paper]]])
    /\ UNCHANGED <<lock, faults, files, stale, changes>>

\* Mutant: a choice gets its automatic result whatever was found of the evidence.
PreparedAnyway(p, id, answer) ==
    LET q == Asked(p) IN
    [id |-> id, question |-> q, answer |-> answer, hint |-> HintLevel(View(p), q),
     fresh |-> q \notin stale,
     auto |-> IF Bank[q].kind = "choice" /\ session.style = "regular" THEN answer ELSE "none",
     review |-> NoReview]

Prepared(p, id, answer) ==
    LET q == Asked(p)
        fresh == q \notin stale IN
    [id |-> id, question |-> q, answer |-> answer, hint |-> HintLevel(View(p), q), fresh |-> fresh,
     auto |-> IF Bank[q].kind = "choice" /\ session.style = "regular" /\ fresh THEN answer ELSE "none",
     review |-> NoReview]

\* submit_answer: the same answer again goes on where the first one was left.
Answer(p) ==
    /\ Decides(p, {"answer"})
    /\ \E id \in AttemptIds, answer \in {"right", "wrong", "text"} :
         IF Holds(View(p).attempts, id)
         THEN Become(p, IF Item(View(p).attempts, id).answer = answer
                        THEN Reading("dispatch", "none", 0) ELSE Idle)
         ELSE IF Expects(p) /\ View(p).status = "question_open" /\ answer \in Answers(Asked(p))
              THEN Write(p, Plan("answer_submitted", Asked(p), id, 0, Prepared(p, id, answer), job[p].expect))
              ELSE Stop(p)

\* dispatch_saved_answer
Dispatch(p) ==
    /\ Decides(p, {"dispatch"})
    /\ IF View(p).status # "answer_saved" THEN Stop(p)
       ELSE \E a \in Waiting(View(p)) :
              IF ~ a.fresh \/ a.question \in stale THEN MarkStale(p, a)
              ELSE IF Bank[a.question].kind = "choice" /\ session.style = "regular"
                   THEN Write(p, Plan("answer_reviewed", a.question, a.id, "auto", AutoReview(a), 0))
                   ELSE Stop(p)

\* pending_reviews, for the host agent; "pending again" is its second half, after a dispatch.
Pend(p) ==
    /\ Decides(p, {"pending", "pending again"})
    /\ LET v == View(p)
           k == ActiveLesson(v, Asked(p))
           judged == {a \in Waiting(v) : Bank[a.question].kind = "text" \/ session.style = "socratic"} IN
       IF job[p].op = "pending" /\ v.status \in {"teaching_open", "teaching_feedback_saved"}
       THEN IF Asked(p) \in stale THEN CloseLesson(p, k) ELSE Stop(p)
       ELSE IF job[p].op = "pending" /\ v.status = "answer_saved"
            THEN Become(p, Reading("dispatch", "pending again", 0))
       ELSE IF judged = {} THEN Stop(p)
       ELSE \E a \in judged :
              IF a.question \in stale THEN MarkStale(p, a)
              ELSE IF v.status = "answer_saved"
                   THEN Write(p, Plan("grading_started", a.question, a.id, 0, 0, 0)) ELSE Stop(p)

\* apply_review
Review(p) ==
    /\ Decides(p, {"review"})
    /\ IF View(p).status # "agent_review_pending" THEN Stop(p)
       ELSE \E a \in Waiting(View(p)) :
              IF a.question \in stale THEN MarkStale(p, a)
              ELSE \E r \in AgentReviews(a, session.style) :
                     /\ r.outcome = "probe" => Cardinality(TriesOf(View(p), a.question)) < MaxTries
                     /\ Write(p, Plan("answer_reviewed", a.question, a.id, "agent", r, 0))

\* The next question of the session, 0 behind the last one.
Following(s) == IF s.index < Len(session.paper) THEN session.paper[s.index + 1] ELSE 0
\* Mutant: a probe that is due is not asked.
ProbesNever(p) == FALSE
Probes(p) ==
    LET v == View(p) IN
    /\ session.style = "socratic" /\ Item(v.attempts, LastTry(v, v.current)).review.outcome = "probe"
    /\ Cardinality(TriesOf(v, v.current)) < MaxTries

\* continue_session
Continue(p) ==
    /\ Decides(p, {"continue", "continue again"})
    /\ LET v == View(p)
           q == Asked(p)
           Event(type, next) == Plan(type, q, LastTry(v, q), 0, next, 0) IN
       IF job[p].op = "continue" /\ v.status = "answer_saved"
       THEN Become(p, Reading("dispatch", "continue again", 0))
       ELSE IF v.status # "reviewed" THEN Stop(p)
       ELSE IF Probes(p) THEN Write(p, Event("socratic_turn", q))
       ELSE IF Following(v) = 0 THEN Write(p, Event("session_ended", 0))
       ELSE IF Following(v) \in stale THEN Stop(p)
       ELSE Write(p, Event("question_presented", Following(v)))

\* request_teaching
Teach(p) ==
    /\ Decides(p, {"teach"})
    /\ IF /\ Asked(p) # 0 /\ ActiveLesson(View(p), Asked(p)) = 0 /\ Expects(p)
          /\ View(p).status = "question_open" /\ Asked(p) \notin stale
          /\ Len(View(p).lessons) < MaxLessons     \* bound
       THEN Write(p, Plan("teaching_started", Asked(p), Len(View(p).lessons) + 1, 0, 0, job[p].expect))
       ELSE Stop(p)

\* submit_lesson_feedback
Feedback(p) ==
    /\ Decides(p, {"feedback"})
    /\ LET k == ActiveLesson(View(p), Asked(p)) IN
       \E id \in FeedbackIds :
         IF /\ k # 0 /\ ~ Holds(View(p).lessons[k].feedback, id) /\ Expects(p)
            /\ View(p).status = "teaching_open"
         THEN Write(p, Plan("teaching_feedback_submitted", Asked(p), k, id,
                            View(p).lessons[k].revisions, job[p].expect))
         ELSE Stop(p)

\* apply_lesson_revision
Revise(p) ==
    /\ Decides(p, {"revise"})
    /\ LET k == ActiveLesson(View(p), Asked(p)) IN
       IF k = 0 \/ View(p).status # "teaching_feedback_saved" THEN Stop(p)
       ELSE \E f \in Pending(View(p).lessons[k]) :
              IF f.base # View(p).lessons[k].revisions THEN Stop(p)
              ELSE IF Asked(p) \in stale THEN CloseLesson(p, k)
              ELSE Write(p, Plan("teaching_revised", Asked(p), k, f.id, f.base, 0))

\* complete_teaching_lesson
Complete(p) ==
    /\ Decides(p, {"complete"})
    /\ LET k == ActiveLesson(View(p), Asked(p)) IN
       IF k = 0 \/ ~ Expects(p) \/ View(p).status # "teaching_open" THEN Stop(p)
       ELSE IF Asked(p) \in stale THEN CloseLesson(p, k)
       ELSE Write(p, Plan("teaching_completed", Asked(p), k, 0, 0, job[p].expect))

\* build_report_data rebuilds the mastery record.
Report(p) ==
    /\ Decides(p, {"report"}) /\ Become(p, [Idle EXCEPT !.at = "lock", !.section = "rebuild"])

-----------------------------------------------------------------------------
\* The repository changes, or changes back: what a session does not ask about is left alone.
ChangeEvidence ==
    /\ changes < MaxChanges /\ changes' = changes + 1
    /\ \E q \in IF session = NoSession THEN Questions ELSE ToSet(session.paper) :
         stale' = IF q \in stale THEN stale \ {q} ELSE stale \cup {q}
    /\ UNCHANGED <<lock, faults, job, files>>

\* Only the death of a lock's owner is ever noticed: any other is a process that goes no further.
Die(p) ==
    /\ p \notin dead /\ (lock = p \/ At(p, "stalled")) /\ Cardinality(dead) < MaxDeaths
    /\ dead' = dead \cup {p} /\ Become(p, Idle)
    /\ UNCHANGED <<lock, robbed, files, stale, changes>>

Next ==
    \/ \E p \in Procs :
         \/ Stall(p) \/ LookAtLock(p) \/ Steal(p) \/ GiveUp(p)
         \/ Read(p) \/ Mutate(p) \/ MakeSession(p) \/ WriteEvent(p) \/ WriteState(p) \/ WriteActive(p)
         \/ Rebuild(p) \/ Begin(p) \/ Start(p) \/ Answer(p) \/ Dispatch(p) \/ Pend(p) \/ Review(p) \/ Continue(p)
         \/ Teach(p) \/ Feedback(p) \/ Revise(p) \/ Complete(p) \/ Report(p) \/ Die(p)
    \/ ChangeEvidence

Spec == Init /\ [][Next]_vars

-----------------------------------------------------------------------------
(* A hypothesis of the theorems *)

\* A session asks different questions of its bank, one at least.
PaperOk(ses) ==
    /\ ses.style \in Styles /\ ses.paper \in Seq(Questions) /\ ses.paper # <<>>
    /\ \A i, j \in DOMAIN ses.paper : ses.paper[i] = ses.paper[j] => i = j

\* A hypothesis on Bank and Requests: whatever is unfit, a paper that start_session accepts is a
\* list of different questions.  PaperOf is defined by recursion, so it is TLC that
\* finds it true of a bank.
PapersAreSound ==
    \A r \in Requests, stage \in Histories, unfit \in SUBSET Questions :
        LET paper == PaperOf(r.style, r.focus, r.count, unfit, stage) IN
        paper # <<>> => PaperOk([style |-> r.style, paper |-> paper])

-----------------------------------------------------------------------------
(* Properties *)

Places == {"idle", "lock", "stalled", "steal", "decide", "event", "state", "active"}

\* Types of the variables (validate_materialized_state, Store.lock).
TypeOK ==
    /\ lock \in Procs \cup {Nobody, Unnamed} /\ dead \subseteq Procs
    /\ robbed \in BOOLEAN
    /\ \A p \in Procs : job[p].at \in Places /\ job[p].section \in {"none", "read", "write", "rebuild", "start"}
    /\ session.style \in Styles \cup {"none"} /\ ToSet(session.paper) \subseteq Questions
    /\ log.state.version \in Nat /\ log.broken \in BOOLEAN /\ file \in Nat /\ active \in BOOLEAN
    /\ mastery \subseteq [attempt : AttemptIds, question : Questions,
          result : {"stale", "disputed", "unaided_correct", "aided_correct", "incorrect"}]
    /\ stale \subseteq Questions /\ changes \in 0 .. MaxChanges

\* A session with a first event stays readable: recover_state never finds state.json ahead, the
\* chain never breaks, and the state fits its bank ("Require `sequence` to start at `1` and
\* increase by one", bank-schema.md).
SessionStaysReadable ==
    log.state.version > 0 => Readable /\ Fits(log.state, session.paper, session.style)

\* And so it does, and active.json only names such a session, whatever dies and whoever takes
\* the lock next, until a waiter moves the lock of a live process away: nothing else breaks a
\* session (mutate, recover_state, start_session).
ReadableUntilRobbed ==
    TypeOK /\ (~ robbed => SessionStaysReadable /\ (active => log.state.version > 0))

\* A change prepared for the state a command read is refused by the command's own guards, or is
\* still a legal step when it meets the state found under the lock: the checks of mutate never
\* refuse what the guards let through.  Only a pending that was overtaken by the next question
\* is caught by those checks alone (its guard looks at the status and not at the attempt).
WritesAreLegal ==
    \A p \in Procs :
        Waits(p, "write") /\ Readable /\ job[p].plan.type # "grading_started" =>
            \A t \in Changed(p) : t = log.state \/ Accepted(p, t)

\* An answer given to a question whose evidence had changed is kept and never scored by the
\* program, though the process that found it stale dies and another one, with fresh evidence,
\* dispatches it; a choice in a regular session is not scored by anybody (submit_answer,
\* dispatch_saved_answer).
StaleIsNotScored ==
    log.state.version > 0 =>
        \A a \in ToSet(log.state.attempts) : ~ a.fresh =>
            /\ a.auto = "none"
            /\ session.style = "regular" /\ Bank[a.question].kind = "choice" =>
                  a.review.status \in {"none", "stale"}

\* A session leaves a question behind only when its last answer is reviewed and no probe is due.
PassedQuestionsWereSettled ==
    log.state.version > 0 =>
        \A i \in 1 .. log.state.index - 1 :
            LET q == session.paper[i] IN
            /\ TriesOf(log.state, q) # {}
            /\ LET a == Item(log.state.attempts, LastTry(log.state, q)) IN
               ~ Unreviewed(a) /\ a.review.outcome # "probe"

\* Whatever is stale, disputed or due, a session asks as many questions as were wanted, each
\* after what it needs, none that is stale, and a mixed one asks of both domains
\* (start_session, prioritize_questions, select_session_questions).
PaperIsAskable ==
    session = NoSession /\ (\A p \in Procs : job[p] = Idle) =>
        \A style \in Styles, focus \in {"business", "technical", "mixed"}, count \in Questions,
           stage \in [Questions -> DOMAIN Groups \cup {"disputed"}] :
            LET paper == PaperOf(style, focus, count, stale, stage)
                asked(i) == {paper[j] : j \in 1 .. i} IN
            paper # <<>> =>
                /\ Len(paper) = count /\ Cardinality(ToSet(paper)) = count /\ ToSet(paper) \cap stale = {}
                /\ \A i \in DOMAIN paper : stage[paper[i]] # "disputed" /\ Bank[paper[i]].needs \subseteq asked(i - 1)
                /\ focus = "mixed" => {"business", "technical"} \subseteq {Bank[q].domain : q \in ToSet(paper)}

\* A rebuild that runs late, beside another command's or after a death, takes no attempt out of
\* the record, until a lock was moved away from a live process (rebuild_mastery).
MasteryOnlyGrows ==
    [][~ robbed' => {o.attempt : o \in mastery} \subseteq {o.attempt : o \in mastery'}]_vars

=============================================================================
