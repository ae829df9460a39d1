-------------------------------- MODULE Dialogue --------------------------------
(***************************************************************************)
(* The dialogue state machine of one Session (xsync_v2/state_machine.py):  *)
(* a command is decided against the committed state and the accepted       *)
(* events are reduced into the next state.  An action is one command: its  *)
(* guard is the handler's guard, its effect the reducer's branch.          *)
(*                                                                         *)
(* Commands of the Host name the work they answer by an id, any id issued  *)
(* so far, so a result may arrive after its work was superseded, retried   *)
(* or answered.  Work ids are the sequence number of the creating event,   *)
(* from which the code derives them.                                       *)
(***************************************************************************)
EXTENDS LearnerModel, FiniteSets, Sequences

CONSTANTS
    Topics,         \* topic run ids
    Names,          \* topic names: candidates and what a learner may type
    Turns,          \* learner turn ids
    Lenses,
    Checks,         \* evidence checks the verifier may return
    AgentTurns,     \* results a Host may submit, valid or not
    Failures,       \* failure categories a Host may report
    ExportIds,
    MaxSequence     \* bound: length of the committed event stream

RetryableFailures ==
    {"host_transient", "result_invalid", "lease_attempts_exhausted"}
FailureCategory == RetryableFailures \cup {"host_permanent"}
MaxAttempts == 3

ASSUME ChecksAssumption == Checks \subseteq VerifiedChecks
ASSUME AgentTurnsAssumption == AgentTurns \subseteq AgentTurn
ASSUME FailuresAssumption == Failures \subseteq FailureCategory
ASSUME NoneIsFresh == None \notin Topics \cup Names \cup Turns \cup Lenses \cup ExportIds
ASSUME LensesAssumption == Lenses # {}
ASSUME BoundAssumption == MaxSequence \in Nat

VARIABLES
    lifecycle, phase,
    sequence, version,      \* event sequence and conversation version
    candidates,             \* names offered to the learner
    selected,               \* selected_candidate
    clarification,          \* the Host's question about the selection
    sessionWork,            \* session-level work, or NoWork
    active,                 \* active Topic Run, or None
    paused, completed,      \* ids of paused and completed Topic Runs
    topics,                 \* the Topic Runs' records
    exports,
    fence,                  \* registry's view: "open", "fenced", "quiesced"
    event                   \* last committed event and the work it disposed of

setup == <<candidates, selected, clarification, sessionWork>>
runs == <<active, paused, completed, topics>>
vars == <<lifecycle, phase, sequence, version, setup, runs, exports, fence, event>>

-----------------------------------------------------------------------------
SetupKinds == {"topic_candidates", "topic_selection"}
TopicKinds == {"initial_turn", "learner_reply", "help", "lens_changed", "reground"}
Kinds == SetupKinds \cup TopicKinds
Parents == Questions \cup Turns \cup {None}

Work == [id : Nat, kind : Kinds \cup {"none"}, parent : Parents,
         attempt : 0..MaxAttempts,
         status : {"none", "queued", "dead_letter", "superseded"},
         failure : FailureCategory \cup {"none"}]
NoWork == [id |-> 0, kind |-> "none", parent |-> None, attempt |-> 0,
           status |-> "none", failure |-> "none"]

TopicRun == [evidence : EvidenceCheck, gates : Gates, model : Model,
             question : Questions \cup {None}, work : Work,
             turns : SUBSET Turns, lens : Lenses \cup {None},
             summary : SUBSET Entries]
Unstarted == [evidence |-> [health |-> "unavailable", fingerprint |-> None],
              gates |-> NewGates, model |-> NewModel, question |-> None,
              work |-> NoWork, turns |-> {}, lens |-> None, summary |-> {}]

Clarification == [question : Questions \cup {None}, answered : BOOLEAN]
NoClarification == [question |-> None, answered |-> FALSE]

\* The work an event created at position "at" of the stream queues.
Queued(at, kind, parent) ==
    [id |-> at, kind |-> kind, parent |-> parent, attempt |-> 1,
     status |-> "queued", failure |-> "none"]

\* Mutant: leaving a topic does not touch its work.
SupersededNever(w) == w

\* Leaving a topic supersedes runnable work; dead work stays dead.
Superseded(w) == IF w.status = "queued" THEN [w EXCEPT !.status = "superseded"] ELSE w

\* Mutant: regrounding leaves the old question open.
RegroundedStillAsking(t, e, w) ==
    [t EXCEPT !.evidence = e, !.work = w,
              !.gates = Downgrade(t.gates), !.model = Unconfirm(t.model)]

\* A fresh evidence baseline invalidates what was concluded from the old one.
Regrounded(t, e, w) ==
    [t EXCEPT !.evidence = e, !.question = None, !.work = w,
              !.gates = Downgrade(t.gates), !.model = Unconfirm(t.model)]

OpenWork ==
    {w \in {sessionWork} \cup (IF active = None THEN {} ELSE {topics[active].work}) :
        w.status \in {"queued", "dead_letter"}}

Automatic(w, category) == category \in RetryableFailures /\ w.attempt < MaxAttempts

\* Mutant: a lens change counts as version-neutral.
VersionNeutralLens == {"WorkRequeued", "ExportRequested", "ExportCompleted", "LensChanged"}

VersionNeutral == {"WorkRequeued", "ExportRequested", "ExportCompleted"}
VersionDelta(type) == IF type \in VersionNeutral THEN 0 ELSE 1

\* Mutant: work is put back in the queue under its old id.
RevivedInPlace(w) == [w EXCEPT !.status = "queued"]

\* Dead or superseded work continues as new work with the same kind and parent.
Revived(w) == Queued(sequence + 1, w.kind, w.parent)

\* Topic ids the session has already used.
Used == paused \cup completed

\* Commits a batch of n events; "w" is the work its last event disposed of.
Commit(type, w, n) ==
    /\ sequence + n <= MaxSequence
    /\ sequence' = sequence + n
    /\ version' = version + VersionDelta(type)
    /\ event' = [type |-> type, work |-> w]

Next1 == sequence + 1
Issued == 1..sequence
\* Mutant: commands are decided without looking at the registry.
AcceptingUnfenced == lifecycle = "open"
Accepting == lifecycle = "open" /\ fence = "open"

-----------------------------------------------------------------------------
Init ==
    /\ lifecycle = "new" /\ phase = "none"
    /\ sequence = 0 /\ version = 0
    /\ candidates = {} /\ selected = None /\ clarification = NoClarification
    /\ sessionWork = NoWork
    /\ active = None /\ paused = {} /\ completed = {}
    /\ topics = [t \in Topics |-> Unstarted]
    /\ exports = <<>>
    /\ fence = "open"
    /\ event = [type |-> "none", work |-> NoWork]

StartSession ==
    /\ lifecycle = "new" /\ phase = "none" /\ fence = "open"
    /\ lifecycle' = "open" /\ phase' = "waiting_host"
    /\ sessionWork' = Queued(Next1, "topic_candidates", None)
    /\ Commit("SessionStarted", NoWork, 1)
    /\ UNCHANGED <<candidates, selected, clarification, runs, exports, fence>>

(***************************************************************************)
(* Choosing a topic.                                                       *)
(***************************************************************************)

\* The reducer refuses the event while a selection is stored, so presenting
\* candidates as the answer to a topic_selection work never commits.
PresentCandidates(id, names) ==
    /\ Accepting /\ phase = "waiting_host" /\ active = None
    /\ sessionWork.status = "queued"
    /\ Cardinality(names) \in 1..4
    /\ id = sessionWork.id
    /\ selected = None
    /\ candidates' = names /\ phase' = "choosing_topic"
    /\ sessionWork' = NoWork
    /\ Commit("CandidatesPresented", sessionWork, 1)
    /\ UNCHANGED <<lifecycle, selected, clarification, runs, exports, fence>>

ChooseTopic(name) ==
    /\ Accepting /\ phase = "choosing_topic" /\ active = None
    /\ sessionWork = NoWork /\ selected = None
    /\ candidates' = {} /\ selected' = name /\ phase' = "waiting_host"
    /\ sessionWork' = Queued(Next1, "topic_selection", None)
    /\ clarification' = NoClarification
    /\ Commit("TopicSelectionSubmitted", NoWork, 1)
    /\ UNCHANGED <<lifecycle, runs, exports, fence>>

SelectTopic(name) == name \in candidates /\ ChooseTopic(name)
SubmitCustomTopic(name) == ChooseTopic(name)

RequestTopicClarification(id, question) ==
    /\ Accepting /\ phase = "waiting_host" /\ active = None /\ selected # None
    /\ sessionWork.status = "queued" /\ sessionWork.kind = "topic_selection"
    /\ id = sessionWork.id
    /\ phase' = "clarifying_topic" /\ sessionWork' = NoWork
    /\ clarification' = [question |-> question, answered |-> FALSE]
    /\ Commit("TopicClarificationRequested", sessionWork, 1)
    /\ UNCHANGED <<lifecycle, candidates, selected, runs, exports, fence>>

AnswerTopicClarification(question) ==
    /\ Accepting /\ phase = "clarifying_topic" /\ active = None /\ selected # None
    /\ sessionWork = NoWork
    /\ clarification = [question |-> question, answered |-> FALSE]
    /\ phase' = "waiting_host"
    /\ sessionWork' = Queued(Next1, "topic_selection", question)
    /\ clarification' = [clarification EXCEPT !.answered = TRUE]
    /\ Commit("TopicClarificationAnswered", NoWork, 1)
    /\ UNCHANGED <<lifecycle, candidates, selected, runs, exports, fence>>

\* A Host result answers the stored selection; the reducer refuses a topic id
\* the session has used before.
StartTopic(id, t, lens, e) ==
    /\ Accepting /\ active = None /\ phase = "waiting_host"
    /\ sessionWork.status = "queued" /\ sessionWork.kind = "topic_selection"
    /\ id = sessionWork.id
    /\ selected # None
    /\ clarification # NoClarification => clarification.answered
    /\ t \notin Used
    /\ active' = t
    /\ topics' = [topics EXCEPT ![t] =
                    [Unstarted EXCEPT
                        !.evidence = e, !.lens = lens,
                        !.work = Queued(Next1,
                            IF e.health \in Publishable THEN "initial_turn" ELSE "reground",
                            None)]]
    /\ selected' = None /\ clarification' = NoClarification
    /\ sessionWork' = NoWork
    /\ Commit("TopicStarted", sessionWork, 1)
    /\ UNCHANGED <<lifecycle, phase, candidates, paused, completed, exports, fence>>

(***************************************************************************)
(* The conversation about the active topic.                                *)
(***************************************************************************)

\* Hands the floor of the active topic to the Host with freshly queued work.
AskHost(type, kind, parent, record) ==
    /\ topics' = [topics EXCEPT ![active] =
                    [record EXCEPT !.question = None,
                                   !.work = Queued(Next1, kind, parent)]]
    /\ phase' = "waiting_host"
    /\ Commit(type, topics[active].work, 1)
    /\ UNCHANGED <<lifecycle, setup, active, paused, completed, exports, fence>>

CommitAgentTurn(id, turn, e) ==
    /\ Accepting /\ phase = "waiting_host" /\ active # None
    /\ LET t == topics[active] IN
        /\ t.question = None /\ t.work.status = "queued"
        /\ t.evidence.health \in Publishable
        /\ id = t.work.id /\ e = t.evidence
        /\ ValidAgentTurn(turn, t.turns # {})
        /\ ValidUpdates(t.model, turn.delta)
        /\ topics' = [topics EXCEPT ![active] =
                        [t EXCEPT !.model = ApplyUpdates(t.model, turn.delta),
                                  !.gates = turn.gates,
                                  !.question = turn.question,
                                  !.work = NoWork]]
        /\ Commit("AgentTurnCommitted", t.work, 1)
    /\ phase' = "awaiting_user"
    /\ UNCHANGED <<lifecycle, setup, active, paused, completed, exports, fence>>

SubmitLearnerTurn(question, turn) ==
    /\ Accepting /\ phase = "awaiting_user" /\ active # None
    /\ topics[active].question = question
    /\ turn \notin topics[active].turns
    /\ AskHost("LearnerTurnSubmitted", "learner_reply", turn,
               [topics[active] EXCEPT !.turns = @ \cup {turn}])

RequestHelp(question, e) ==
    /\ Accepting /\ phase = "awaiting_user" /\ active # None
    /\ topics[active].question = question
    /\ e = topics[active].evidence
    /\ AskHost("HelpRequested", "help", question, topics[active])

\* Replaces pending work, or the open question, by work under the new lens.
SetLens(lens, e) ==
    /\ Accepting /\ phase \in {"awaiting_user", "waiting_host"} /\ active # None
    /\ lens # topics[active].lens
    /\ e = topics[active].evidence
    /\ AskHost("LensChanged", "lens_changed",
               IF topics[active].question # None
               THEN topics[active].question ELSE topics[active].work.parent,
               [topics[active] EXCEPT !.lens = lens])

CompleteTopic(id, summary, e) ==
    /\ Accepting /\ phase = "waiting_host" /\ active # None
    /\ LET t == topics[active] IN
        /\ t.work.status = "queued"
        /\ id = t.work.id /\ e = t.evidence
        /\ e.health \in Publishable
        /\ MayComplete(t.gates, t.model)
        /\ summary # {} /\ summary \subseteq Confirmed(t.model)
        /\ topics' = [topics EXCEPT ![active] =
                        [t EXCEPT !.question = None, !.work = NoWork,
                                  !.summary = summary]]
        /\ Commit("TopicCompleted", t.work, 1)
    /\ active' = None /\ completed' = completed \cup {active}
    /\ phase' = "none"
    /\ UNCHANGED <<lifecycle, setup, paused, exports, fence>>

-----------------------------------------------------------------------------
(***************************************************************************)
(* Leaving, switching and resuming topics.                                 *)
(***************************************************************************)

\* Mutant: the stored selection survives.
ClearSetupKeepsSelection ==
    candidates' = {} /\ clarification' = NoClarification /\ UNCHANGED selected

ClearSetup == candidates' = {} /\ selected' = None /\ clarification' = NoClarification

SetAside ==
    /\ topics' = [topics EXCEPT ![active].work = Superseded(@)]
    /\ paused' = paused \cup {active}
    /\ active' = None
    /\ UNCHANGED completed

PauseTopic ==
    /\ Accepting /\ active # None
    /\ SetAside
    /\ phase' = "none"
    /\ Commit("TopicPaused", topics[active].work, 1)
    /\ UNCHANGED <<lifecycle, setup, exports, fence>>

SwitchTopic ==
    /\ Accepting /\ active # None
    /\ SetAside
    /\ ClearSetup
    /\ sessionWork' = Queued(Next1, "topic_candidates", None)
    /\ phase' = "waiting_host"
    /\ Commit("TopicSwitchRequested", topics[active].work, 1)
    /\ UNCHANGED <<lifecycle, exports, fence>>

ExploreTopics ==
    /\ Accepting /\ phase = "none" /\ active = None /\ sessionWork = NoWork
    /\ completed \cup paused # {}
    /\ ClearSetup
    /\ sessionWork' = Queued(Next1, "topic_candidates", None)
    /\ phase' = "waiting_host"
    /\ Commit("TopicExplorationRequested", NoWork, 1)
    /\ UNCHANGED <<lifecycle, runs, exports, fence>>

\* Evidence that changed, or cannot be published, forces a reground; otherwise
\* the open question comes back, or the superseded work under a new id.
ResumeTopic(t, e) ==
    /\ Accepting /\ phase = "none" /\ active = None /\ t \in paused
    /\ LET saved == topics[t] IN
        /\ \/ /\ e # saved.evidence \/ e.health \notin Publishable
              /\ topics' = [topics EXCEPT ![t] =
                              Regrounded(saved, e, Queued(Next1, "reground", None))]
              /\ phase' = "waiting_host"
           \/ /\ e = saved.evidence /\ e.health \in Publishable
              /\ saved.question # None
              /\ phase' = "awaiting_user"
              /\ UNCHANGED topics
           \/ /\ e = saved.evidence /\ e.health \in Publishable
              /\ saved.question = None /\ saved.work.status = "superseded"
              /\ topics' = [topics EXCEPT ![t].work = Revived(saved.work)]
              /\ phase' = "waiting_host"
        /\ Commit("TopicResumed", saved.work, 1)
    /\ active' = t /\ paused' = paused \ {t}
    /\ UNCHANGED <<lifecycle, setup, completed, exports, fence>>

(***************************************************************************)
(* Work failure and recovery.  A reported failure is one batch of two      *)
(* events: WorkFailed and WorkRequeued, or WorkFailed and WorkDeadLettered. *)
(***************************************************************************)

ReplaceWork(w, replacement) ==
    IF sessionWork = w
    THEN sessionWork' = replacement /\ UNCHANGED topics
    ELSE topics' = [topics EXCEPT ![active].work = replacement] /\ UNCHANGED sessionWork

Failing(id) ==
    {w \in OpenWork : Cardinality(OpenWork) = 1 /\ w.status = "queued" /\ w.id = id}

RequeueWork(id, category) ==
    /\ Accepting /\ phase = "waiting_host"
    /\ \E w \in Failing(id) :
        /\ Automatic(w, category)
        /\ ReplaceWork(w, [Queued(sequence + 2, w.kind, w.parent) EXCEPT
                              !.attempt = w.attempt + 1, !.failure = category])
        /\ Commit("WorkRequeued", w, 2)
    /\ UNCHANGED <<lifecycle, phase, candidates, selected, clarification,
                   active, paused, completed, exports, fence>>

\* The reducer refuses to enter recoverable_error while an answered
\* clarification is stored, so that batch is rejected as a whole.
DeadLetterWork(id, category) ==
    /\ Accepting /\ phase = "waiting_host"
    /\ clarification = NoClarification
    /\ \E w \in Failing(id) :
        /\ ~Automatic(w, category)
        /\ ReplaceWork(w, [w EXCEPT !.status = "dead_letter", !.failure = category])
        /\ Commit("WorkDeadLettered", w, 2)
    /\ phase' = "recoverable_error"
    /\ UNCHANGED <<lifecycle, candidates, selected, clarification,
                   active, paused, completed, exports, fence>>

RecoverSessionWork(id) ==
    /\ Accepting /\ phase = "recoverable_error"
    /\ sessionWork.status = "dead_letter" /\ sessionWork.id = id
    /\ sessionWork' = Revived(sessionWork)
    /\ phase' = "waiting_host"
    /\ Commit("WorkRecoveryRequested", sessionWork, 1)
    /\ UNCHANGED <<lifecycle, candidates, selected, clarification, runs, exports, fence>>

\* "retry" adopts the evidence check of the moment but keeps the conclusions
\* drawn so far; "reground" downgrades them.
RecoverTopicWork(id, t, action, e) ==
    /\ Accepting
    /\ topics[t].work.status = "dead_letter" /\ topics[t].work.id = id
    /\ \/ t = active /\ phase = "recoverable_error"
       \/ t \in paused /\ phase = "none" /\ active = None
    /\ LET dead == topics[t].work IN
        /\ topics' = [topics EXCEPT ![t] =
              IF action = "reground"
              THEN Regrounded(topics[t], e, Queued(Next1, "reground", dead.parent))
              ELSE [topics[t] EXCEPT !.evidence = e, !.question = None,
                                     !.work = Revived(dead)]]
        /\ Commit("WorkRecoveryRequested", dead, 1)
    /\ active' = t /\ paused' = paused \ {t}
    /\ phase' = "waiting_host"
    /\ UNCHANGED <<lifecycle, setup, completed, exports, fence>>

-----------------------------------------------------------------------------
(***************************************************************************)
(* Exports, and the fenced quiesce a handoff performs.                     *)
(***************************************************************************)

RequestExport(x) ==
    /\ Accepting
    /\ \A i \in DOMAIN exports : exports[i].id # x
    /\ exports' = Append(exports, [id |-> x, asOf |-> sequence, status |-> "requested"])
    /\ Commit("ExportRequested", NoWork, 1)
    /\ UNCHANGED <<lifecycle, phase, setup, runs, fence>>

CompleteExport(x) ==
    /\ Accepting
    /\ \E i \in DOMAIN exports :
        /\ exports[i].id = x /\ exports[i].status = "requested"
        /\ exports' = [exports EXCEPT ![i].status = "completed"]
    /\ Commit("ExportCompleted", NoWork, 1)
    /\ UNCHANGED <<lifecycle, phase, setup, runs, fence>>

\* The registry starts a handoff away from this Session.
BeginHandoff ==
    /\ fence = "open"
    /\ fence' = "fenced"
    /\ UNCHANGED <<lifecycle, phase, sequence, version, setup, runs, exports, event>>

QuiesceTopic ==
    /\ fence = "fenced" /\ lifecycle = "open" /\ active # None
    /\ SetAside
    /\ phase' = "none" /\ fence' = "quiesced"
    /\ Commit("TopicPaused", topics[active].work, 1)
    /\ UNCHANGED <<lifecycle, setup, exports>>

QuiesceSetup ==
    /\ fence = "fenced" /\ active = None
    /\ lifecycle = "new" \/ phase # "none"
    /\ lifecycle' = "open" /\ phase' = "none" /\ fence' = "quiesced"
    /\ ClearSetup
    /\ sessionWork' = NoWork
    /\ Commit("SessionDeactivationPrepared", sessionWork, 1)
    /\ UNCHANGED <<runs, exports>>

\* Nothing to quiesce: the decision carries no events.
QuiesceIdle ==
    /\ fence = "fenced" /\ lifecycle = "open" /\ active = None /\ phase = "none"
    /\ fence' = "quiesced"
    /\ UNCHANGED <<lifecycle, phase, sequence, version, setup, runs, exports, event>>

-----------------------------------------------------------------------------
HostStep ==
    \E id \in Issued :
        \/ \E names \in SUBSET Names : PresentCandidates(id, names)
        \/ \E q \in Questions : RequestTopicClarification(id, q)
        \/ \E t \in Topics, l \in Lenses, e \in Checks : StartTopic(id, t, l, e)
        \/ \E turn \in AgentTurns, e \in Checks : CommitAgentTurn(id, turn, e)
        \/ \E s \in SUBSET Entries, e \in Checks : CompleteTopic(id, s, e)
        \/ \E c \in Failures : RequeueWork(id, c) \/ DeadLetterWork(id, c)

LearnerStep ==
    \/ \E n \in Names : SelectTopic(n) \/ SubmitCustomTopic(n)
    \/ \E q \in Questions : AnswerTopicClarification(q)
    \/ \E q \in Questions, turn \in Turns : SubmitLearnerTurn(q, turn)
    \/ \E q \in Questions, e \in Checks : RequestHelp(q, e)
    \/ \E l \in Lenses, e \in Checks : SetLens(l, e)
    \/ PauseTopic \/ SwitchTopic \/ ExploreTopics
    \/ \E t \in Topics, e \in Checks : ResumeTopic(t, e)
    \/ \E id \in Issued :
        \/ RecoverSessionWork(id)
        \/ \E t \in Topics, action \in {"retry", "reground"}, e \in Checks :
              RecoverTopicWork(id, t, action, e)

RuntimeStep ==
    \/ StartSession
    \/ \E x \in ExportIds : RequestExport(x) \/ CompleteExport(x)
    \/ BeginHandoff \/ QuiesceTopic \/ QuiesceSetup \/ QuiesceIdle

Next == HostStep \/ LearnerStep \/ RuntimeStep

Spec == Init /\ [][Next]_vars

-----------------------------------------------------------------------------
Phases == {"none", "choosing_topic", "clarifying_topic", "awaiting_user",
           "waiting_host", "recoverable_error"}
EventTypes ==
    {"none", "SessionStarted", "CandidatesPresented", "TopicSelectionSubmitted",
     "TopicClarificationRequested", "TopicClarificationAnswered", "TopicStarted",
     "AgentTurnCommitted", "LearnerTurnSubmitted", "HelpRequested", "LensChanged",
     "TopicCompleted", "TopicPaused", "TopicSwitchRequested",
     "TopicExplorationRequested", "TopicResumed", "WorkRequeued",
     "WorkDeadLettered", "WorkRecoveryRequested", "ExportRequested",
     "ExportCompleted", "SessionDeactivationPrepared"}
Export == [id : ExportIds, asOf : Nat, status : {"requested", "completed"}]

\* The shape of the state; attempts never exceed MAX_AUTOMATIC_WORK_ATTEMPTS.
TypeOK ==
    /\ lifecycle \in {"new", "open"} /\ phase \in Phases
    /\ sequence \in Nat /\ version \in Nat
    /\ candidates \in SUBSET Names
    /\ selected \in Names \cup {None}
    /\ clarification \in Clarification
    /\ sessionWork \in Work
    /\ active \in Topics \cup {None}
    /\ paused \in SUBSET Topics /\ completed \in SUBSET Topics
    /\ topics \in [Topics -> TopicRun]
    /\ exports \in Seq(Export)
    /\ fence \in {"open", "fenced", "quiesced"}
    /\ event \in [type : EventTypes, work : Work]

\* The floor belongs to one party: a waiting Host has exactly one queued work
\* and no question is open; an open question stands on publishable evidence
\* with no work beside it; an error holds exactly one dead work
\* (validate_state's phase rules, design invariants 3 and 4).
FloorIsOwned ==
    /\ phase = "waiting_host" =>
        /\ \E w \in OpenWork : OpenWork = {w} /\ w.status = "queued"
        /\ active # None => topics[active].question = None
        /\ active # None <=> sessionWork = NoWork
    /\ phase = "awaiting_user" =>
        /\ active # None /\ sessionWork = NoWork
        /\ topics[active].question # None /\ topics[active].work = NoWork
        /\ topics[active].evidence.health \in Publishable
    /\ phase = "recoverable_error" =>
        /\ \E w \in OpenWork : OpenWork = {w} /\ w.status = "dead_letter"
        /\ active # None => topics[active].question = None
        /\ active # None <=> sessionWork = NoWork
    /\ phase \in {"none", "choosing_topic", "clarifying_topic"} =>
        active = None /\ sessionWork = NoWork

\* What is stored about the selection is what the pending step needs: a
\* selection work answers a stored selection, a candidates work none, and a
\* clarification belongs to the selection it clarifies
\* (validate_state's rules on candidates, selection and clarification).
SelectionIsAnswerable ==
    /\ candidates # {} <=> phase = "choosing_topic"
    /\ selected # None <=>
        phase = "clarifying_topic" \/ sessionWork.kind = "topic_selection"
    /\ phase = "clarifying_topic" <=>
        clarification # NoClarification /\ ~clarification.answered
    /\ clarification # NoClarification => selected # None /\ active = None
    /\ sessionWork # NoWork => sessionWork.kind \in SetupKinds

\* A Topic Run is in one place, and what is set aside owns nothing a Host could
\* still answer: a paused run keeps its open question or parked work, a
\* completed one neither (design invariant 5).
SetAsideOwnsNoWork ==
    /\ paused \cap completed = {} /\ active \notin paused \cup completed
    /\ \A t \in paused :
        \/ topics[t].question # None /\ topics[t].work = NoWork
        \/ topics[t].question = None /\ topics[t].work.status \in {"superseded", "dead_letter"}
    /\ \A t \in completed : topics[t].question = None /\ topics[t].work = NoWork

\* A supported gate or a confirmed insight always rests on something the learner
\* said in that Topic Run, through every update, downgrade and resumption
\* (the citation rules of _valid_gate_assessment and _valid_model_entry).
SupportCitesTheLearner ==
    \A t \in Topics :
        /\ \A g \in GateIds : topics[t].gates[g].status = "supported" =>
                topics[t].gates[g].cited /\ topics[t].turns # {}
        /\ \A x \in Entries : topics[t].model[x].status = "confirmed" =>
                topics[t].model[x].cited /\ topics[t].turns # {}

\* A completed topic has every gate supported and a confirmed bridge between
\* business and technology, on publishable evidence, and its summary cites
\* confirmed entries only; nothing reopens, reuses or edits it for as long as the
\* session lasts (_complete_topic, design invariant 7).
CompletionWasEarned ==
    \A t \in completed :
        /\ \A g \in GateIds : topics[t].gates[g].status = "supported"
        /\ Confirmed(topics[t].model) \cap Bridges # {}
        /\ topics[t].evidence.health \in Publishable
        /\ topics[t].summary # {} /\ topics[t].summary \subseteq Confirmed(topics[t].model)

\* Once a handoff has quiesced the session no runnable work is left in it, and
\* nothing makes any (decide_fenced_quiesce, design invariant 1).
QuiescedSessionIsIdle ==
    fence = "quiesced" =>
        /\ phase = "none" /\ OpenWork = {}
        /\ \A t \in Topics : topics[t].work.status # "queued"

Runnable == {w \in {sessionWork} \cup {topics[t].work : t \in Topics} : w.status = "queued"}

\* Work that stopped being runnable never becomes runnable again under its old
\* id: whatever is queued was queued before, or is newer than every issued id.
\* So a Host's late result can never match work that came back.
WorkNeverResurrected ==
    [][\A w \in Runnable' : w \in Runnable \/ w.id > sequence]_vars

Shown ==
    <<phase, candidates, clarification.question, active, paused, completed,
      [t \in Topics |-> <<topics[t].question, topics[t].lens, topics[t].turns>>]>>

\* A browser's If-Match on the conversation version is enough: as long as the
\* version stands, nothing the learner sees or answers has changed
\* (conversation_version_delta against the reducer's branches).
VersionCoversWhatIsShown == [][version' = version => Shown' = Shown]_vars

-----------------------------------------------------------------------------
(***************************************************************************)
(* A statement of the design document the code does not keep.              *)
(***************************************************************************)

\* "work_dead_lettered: retry limit reached -> phase=recoverable_error": a Host
\* that holds work whose attempts are used up can always have its failure
\* recorded (design section 8.5, transition table).
ExhaustedWorkDies ==
    \A w \in OpenWork :
        (Accepting /\ w.attempt = MaxAttempts /\ w.status = "queued" /\ sequence + 2 <= MaxSequence)
            => \E c \in Failures : ENABLED DeadLetterWork(w.id, c)
===============================================================================
