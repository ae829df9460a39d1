----------------------------- MODULE DialogueProofs -----------------------------
(***************************************************************************)
(* Proofs about Dialogue for every choice of topics, names, turns, results *)
(* and bound.                                                              *)
(***************************************************************************)
EXTENDS Dialogue, FiniteSetTheorems, TLAPS

USE DEF SetupKinds, TopicKinds, Kinds, Parents

-----------------------------------------------------------------------------
(***************************************************************************)
(* Typing of the operators the actions are built from.                     *)
(***************************************************************************)

\* "No work" and a topic run nothing has happened to are well typed.
LEMMA DefaultsTyped ==
    /\ NoWork \in Work
    /\ NoClarification \in Clarification
    /\ Unstarted \in TopicRun
<1>1. NoWork \in Work
  BY DEF NoWork, Work, MaxAttempts, FailureCategory
<1>2. NewGates \in Gates
  BY DEF NewGates, Gates, GateAssessment, GateStatus
<1>3. NewModel \in Model
  BY DEF NewModel, Model, Absent, Entry
<1>4. Unstarted \in TopicRun
  BY <1>1, <1>2, <1>3 DEF Unstarted, TopicRun, EvidenceCheck, EvidenceHealth
<1>. QED BY <1>1, <1>4 DEF NoClarification, Clarification

\* What an event queues is well typed, whatever the event.
LEMMA QueuedTyped ==
    ASSUME NEW at \in Nat, NEW kind \in Kinds \cup {"none"}, NEW parent \in Parents
    PROVE  Queued(at, kind, parent) \in Work
BY DEF Queued, Work, MaxAttempts

\* So is work that failed: queued again with one more attempt, or dead.
LEMMA WorkTried ==
    ASSUME NEW w \in Work, NEW n \in 0..MaxAttempts, NEW c \in FailureCategory
    PROVE  [w EXCEPT !.attempt = n, !.failure = c] \in Work
BY DEF Work

LEMMA WorkBuried ==
    ASSUME NEW w \in Work, NEW c \in FailureCategory
    PROVE  [w EXCEPT !.status = "dead_letter", !.failure = c] \in Work
BY DEF Work

\* Superseding and reviving work keep it well typed.
LEMMA ReplacedWorkTyped ==
    ASSUME NEW w \in Work
    PROVE  /\ Superseded(w) \in Work
           /\ sequence \in Nat => Revived(w) \in Work
<1>1. Superseded(w) \in Work
  BY DEF Superseded, Work
<1>2. ASSUME sequence \in Nat
      PROVE  Revived(w) \in Work
  <2>1. w.parent \in Parents /\ w.kind \in Kinds \cup {"none"}
    BY DEF Work
  <2>. QED BY <1>2, <2>1, QueuedTyped DEF Revived
<1>. QED BY <1>1, <1>2

\* Downgrading, unconfirming and updating stay within gates and models.
LEMMA LearnerModelTyped ==
    ASSUME NEW gates \in Gates, NEW model \in Model, NEW delta \in Model
    PROVE  /\ Downgrade(gates) \in Gates
           /\ Unconfirm(model) \in Model
           /\ ApplyUpdates(model, delta) \in Model
<1>1. Downgrade(gates) \in Gates
  BY DEF Downgrade, Gates, GateAssessment, GateStatus
<1>2. Unconfirm(model) \in Model
  BY DEF Unconfirm, Model, Entry, InsightStatus
<1>3. ApplyUpdates(model, delta) \in Model
  BY DEF ApplyUpdates, Model
<1>. QED BY <1>1, <1>2, <1>3

\* A regrounded topic run is well typed.
LEMMA RegroundedTyped ==
    ASSUME NEW t \in TopicRun, NEW e \in EvidenceCheck, NEW w \in Work
    PROVE  Regrounded(t, e, w) \in TopicRun
<1>1. t.gates \in Gates /\ t.model \in Model
  BY DEF TopicRun
<1>2. Downgrade(t.gates) \in Gates /\ Unconfirm(t.model) \in Model
  BY <1>1, LearnerModelTyped
<1>. QED BY <1>2 DEF Regrounded, TopicRun

-----------------------------------------------------------------------------
(***************************************************************************)
(* Type correctness.                                                       *)
(***************************************************************************)

\* Committing a batch of one or two events keeps the counters and the record
\* of the last event well typed.
LEMMA CommitTyped ==
    ASSUME TypeOK, NEW type \in EventTypes, NEW w \in Work, NEW n \in {1, 2},
           Commit(type, w, n)
    PROVE  /\ sequence' \in Nat /\ version' \in Nat
           /\ event' \in [type : EventTypes, work : Work]
           /\ Next1 \in Nat
BY DEF TypeOK, Commit, VersionDelta, Next1

\* The work of a typed state is typed.
LEMMA WorkOfTyped ==
    ASSUME TypeOK
    PROVE  /\ sessionWork \in Work
           /\ \A t \in Topics : topics[t] \in TopicRun /\ topics[t].work \in Work
           /\ active # None => active \in Topics
BY DEF TypeOK, TopicRun

\* Setting the active topic aside keeps the records and the sets of ids typed.
LEMMA SetAsideTyped ==
    ASSUME TypeOK, active # None, SetAside
    PROVE  /\ topics' \in [Topics -> TopicRun]
           /\ paused' \in SUBSET Topics /\ completed' \in SUBSET Topics
           /\ active' \in Topics \cup {None}
<1>1. active \in Topics /\ topics[active].work \in Work
  BY WorkOfTyped
<1>2. Superseded(topics[active].work) \in Work
  BY <1>1, ReplacedWorkTyped
<1>3. [topics[active] EXCEPT !.work = Superseded(@)] \in TopicRun
  BY SMTT(30), <1>1, <1>2 DEF TypeOK, TopicRun
<1>. QED BY <1>1, <1>3 DEF TypeOK, SetAside

\* Handing the floor to the Host keeps the active record typed.
LEMMA AskHostTyped ==
    ASSUME TypeOK, NEW type \in EventTypes, NEW kind \in Kinds,
           NEW parent \in Parents, NEW record \in TopicRun,
           active # None, AskHost(type, kind, parent, record)
    PROVE  TypeOK'
<1>1. active \in Topics /\ topics[active].work \in Work
  BY WorkOfTyped
<1>2. /\ sequence' \in Nat /\ version' \in Nat /\ Next1 \in Nat
      /\ event' \in [type : EventTypes, work : Work]
  BY <1>1, CommitTyped DEF AskHost
<1>3. Queued(Next1, kind, parent) \in Work
  BY <1>2, QueuedTyped
<1>4. [record EXCEPT !.question = None, !.work = Queued(Next1, kind, parent)] \in TopicRun
  BY <1>3 DEF TopicRun
<1>5. topics' \in [Topics -> TopicRun]
  BY <1>1, <1>4 DEF TypeOK, AskHost
<1>. QED BY <1>2, <1>5 DEF TypeOK, AskHost, Phases, setup

\* Every Host command keeps the state typed.
LEMMA HostStepTyped == TypeOK /\ HostStep => TypeOK'
<1>. SUFFICES ASSUME TypeOK, NEW id \in Issued,
                     \/ \E names \in SUBSET Names : PresentCandidates(id, names)
                     \/ \E q \in Questions : RequestTopicClarification(id, q)
                     \/ \E t \in Topics, l \in Lenses, e \in Checks : StartTopic(id, t, l, e)
                     \/ \E turn \in AgentTurns, e \in Checks : CommitAgentTurn(id, turn, e)
                     \/ \E s \in SUBSET Entries, e \in Checks : CompleteTopic(id, s, e)
                     \/ \E c \in Failures : RequeueWork(id, c) \/ DeadLetterWork(id, c)
              PROVE  TypeOK'
  BY Zenon DEF HostStep
<1>. /\ NoWork \in Work /\ NoClarification \in Clarification /\ Unstarted \in TopicRun
     /\ sessionWork \in Work
     /\ active # None => active \in Topics /\ topics[active] \in TopicRun
                         /\ topics[active].work \in Work
  BY DefaultsTyped, WorkOfTyped
<1>1. ASSUME NEW names \in SUBSET Names, PresentCandidates(id, names)
      PROVE  TypeOK'
  <2>1. /\ sequence' \in Nat /\ version' \in Nat
        /\ event' \in [type : EventTypes, work : Work]
    BY <1>1, CommitTyped DEF PresentCandidates, EventTypes
  <2>. QED BY <1>1, <2>1 DEF TypeOK, PresentCandidates, Phases, runs
<1>2. ASSUME NEW q \in Questions, RequestTopicClarification(id, q)
      PROVE  TypeOK'
  <2>1. /\ sequence' \in Nat /\ version' \in Nat
        /\ event' \in [type : EventTypes, work : Work]
    BY <1>2, CommitTyped DEF RequestTopicClarification, EventTypes
  <2>. QED BY <1>2, <2>1 DEF TypeOK, RequestTopicClarification, Phases, Clarification, runs
<1>3. ASSUME NEW t \in Topics, NEW l \in Lenses, NEW e \in Checks, StartTopic(id, t, l, e)
      PROVE  TypeOK'
  <2>1. /\ sequence' \in Nat /\ version' \in Nat /\ Next1 \in Nat
        /\ event' \in [type : EventTypes, work : Work]
    BY <1>3, CommitTyped DEF StartTopic, EventTypes
  <2>2. Queued(Next1, IF e.health \in Publishable THEN "initial_turn" ELSE "reground", None)
            \in Work
    BY <2>1, QueuedTyped
  <2>3. e \in EvidenceCheck
    BY ChecksAssumption DEF VerifiedChecks
  <2>4. [Unstarted EXCEPT !.evidence = e, !.lens = l,
             !.work = Queued(Next1, IF e.health \in Publishable
                                    THEN "initial_turn" ELSE "reground", None)] \in TopicRun
    BY <2>2, <2>3 DEF TopicRun
  <2>. QED BY <1>3, <2>1, <2>4 DEF TypeOK, StartTopic
<1>4. ASSUME NEW turn \in AgentTurns, NEW e \in Checks, CommitAgentTurn(id, turn, e)
      PROVE  TypeOK'
  <2>1. /\ sequence' \in Nat /\ version' \in Nat
        /\ event' \in [type : EventTypes, work : Work]
    BY <1>4, CommitTyped DEF CommitAgentTurn, EventTypes
  <2>2. turn.question \in Questions /\ turn.gates \in Gates /\ turn.delta \in Model
    BY AgentTurnsAssumption DEF AgentTurn
  <2>3. ApplyUpdates(topics[active].model, turn.delta) \in Model
    BY <1>4, <2>2, LearnerModelTyped DEF CommitAgentTurn, TopicRun
  <2>4. [topics[active] EXCEPT !.model = ApplyUpdates(topics[active].model, turn.delta),
                               !.gates = turn.gates, !.question = turn.question,
                               !.work = NoWork] \in TopicRun
    BY <1>4, <2>2, <2>3 DEF CommitAgentTurn, TopicRun
  <2>. QED BY <1>4, <2>1, <2>4 DEF TypeOK, CommitAgentTurn, Phases, setup
<1>5. ASSUME NEW s \in SUBSET Entries, NEW e \in Checks, CompleteTopic(id, s, e)
      PROVE  TypeOK'
  <2>1. /\ sequence' \in Nat /\ version' \in Nat
        /\ event' \in [type : EventTypes, work : Work]
    BY <1>5, CommitTyped DEF CompleteTopic, EventTypes
  <2>2. [topics[active] EXCEPT !.question = None, !.work = NoWork, !.summary = s]
            \in TopicRun
    BY <1>5 DEF CompleteTopic, TopicRun
  <2>. QED BY <1>5, <2>1, <2>2 DEF TypeOK, CompleteTopic, Phases, setup
<1>6. ASSUME NEW c \in Failures, NEW w \in OpenWork, NEW replacement \in Work,
             ReplaceWork(w, replacement)
      PROVE  sessionWork' \in Work /\ topics' \in [Topics -> TopicRun]
  <2>1. CASE sessionWork = w
    BY <1>6, <2>1 DEF ReplaceWork, TypeOK
  <2>2. CASE sessionWork # w
    <3>1. active # None
      BY <2>2 DEF OpenWork
    <3>2. [topics[active] EXCEPT !.work = replacement] \in TopicRun
      BY <3>1 DEF TopicRun
    <3>. QED BY <1>6, <2>2, <3>1, <3>2 DEF ReplaceWork, TypeOK
  <2>. QED BY <2>1, <2>2
<1>7. ASSUME NEW c \in Failures, RequeueWork(id, c)
      PROVE  TypeOK'
  <2>. PICK w \in Failing(id) :
          /\ Automatic(w, c)
          /\ ReplaceWork(w, [Queued(sequence + 2, w.kind, w.parent) EXCEPT
                                !.attempt = w.attempt + 1, !.failure = c])
          /\ Commit("WorkRequeued", w, 2)
    BY <1>7 DEF RequeueWork
  <2>1. w \in OpenWork /\ w \in Work /\ w.status = "queued"
    BY DEF Failing, OpenWork
  <2>2. /\ sequence' \in Nat /\ version' \in Nat /\ sequence \in Nat
        /\ event' \in [type : EventTypes, work : Work]
    BY <2>1, CommitTyped DEF EventTypes, TypeOK
  <2>3. Queued(sequence + 2, w.kind, w.parent) \in Work
    BY SMTT(30), <2>1, <2>2, QueuedTyped DEF Work
  <2>4. [Queued(sequence + 2, w.kind, w.parent) EXCEPT
            !.attempt = w.attempt + 1, !.failure = c] \in Work
    <3>1. w.attempt \in 0..MaxAttempts /\ w.attempt < MaxAttempts
      BY <2>1 DEF Automatic, Work
    <3>2. w.attempt + 1 \in 0..MaxAttempts
      BY <3>1 DEF MaxAttempts
    <3>3. c \in FailureCategory
      BY FailuresAssumption
    <3>. QED BY <2>3, <3>2, <3>3, WorkTried
  <2>5. sessionWork' \in Work /\ topics' \in [Topics -> TopicRun]
    BY <1>6, <2>1, <2>4
  <2>. QED BY <1>7, <2>2, <2>5 DEF TypeOK, RequeueWork
<1>8. ASSUME NEW c \in Failures, DeadLetterWork(id, c)
      PROVE  TypeOK'
  <2>. PICK w \in Failing(id) :
          /\ ReplaceWork(w, [w EXCEPT !.status = "dead_letter", !.failure = c])
          /\ Commit("WorkDeadLettered", w, 2)
    BY <1>8 DEF DeadLetterWork
  <2>1. w \in OpenWork /\ w \in Work
    BY DEF Failing, OpenWork
  <2>2. /\ sequence' \in Nat /\ version' \in Nat
        /\ event' \in [type : EventTypes, work : Work]
    BY <2>1, CommitTyped DEF EventTypes
  <2>3. [w EXCEPT !.status = "dead_letter", !.failure = c] \in Work
    <3>1. c \in FailureCategory
      BY FailuresAssumption
    <3>. QED BY <2>1, <3>1, WorkBuried
  <2>4. sessionWork' \in Work /\ topics' \in [Topics -> TopicRun]
    BY <1>6, <2>1, <2>3
  <2>. QED BY <1>8, <2>2, <2>4 DEF TypeOK, DeadLetterWork, Phases
<1>. QED BY <1>1, <1>2, <1>3, <1>4, <1>5, <1>7, <1>8

\* Every command of the learner keeps the state typed.
LEMMA LearnerStepTyped == TypeOK /\ LearnerStep => TypeOK'
<1>. SUFFICES ASSUME TypeOK, LearnerStep
              PROVE  TypeOK'
  OBVIOUS
<1>. /\ NoWork \in Work /\ NoClarification \in Clarification
     /\ sessionWork \in Work
     /\ active # None => active \in Topics /\ topics[active] \in TopicRun
                         /\ topics[active].work \in Work
     /\ \A t \in Topics : topics[t] \in TopicRun /\ topics[t].work \in Work
  BY DefaultsTyped, WorkOfTyped
<1>c. Checks \subseteq EvidenceCheck
  BY ChecksAssumption DEF VerifiedChecks
<1>1. ASSUME NEW n \in Names, ChooseTopic(n)
      PROVE  TypeOK'
  <2>1. /\ sequence' \in Nat /\ version' \in Nat /\ Next1 \in Nat
        /\ event' \in [type : EventTypes, work : Work]
    BY <1>1, CommitTyped DEF ChooseTopic, EventTypes
  <2>2. Queued(Next1, "topic_selection", None) \in Work
    BY <2>1, QueuedTyped
  <2>. QED BY <1>1, <2>1, <2>2 DEF TypeOK, ChooseTopic, Phases, runs
<1>2. ASSUME NEW q \in Questions, AnswerTopicClarification(q)
      PROVE  TypeOK'
  <2>1. /\ sequence' \in Nat /\ version' \in Nat /\ Next1 \in Nat
        /\ event' \in [type : EventTypes, work : Work]
    BY <1>2, CommitTyped DEF AnswerTopicClarification, EventTypes
  <2>2. Queued(Next1, "topic_selection", q) \in Work
    BY <2>1, QueuedTyped
  <2>. QED BY <1>2, <2>1, <2>2
           DEF TypeOK, AnswerTopicClarification, Phases, Clarification, runs
<1>3. ASSUME NEW q \in Questions, NEW turn \in Turns, SubmitLearnerTurn(q, turn)
      PROVE  TypeOK'
  <2>1. [topics[active] EXCEPT !.turns = @ \cup {turn}] \in TopicRun
    BY <1>3 DEF SubmitLearnerTurn, TopicRun
  <2>. QED BY <1>3, <2>1, AskHostTyped DEF SubmitLearnerTurn, EventTypes
<1>4. ASSUME NEW q \in Questions, NEW e \in Checks, RequestHelp(q, e)
      PROVE  TypeOK'
  BY <1>4, AskHostTyped DEF RequestHelp, EventTypes
<1>5. ASSUME NEW l \in Lenses, NEW e \in Checks, SetLens(l, e)
      PROVE  TypeOK'
  <2>1. [topics[active] EXCEPT !.lens = l] \in TopicRun
    BY <1>5 DEF SetLens, TopicRun
  <2>2. (IF topics[active].question # None
         THEN topics[active].question ELSE topics[active].work.parent) \in Parents
    BY <1>5 DEF SetLens, TopicRun, Work
  <2>. QED BY <1>5, <2>1, <2>2, AskHostTyped DEF SetLens, EventTypes
<1>6. CASE PauseTopic
  <2>1. /\ sequence' \in Nat /\ version' \in Nat
        /\ event' \in [type : EventTypes, work : Work]
    BY <1>6, CommitTyped DEF PauseTopic, EventTypes
  <2>. QED BY <1>6, <2>1, SetAsideTyped DEF TypeOK, PauseTopic, Phases, setup
<1>7. CASE SwitchTopic
  <2>1. /\ sequence' \in Nat /\ version' \in Nat /\ Next1 \in Nat
        /\ event' \in [type : EventTypes, work : Work]
    BY <1>7, CommitTyped DEF SwitchTopic, EventTypes
  <2>2. Queued(Next1, "topic_candidates", None) \in Work
    BY <2>1, QueuedTyped
  <2>. QED BY <1>7, <2>1, <2>2, SetAsideTyped DEF TypeOK, SwitchTopic, ClearSetup, Phases
<1>8. CASE ExploreTopics
  <2>1. /\ sequence' \in Nat /\ version' \in Nat /\ Next1 \in Nat
        /\ event' \in [type : EventTypes, work : Work]
    BY <1>8, CommitTyped DEF ExploreTopics, EventTypes
  <2>2. Queued(Next1, "topic_candidates", None) \in Work
    BY <2>1, QueuedTyped
  <2>. QED BY <1>8, <2>1, <2>2 DEF TypeOK, ExploreTopics, ClearSetup, Phases, runs
<1>9. ASSUME NEW t \in Topics, NEW e \in Checks, ResumeTopic(t, e)
      PROVE  TypeOK'
  <2>1. /\ sequence' \in Nat /\ version' \in Nat /\ Next1 \in Nat
        /\ event' \in [type : EventTypes, work : Work]
    BY <1>9, CommitTyped DEF ResumeTopic, EventTypes
  <2>2. Regrounded(topics[t], e, Queued(Next1, "reground", None)) \in TopicRun
    BY <1>c, <2>1, QueuedTyped, RegroundedTyped
  <2>3. Revived(topics[t].work) \in Work
    BY <2>1, ReplacedWorkTyped DEF TypeOK
  <2>4. [topics[t] EXCEPT !.work = Revived(topics[t].work)] \in TopicRun
    BY <2>3 DEF TopicRun
  <2>5. topics' \in [Topics -> TopicRun] /\ phase' \in Phases
    BY <1>9, <2>2, <2>4 DEF ResumeTopic, TypeOK, Phases
  <2>. QED BY <1>9, <2>1, <2>5 DEF TypeOK, ResumeTopic, setup
<1>10. ASSUME NEW id \in Issued, RecoverSessionWork(id)
       PROVE  TypeOK'
  <2>1. /\ sequence' \in Nat /\ version' \in Nat
        /\ event' \in [type : EventTypes, work : Work]
    BY <1>10, CommitTyped DEF RecoverSessionWork, EventTypes
  <2>2. Revived(sessionWork) \in Work
    BY ReplacedWorkTyped DEF TypeOK
  <2>. QED BY <1>10, <2>1, <2>2 DEF TypeOK, RecoverSessionWork, Phases, runs
<1>11. ASSUME NEW id \in Issued, NEW t \in Topics, NEW action \in {"retry", "reground"},
              NEW e \in Checks, RecoverTopicWork(id, t, action, e)
       PROVE  TypeOK'
  <2>1. /\ sequence' \in Nat /\ version' \in Nat /\ Next1 \in Nat
        /\ event' \in [type : EventTypes, work : Work]
    BY <1>11, CommitTyped DEF RecoverTopicWork, EventTypes
  <2>2. topics[t].work.parent \in Parents
    BY DEF Work
  <2>3. Regrounded(topics[t], e, Queued(Next1, "reground", topics[t].work.parent)) \in TopicRun
    BY <1>c, <2>1, <2>2, QueuedTyped, RegroundedTyped
  <2>4. Revived(topics[t].work) \in Work
    BY ReplacedWorkTyped DEF TypeOK
  <2>5. [topics[t] EXCEPT !.evidence = e, !.question = None,
                          !.work = Revived(topics[t].work)] \in TopicRun
    BY <1>c, <2>4 DEF TopicRun
  <2>. QED BY <1>11, <2>1, <2>3, <2>5 DEF TypeOK, RecoverTopicWork, Phases, setup
<1>. QED BY <1>1, <1>2, <1>3, <1>4, <1>5, <1>6, <1>7, <1>8, <1>9, <1>10, <1>11
         DEF LearnerStep, SelectTopic, SubmitCustomTopic

\* Every step of the runtime keeps the state typed.
LEMMA RuntimeStepTyped == TypeOK /\ RuntimeStep => TypeOK'
<1>. SUFFICES ASSUME TypeOK, RuntimeStep
              PROVE  TypeOK'
  OBVIOUS
<1>. /\ NoWork \in Work /\ NoClarification \in Clarification
     /\ sessionWork \in Work
     /\ active # None => active \in Topics /\ topics[active].work \in Work
  BY DefaultsTyped, WorkOfTyped
<1>1. CASE StartSession
  <2>1. /\ sequence' \in Nat /\ version' \in Nat /\ Next1 \in Nat
        /\ event' \in [type : EventTypes, work : Work]
    BY <1>1, CommitTyped DEF StartSession, EventTypes
  <2>2. Queued(Next1, "topic_candidates", None) \in Work
    BY <2>1, QueuedTyped
  <2>. QED BY <1>1, <2>1, <2>2 DEF TypeOK, StartSession, Phases, runs
<1>2. ASSUME NEW x \in ExportIds, RequestExport(x)
      PROVE  TypeOK'
  <2>1. /\ sequence' \in Nat /\ version' \in Nat
        /\ event' \in [type : EventTypes, work : Work]
    BY <1>2, CommitTyped DEF RequestExport, EventTypes
  <2>2. [id |-> x, asOf |-> sequence, status |-> "requested"] \in Export
    BY DEF Export, TypeOK
  <2>3. exports' \in Seq(Export)
    BY <1>2, <2>2 DEF RequestExport, TypeOK
  <2>. QED BY <1>2, <2>1, <2>3 DEF TypeOK, RequestExport, setup, runs
<1>3. ASSUME NEW x \in ExportIds, CompleteExport(x)
      PROVE  TypeOK'
  <2>1. /\ sequence' \in Nat /\ version' \in Nat
        /\ event' \in [type : EventTypes, work : Work]
    BY <1>3, CommitTyped DEF CompleteExport, EventTypes
  <2>2. PICK i \in DOMAIN exports : exports' = [exports EXCEPT ![i].status = "completed"]
    BY <1>3 DEF CompleteExport
  <2>3. exports[i] \in Export /\ exports \in Seq(Export)
    BY DEF TypeOK
  <2>4. [exports[i] EXCEPT !.status = "completed"] \in Export
    BY <2>3 DEF Export
  <2>5. exports' \in Seq(Export)
    BY <2>2, <2>3, <2>4
  <2>. QED BY <1>3, <2>1, <2>5 DEF TypeOK, CompleteExport, setup, runs
<1>4. CASE BeginHandoff
  BY <1>4 DEF TypeOK, BeginHandoff, setup, runs
<1>5. CASE QuiesceTopic
  <2>1. /\ sequence' \in Nat /\ version' \in Nat
        /\ event' \in [type : EventTypes, work : Work]
    BY <1>5, CommitTyped DEF QuiesceTopic, EventTypes
  <2>. QED BY <1>5, <2>1, SetAsideTyped DEF TypeOK, QuiesceTopic, Phases, setup
<1>6. CASE QuiesceSetup
  <2>1. /\ sequence' \in Nat /\ version' \in Nat
        /\ event' \in [type : EventTypes, work : Work]
    BY <1>6, CommitTyped DEF QuiesceSetup, EventTypes
  <2>. QED BY <1>6, <2>1 DEF TypeOK, QuiesceSetup, ClearSetup, Phases, runs
<1>7. CASE QuiesceIdle
  BY <1>7 DEF TypeOK, QuiesceIdle, setup, runs
<1>. QED BY <1>1, <1>2, <1>3, <1>4, <1>5, <1>6, <1>7 DEF RuntimeStep

\* The state keeps its shape in every behaviour; in particular no work is ever
\* attempted more than MAX_AUTOMATIC_WORK_ATTEMPTS times (_automatic_retry_allowed).
THEOREM TypeCorrect == Spec => []TypeOK
<1>1. Init => TypeOK
  BY DefaultsTyped DEF Init, TypeOK, Phases, EventTypes
<1>2. TypeOK /\ [Next]_vars => TypeOK'
  <2>1. CASE UNCHANGED vars
    BY <2>1 DEF TypeOK, vars, setup, runs
  <2>. QED BY <2>1, HostStepTyped, LearnerStepTyped, RuntimeStepTyped DEF Next
<1>. QED BY <1>1, <1>2, PTL DEF Spec

-----------------------------------------------------------------------------
(***************************************************************************)
(* The safety invariants and the actions the steps may never take, from    *)
(* one inductive invariant.                                                *)
(***************************************************************************)

\* Who owns the floor, read off the phase without counting open work: the
\* pending work is the active topic's, or the session's when none is active.
Pending(status) ==
    IF active = None
    THEN sessionWork.status = status
    ELSE /\ sessionWork = NoWork
         /\ topics[active].work.status = status
         /\ topics[active].question = None

Floor ==
    /\ phase = "waiting_host" => Pending("queued")
    /\ phase = "recoverable_error" => Pending("dead_letter")
    /\ phase = "awaiting_user" =>
        /\ active # None /\ sessionWork = NoWork
        /\ topics[active].question # None /\ topics[active].work = NoWork
        /\ topics[active].evidence.health \in Publishable
    /\ phase \in {"none", "choosing_topic", "clarifying_topic"} =>
        active = None /\ sessionWork = NoWork

\* Only the active topic can own queued work.
OnlyActiveIsQueued ==
    \A t \in Topics : topics[t].work.status = "queued" => t = active

\* The inductive invariant.  Floor needs the other parts: a paused run that is
\* resumed must hold either a question or parked work, and what a Host answers
\* at session level must fit the stored selection.
IInv ==
    /\ TypeOK
    /\ Floor
    /\ SelectionIsAnswerable
    /\ SetAsideOwnsNoWork
    /\ OnlyActiveIsQueued

-----------------------------------------------------------------------------
\* The flat form implies the one stated of the system, which counts open work.
LEMMA FloorImpliesFloorIsOwned ==
    ASSUME TypeOK, Floor
    PROVE  FloorIsOwned
<1>1. CASE active = None
  BY <1>1 DEF Floor, Pending, FloorIsOwned, OpenWork, NoWork, TypeOK
<1>2. CASE active # None
  BY <1>2 DEF Floor, Pending, FloorIsOwned, OpenWork, NoWork, TypeOK
<1>. QED BY <1>1, <1>2

\* A failing work is the pending one, and replacing it replaces exactly that.
LEMMA ReplacedPending ==
    ASSUME TypeOK, Floor, phase = "waiting_host",
           NEW id, NEW w \in Failing(id), NEW replacement,
           ReplaceWork(w, replacement)
    PROVE  \/ /\ active = None /\ w = sessionWork /\ sessionWork' = replacement
              /\ topics' = topics
           \/ /\ active \in Topics /\ w = topics[active].work /\ w # sessionWork
              /\ sessionWork' = sessionWork
              /\ topics' = [topics EXCEPT ![active].work = replacement]
<1>1. w.status = "queued" /\ w \in OpenWork
  BY DEF Failing
<1>2. CASE active = None
  BY <1>1, <1>2 DEF OpenWork, ReplaceWork
<1>3. CASE active # None
  <2>1. sessionWork = NoWork /\ sessionWork # w
    BY <1>1, <1>3 DEF Floor, Pending, NoWork
  <2>. QED BY <1>1, <1>3, <2>1, WorkOfTyped DEF OpenWork, ReplaceWork
<1>. QED BY <1>2, <1>3

-----------------------------------------------------------------------------
\* A Host command preserves the invariant.
LEMMA HostStepInvariant == IInv /\ HostStep => IInv'
<1>. SUFFICES ASSUME IInv, HostStep
              PROVE  IInv'
  OBVIOUS
<1>0. TypeOK /\ TypeOK'
  BY HostStepTyped DEF IInv
<1>. /\ NoWork.status = "none" /\ NoWork.kind = "none"
     /\ active # None => active \in Topics
     /\ topics \in [Topics -> TopicRun]
  BY <1>0 DEF NoWork, TypeOK
<1>1. ASSUME NEW id \in Issued, NEW names \in SUBSET Names, PresentCandidates(id, names)
      PROVE  IInv'
  <2>1. names # {}
    BY <1>1, FS_EmptySet DEF PresentCandidates
  <2>. QED BY <1>0, <1>1, <2>1 DEF IInv, PresentCandidates, Floor, Pending,
          SelectionIsAnswerable, SetAsideOwnsNoWork, OnlyActiveIsQueued, runs
<1>2. ASSUME NEW id \in Issued, NEW q \in Questions, RequestTopicClarification(id, q)
      PROVE  IInv'
  <2>1. [question |-> q, answered |-> FALSE] # NoClarification
    BY NoneAssumption DEF NoClarification
  <2>. QED BY <1>0, <1>2, <2>1 DEF IInv, RequestTopicClarification, Floor, Pending,
          SelectionIsAnswerable, SetAsideOwnsNoWork, OnlyActiveIsQueued, runs
<1>3. ASSUME NEW id \in Issued, NEW t \in Topics, NEW l \in Lenses, NEW e \in Checks,
             StartTopic(id, t, l, e)
      PROVE  IInv'
  BY <1>0, <1>3, NoneIsFresh DEF IInv, StartTopic, Floor, Pending,
          SelectionIsAnswerable, SetAsideOwnsNoWork, OnlyActiveIsQueued, Queued, Unstarted, Used
<1>4. ASSUME NEW id \in Issued, NEW turn \in AgentTurns, NEW e \in Checks,
             CommitAgentTurn(id, turn, e)
      PROVE  IInv'
  <2>1. turn.question # None
    BY AgentTurnsAssumption, NoneAssumption DEF AgentTurn
  <2>. QED BY <1>0, <1>4, <2>1 DEF IInv, CommitAgentTurn, Floor, Pending,
          SelectionIsAnswerable, SetAsideOwnsNoWork, OnlyActiveIsQueued, setup, TopicRun
<1>5. ASSUME NEW id \in Issued, NEW s \in SUBSET Entries, NEW e \in Checks,
             CompleteTopic(id, s, e)
      PROVE  IInv'
  <2>1. /\ active \in Topics /\ active' = None /\ phase' = "none"
        /\ completed' = completed \cup {active} /\ paused' = paused
        /\ topics'[active].question = None /\ topics'[active].work = NoWork
        /\ \A t \in Topics \ {active} : topics'[t] = topics[t]
    BY <1>0, <1>5 DEF CompleteTopic, TopicRun
  <2>2. sessionWork = NoWork /\ UNCHANGED setup
    BY <1>5 DEF IInv, Floor, Pending, CompleteTopic
  <2>3. Floor'
    BY <2>1, <2>2 DEF Floor, setup
  <2>4. SelectionIsAnswerable'
    BY <1>5, <2>1, <2>2 DEF IInv, CompleteTopic, SelectionIsAnswerable, setup
  <2>5. SetAsideOwnsNoWork'
    BY <2>1, NoneIsFresh, <1>0 DEF IInv, SetAsideOwnsNoWork, TypeOK
  <2>6. OnlyActiveIsQueued'
    BY <2>1 DEF IInv, OnlyActiveIsQueued
  <2>. QED BY <1>0, <2>3, <2>4, <2>5, <2>6 DEF IInv
<1>6. ASSUME NEW id \in Issued, NEW c \in Failures, RequeueWork(id, c)
      PROVE  IInv'
  <2>. DEFINE again(w) == [Queued(sequence + 2, w.kind, w.parent) EXCEPT
                              !.attempt = w.attempt + 1, !.failure = c]
  <2>. PICK w \in Failing(id) : Automatic(w, c) /\ ReplaceWork(w, again(w))
    BY <1>6 DEF RequeueWork
  <2>1. again(w).status = "queued" /\ again(w).kind = w.kind
    BY DEF Queued
  <2>2. \/ /\ active = None /\ w = sessionWork /\ sessionWork' = again(w)
           /\ topics' = topics
        \/ /\ active \in Topics /\ w = topics[active].work /\ w # sessionWork
           /\ sessionWork' = sessionWork
           /\ topics' = [topics EXCEPT ![active].work = again(w)]
    BY <1>0, <1>6, ReplacedPending DEF IInv, RequeueWork
  <2>3. CASE active = None
    <3>1. Floor' /\ SelectionIsAnswerable'
      BY <1>6, <2>1, <2>2, <2>3 DEF IInv, RequeueWork, Floor, Pending, SelectionIsAnswerable
    <3>2. SetAsideOwnsNoWork' /\ OnlyActiveIsQueued'
      BY <1>6, <2>2, <2>3, NoneIsFresh DEF IInv, RequeueWork, SetAsideOwnsNoWork, OnlyActiveIsQueued
    <3>. QED BY <1>0, <3>1, <3>2 DEF IInv
  <2>4. CASE active # None
    <3>1. /\ topics'[active].work.status = "queued"
          /\ topics'[active].question = topics[active].question
          /\ \A t \in Topics \ {active} : topics'[t] = topics[t]
      <4>. DEFINE n == again(w)
      <4>. HIDE DEF n
      <4>1. topics' = [topics EXCEPT ![active].work = n] /\ active \in Topics
        BY <2>2, <2>4 DEF n
      <4>2. topics'[active] = [topics[active] EXCEPT !.work = n]
        BY <1>0, <4>1
      <4>3. topics'[active].work = n /\ topics'[active].question = topics[active].question
        BY <1>0, <4>1, <4>2 DEF TopicRun
      <4>. QED BY <1>0, <2>1, <4>1, <4>3 DEF n
    <3>2. Floor' /\ SelectionIsAnswerable'
      BY <1>6, <2>2, <2>4, <3>1 DEF IInv, RequeueWork, Floor, Pending, SelectionIsAnswerable
    <3>3. SetAsideOwnsNoWork' /\ OnlyActiveIsQueued'
      BY <1>0, <1>6, <2>2, <2>4, <3>1
         DEF IInv, RequeueWork, SetAsideOwnsNoWork, OnlyActiveIsQueued, TypeOK
    <3>. QED BY <1>0, <3>2, <3>3 DEF IInv
  <2>. QED BY <2>3, <2>4
<1>7. ASSUME NEW id \in Issued, NEW c \in Failures, DeadLetterWork(id, c)
      PROVE  IInv'
  <2>. DEFINE dead(w) == [w EXCEPT !.status = "dead_letter", !.failure = c]
  <2>. PICK w \in Failing(id) : ReplaceWork(w, dead(w))
    BY <1>7 DEF DeadLetterWork
  <2>1. w \in Work
    BY <1>0, WorkOfTyped DEF Failing, OpenWork
  <2>2. dead(w).status = "dead_letter" /\ dead(w).kind = w.kind
    BY <2>1 DEF Work
  <2>3. \/ /\ active = None /\ w = sessionWork /\ sessionWork' = dead(w)
           /\ topics' = topics
        \/ /\ active \in Topics /\ w = topics[active].work /\ w # sessionWork
           /\ sessionWork' = sessionWork
           /\ topics' = [topics EXCEPT ![active].work = dead(w)]
    BY <1>0, <1>7, ReplacedPending DEF IInv, DeadLetterWork
  <2>4. CASE active = None
    <3>1. Floor' /\ SelectionIsAnswerable'
      BY <1>7, <2>2, <2>3, <2>4, NoneIsFresh DEF IInv, DeadLetterWork, Floor, Pending, SelectionIsAnswerable
    <3>2. SetAsideOwnsNoWork' /\ OnlyActiveIsQueued'
      BY <1>7, <2>3, <2>4, NoneIsFresh DEF IInv, DeadLetterWork, SetAsideOwnsNoWork, OnlyActiveIsQueued
    <3>. QED BY <1>0, <3>1, <3>2 DEF IInv
  <2>5. CASE active # None
    <3>1. /\ topics'[active].work.status = "dead_letter"
          /\ topics'[active].question = topics[active].question
          /\ \A t \in Topics \ {active} : topics'[t] = topics[t]
      BY ZenonT(60), <1>0, <2>2, <2>3, <2>5 DEF TopicRun
    <3>2. Floor' /\ SelectionIsAnswerable'
      BY <1>7, <2>3, <2>5, <3>1 DEF IInv, DeadLetterWork, Floor, Pending, SelectionIsAnswerable
    <3>3. SetAsideOwnsNoWork' /\ OnlyActiveIsQueued'
      BY <1>0, <1>7, <2>3, <2>5, <3>1
         DEF IInv, DeadLetterWork, SetAsideOwnsNoWork, OnlyActiveIsQueued, TypeOK
    <3>. QED BY <1>0, <3>2, <3>3 DEF IInv
  <2>. QED BY <2>4, <2>5
<1>. QED BY <1>1, <1>2, <1>3, <1>4, <1>5, <1>6, <1>7 DEF HostStep

\* Handing the floor of an active topic to the Host preserves the invariant.
LEMMA AskHostInvariant ==
    ASSUME IInv, TypeOK', active # None, phase \in {"awaiting_user", "waiting_host"},
           NEW type, NEW kind, NEW parent, NEW record \in TopicRun,
           AskHost(type, kind, parent, record)
    PROVE  IInv'
<1>1. active \in Topics /\ topics \in [Topics -> TopicRun]
  BY DEF IInv, TypeOK
<1>2. /\ topics'[active].work.status = "queued" /\ topics'[active].question = None
      /\ \A t \in Topics \ {active} : topics'[t] = topics[t]
  BY <1>1 DEF AskHost, Queued, TopicRun
<1>3. sessionWork = NoWork /\ phase' = "waiting_host" /\ active' = active
      /\ sessionWork' = sessionWork
  BY DEF IInv, AskHost, Floor, Pending, setup
<1>. QED BY <1>1, <1>2, <1>3 DEF IInv, AskHost, Floor, Pending,
        SelectionIsAnswerable, SetAsideOwnsNoWork, OnlyActiveIsQueued, setup

\* What setting the active topic aside leaves behind: the open question, or
\* work nobody can answer.
LEMMA SetAsideLeaves ==
    ASSUME IInv, active # None, SetAside
    PROVE  /\ active \in Topics /\ active' = None
           /\ \/ topics'[active].question # None /\ topics'[active].work = NoWork
              \/ /\ topics'[active].question = None
                 /\ topics'[active].work.status \in {"superseded", "dead_letter"}
           /\ \A t \in Topics \ {active} : topics'[t] = topics[t]
           /\ paused' = paused \cup {active} /\ completed' = completed
           /\ sessionWork = NoWork
<1>1. active \in Topics /\ topics \in [Topics -> TopicRun]
  BY DEF IInv, TypeOK
<1>2. topics[active].work \in Work
  BY <1>1 DEF TopicRun
<1>3. topics'[active] = [topics[active] EXCEPT !.work = Superseded(topics[active].work)]
  BY <1>1 DEF SetAside
<1>4. /\ topics'[active].question = topics[active].question
      /\ topics'[active].work = Superseded(topics[active].work)
  BY <1>1, <1>3 DEF TopicRun
<1>5. phase \in {"awaiting_user", "waiting_host", "recoverable_error"}
  BY DEF IInv, TypeOK, Floor, Phases
<1>. QED BY <1>1, <1>2, <1>4, <1>5
         DEF SetAside, IInv, Floor, Pending, Superseded, NoWork, Work

\* Once a topic is set aside the rest of the invariant follows from what the
\* session does next: nothing, or queue its own work.
LEMMA LeftInvariant ==
    ASSUME IInv, TypeOK', active \in Topics, active' = None,
           \/ topics'[active].question # None /\ topics'[active].work = NoWork
           \/ /\ topics'[active].question = None
              /\ topics'[active].work.status \in {"superseded", "dead_letter"},
           \A t \in Topics \ {active} : topics'[t] = topics[t],
           paused' = paused \cup {active}, completed' = completed, sessionWork = NoWork,
           \/ phase' = "none" /\ UNCHANGED setup
           \/ /\ phase' = "waiting_host" /\ ClearSetup
              /\ sessionWork'.status = "queued" /\ sessionWork'.kind = "topic_candidates"
    PROVE  IInv'
<1>0. NoWork.status = "none" /\ NoWork.kind = "none" /\ active # None
  BY NoneIsFresh DEF NoWork
<1>1. Floor'
  BY DEF Floor, Pending, setup
<1>2. SelectionIsAnswerable'
  <2>1. phase \in {"awaiting_user", "waiting_host", "recoverable_error"}
    BY <1>0 DEF IInv, TypeOK, Floor, Phases
  <2>2. candidates = {} /\ selected = None /\ clarification = NoClarification
    BY <1>0, <2>1 DEF IInv, SelectionIsAnswerable
  <2>3. candidates' = {} /\ selected' = None /\ clarification' = NoClarification
    BY <2>2 DEF setup, ClearSetup
  <2>4. sessionWork' = NoWork \/ sessionWork'.kind = "topic_candidates"
    BY <1>0 DEF setup
  <2>. QED BY <1>0, <2>3, <2>4 DEF SelectionIsAnswerable
<1>3. SetAsideOwnsNoWork'
  BY NoneIsFresh DEF IInv, SetAsideOwnsNoWork, TypeOK
<1>4. OnlyActiveIsQueued'
  BY <1>0 DEF IInv, OnlyActiveIsQueued
<1>. QED BY <1>1, <1>2, <1>3, <1>4 DEF IInv

\* A paused run that becomes active again preserves what is said of the others.
LEMMA ReactivatedInvariant ==
    ASSUME IInv, TypeOK', NEW t \in Topics,
           \/ t \in paused /\ phase = "none"
           \/ t = active /\ phase = "recoverable_error",
           active' = t, paused' = paused \ {t}, UNCHANGED <<setup, completed>>,
           \A u \in Topics \ {t} : topics'[u] = topics[u],
           \/ /\ phase' = "waiting_host"
              /\ topics'[t].work.status = "queued" /\ topics'[t].question = None
           \/ /\ phase' = "awaiting_user"
              /\ topics'[t].work = NoWork /\ topics'[t].question # None
              /\ topics'[t].evidence.health \in Publishable
    PROVE  IInv'
<1>1. sessionWork = NoWork /\ t # None
  <2>1. t # None
    BY NoneIsFresh
  <2>. QED BY <2>1 DEF IInv, Floor, Pending
<1>2. Floor'
  BY <1>1 DEF Floor, Pending, setup
<1>3. SelectionIsAnswerable'
  BY <1>1 DEF IInv, SelectionIsAnswerable, setup, NoWork
<1>4. SetAsideOwnsNoWork'
  BY DEF IInv, SetAsideOwnsNoWork, TypeOK
<1>5. OnlyActiveIsQueued'
  <2>1. active = None \/ active = t
    BY DEF IInv, Floor
  <2>. QED BY <2>1, NoneIsFresh DEF IInv, OnlyActiveIsQueued
<1>. QED BY <1>2, <1>3, <1>4, <1>5 DEF IInv

\* A command of the learner preserves the invariant.
LEMMA LearnerStepInvariant == IInv /\ LearnerStep => IInv'
<1>. SUFFICES ASSUME IInv, LearnerStep
              PROVE  IInv'
  OBVIOUS
<1>0. TypeOK /\ TypeOK'
  BY LearnerStepTyped DEF IInv
<1>. /\ NoWork.status = "none" /\ NoWork.kind = "none"
     /\ active # None => active \in Topics
     /\ topics \in [Topics -> TopicRun]
  BY <1>0 DEF NoWork, TypeOK
<1>1. ASSUME NEW n \in Names, ChooseTopic(n)
      PROVE  IInv'
  <2>1. sessionWork'.status = "queued" /\ sessionWork'.kind = "topic_selection"
    BY <1>1 DEF ChooseTopic, Queued
  <2>2. Floor'
    BY <1>1, <2>1 DEF ChooseTopic, Floor, Pending, runs
  <2>3. SelectionIsAnswerable'
    BY <1>1, <2>1, NoneIsFresh DEF ChooseTopic, SelectionIsAnswerable
  <2>4. SetAsideOwnsNoWork' /\ OnlyActiveIsQueued'
    BY <1>1 DEF IInv, ChooseTopic, SetAsideOwnsNoWork, OnlyActiveIsQueued, runs
  <2>. QED BY <1>0, <2>2, <2>3, <2>4 DEF IInv
<1>2. ASSUME NEW q \in Questions, AnswerTopicClarification(q)
      PROVE  IInv'
  <2>1. clarification' # NoClarification /\ clarification'.answered
    BY <1>2, NoneAssumption DEF AnswerTopicClarification, NoClarification
  <2>2. sessionWork'.status = "queued" /\ sessionWork'.kind = "topic_selection"
    BY <1>2 DEF AnswerTopicClarification, Queued
  <2>3. Floor'
    BY <1>2, <2>2 DEF AnswerTopicClarification, Floor, Pending, runs
  <2>4. SelectionIsAnswerable'
    BY <1>2, <2>1, <2>2 DEF IInv, AnswerTopicClarification, SelectionIsAnswerable, runs
  <2>5. SetAsideOwnsNoWork' /\ OnlyActiveIsQueued'
    BY <1>2 DEF IInv, AnswerTopicClarification, SetAsideOwnsNoWork, OnlyActiveIsQueued, runs
  <2>. QED BY <1>0, <2>3, <2>4, <2>5 DEF IInv
<1>3. ASSUME NEW q \in Questions, NEW turn \in Turns, SubmitLearnerTurn(q, turn)
      PROVE  IInv'
  <2>1. [topics[active] EXCEPT !.turns = @ \cup {turn}] \in TopicRun
    BY <1>3 DEF SubmitLearnerTurn, TopicRun
  <2>. QED BY <1>0, <1>3, <2>1, AskHostInvariant DEF SubmitLearnerTurn
<1>4. ASSUME NEW q \in Questions, NEW e \in Checks, RequestHelp(q, e)
      PROVE  IInv'
  BY <1>0, <1>4, AskHostInvariant DEF RequestHelp
<1>5. ASSUME NEW l \in Lenses, NEW e \in Checks, SetLens(l, e)
      PROVE  IInv'
  <2>1. [topics[active] EXCEPT !.lens = l] \in TopicRun
    BY <1>5 DEF SetLens, TopicRun
  <2>. QED BY <1>0, <1>5, <2>1, AskHostInvariant DEF SetLens
<1>6. CASE PauseTopic
  <2>1. active # None /\ SetAside /\ phase' = "none" /\ UNCHANGED setup
    BY <1>6 DEF PauseTopic
  <2>. QED BY <1>0, <2>1, SetAsideLeaves, LeftInvariant
<1>7. CASE SwitchTopic
  <2>1. active # None /\ SetAside /\ phase' = "waiting_host" /\ ClearSetup
        /\ sessionWork'.status = "queued" /\ sessionWork'.kind = "topic_candidates"
    BY <1>7 DEF SwitchTopic, Queued
  <2>. QED BY <1>0, <2>1, SetAsideLeaves, LeftInvariant
<1>8. CASE ExploreTopics
  <2>1. sessionWork'.status = "queued" /\ sessionWork'.kind = "topic_candidates"
    BY <1>8 DEF ExploreTopics, Queued
  <2>2. Floor'
    BY <1>8, <2>1 DEF ExploreTopics, Floor, Pending, runs
  <2>3. SelectionIsAnswerable'
    BY <1>8, <2>1 DEF ExploreTopics, ClearSetup, SelectionIsAnswerable
  <2>4. SetAsideOwnsNoWork' /\ OnlyActiveIsQueued'
    BY <1>8 DEF IInv, ExploreTopics, SetAsideOwnsNoWork, OnlyActiveIsQueued, runs
  <2>. QED BY <1>0, <2>2, <2>3, <2>4 DEF IInv
<1>9. ASSUME NEW t \in Topics, NEW e \in Checks, ResumeTopic(t, e)
      PROVE  IInv'
  <2>1. /\ t \in paused /\ phase = "none" /\ active = None
        /\ active' = t /\ paused' = paused \ {t} /\ UNCHANGED <<setup, completed>>
    BY <1>9 DEF ResumeTopic
  <2>2. \A u \in Topics \ {t} : topics'[u] = topics[u]
    BY <1>9 DEF ResumeTopic
  <2>3. \/ /\ phase' = "waiting_host"
           /\ topics'[t].work.status = "queued" /\ topics'[t].question = None
        \/ /\ phase' = "awaiting_user"
           /\ topics'[t].work = NoWork /\ topics'[t].question # None
           /\ topics'[t].evidence.health \in Publishable
    <3>1. CASE e # topics[t].evidence \/ e.health \notin Publishable
      <4>1. topics' = [topics EXCEPT ![t] =
                          Regrounded(topics[t], e, Queued(Next1, "reground", None))]
            /\ phase' = "waiting_host"
        BY <1>9, <3>1 DEF ResumeTopic
      <4>. QED BY <4>1 DEF Regrounded, Queued, TopicRun
    <3>2. CASE e = topics[t].evidence /\ e.health \in Publishable /\ topics[t].question # None
      <4>1. topics' = topics /\ phase' = "awaiting_user"
        BY <1>9, <3>2 DEF ResumeTopic
      <4>. QED BY <2>1, <3>2, <4>1 DEF IInv, SetAsideOwnsNoWork
    <3>3. CASE e = topics[t].evidence /\ e.health \in Publishable /\ topics[t].question = None
      <4>1. topics' = [topics EXCEPT ![t].work = Revived(topics[t].work)]
            /\ phase' = "waiting_host"
        BY <1>9, <3>3 DEF ResumeTopic
      <4>. QED BY <3>3, <4>1 DEF Revived, Queued, TopicRun
    <3>. QED BY <3>1, <3>2, <3>3
  <2>. QED BY <1>0, <2>1, <2>2, <2>3, ReactivatedInvariant
<1>10. ASSUME NEW id \in Issued, RecoverSessionWork(id)
       PROVE  IInv'
  <2>1. active = None
    BY <1>10 DEF IInv, RecoverSessionWork, Floor, Pending
  <2>2. Revived(sessionWork).status = "queued" /\ Revived(sessionWork).kind = sessionWork.kind
    BY DEF Revived, Queued
  <2>. QED BY <1>0, <1>10, <2>1, <2>2 DEF IInv, RecoverSessionWork, Floor, Pending,
          SelectionIsAnswerable, SetAsideOwnsNoWork, OnlyActiveIsQueued, runs
<1>11. ASSUME NEW id \in Issued, NEW t \in Topics, NEW action \in {"retry", "reground"},
              NEW e \in Checks, RecoverTopicWork(id, t, action, e)
       PROVE  IInv'
  <2>1. /\ \/ t \in paused /\ phase = "none"
           \/ t = active /\ phase = "recoverable_error"
        /\ active' = t /\ paused' = paused \ {t} /\ UNCHANGED <<setup, completed>>
        /\ phase' = "waiting_host"
    BY <1>11 DEF RecoverTopicWork
  <2>2. \A u \in Topics \ {t} : topics'[u] = topics[u]
    BY <1>11 DEF RecoverTopicWork
  <2>3. topics'[t].work.status = "queued" /\ topics'[t].question = None
    <3>1. CASE action = "reground"
      BY <1>11, <3>1 DEF RecoverTopicWork, Regrounded, Queued, TopicRun
    <3>2. CASE action # "reground"
      BY <1>11, <3>2 DEF RecoverTopicWork, Revived, Queued, TopicRun
    <3>. QED BY <3>1, <3>2
  <2>. QED BY <1>0, <2>1, <2>2, <2>3, ReactivatedInvariant
<1>. QED BY <1>1, <1>2, <1>3, <1>4, <1>5, <1>6, <1>7, <1>8, <1>9, <1>10, <1>11
         DEF LearnerStep, SelectTopic, SubmitCustomTopic

\* A step of the runtime preserves the invariant.
LEMMA RuntimeStepInvariant == IInv /\ RuntimeStep => IInv'
<1>. SUFFICES ASSUME IInv, RuntimeStep
              PROVE  IInv'
  OBVIOUS
<1>0. TypeOK /\ TypeOK'
  BY RuntimeStepTyped DEF IInv
<1>. NoWork.status = "none" /\ NoWork.kind = "none"
  BY DEF NoWork
<1>1. CASE StartSession
  <2>1. sessionWork'.status = "queued" /\ sessionWork'.kind = "topic_candidates"
    BY <1>1 DEF StartSession, Queued
  <2>2. Floor'
    BY <1>1, <2>1 DEF IInv, StartSession, Floor, Pending, runs
  <2>3. SelectionIsAnswerable'
    BY <1>1, <2>1 DEF IInv, StartSession, Floor, SelectionIsAnswerable
  <2>4. SetAsideOwnsNoWork' /\ OnlyActiveIsQueued'
    BY <1>1 DEF IInv, StartSession, SetAsideOwnsNoWork, OnlyActiveIsQueued, runs
  <2>. QED BY <1>0, <2>2, <2>3, <2>4 DEF IInv
<1>2. ASSUME UNCHANGED <<phase, setup, runs>>
      PROVE  IInv'
  BY <1>0, <1>2 DEF IInv, Floor, Pending, SelectionIsAnswerable, SetAsideOwnsNoWork,
     OnlyActiveIsQueued, setup, runs
<1>3. CASE QuiesceTopic
  <2>1. active # None /\ SetAside /\ phase' = "none" /\ UNCHANGED setup
    BY <1>3 DEF QuiesceTopic
  <2>. QED BY <1>0, <2>1, SetAsideLeaves, LeftInvariant
<1>4. CASE QuiesceSetup
  BY <1>0, <1>4 DEF IInv, QuiesceSetup, ClearSetup, Floor,
     SelectionIsAnswerable, SetAsideOwnsNoWork, OnlyActiveIsQueued, runs
<1>. QED BY <1>1, <1>2, <1>3, <1>4
         DEF RuntimeStep, RequestExport, CompleteExport, BeginHandoff, QuiesceIdle

\* A step that changes nothing preserves the invariant.
LEMMA StutterInvariant == IInv /\ UNCHANGED vars => IInv'
BY DEF IInv, TypeOK, Floor, Pending, SelectionIsAnswerable, SetAsideOwnsNoWork,
   OnlyActiveIsQueued, vars, setup, runs

\* The inductive invariant holds of every behaviour.
THEOREM Invariance == Spec => []IInv
<1>1. Init => IInv
  BY DefaultsTyped DEF Init, IInv, TypeOK, Phases, EventTypes, Floor, Pending,
     SelectionIsAnswerable, SetAsideOwnsNoWork, OnlyActiveIsQueued, Unstarted, NoWork
<1>2. IInv /\ [Next]_vars => IInv'
  BY HostStepInvariant, LearnerStepInvariant, RuntimeStepInvariant, StutterInvariant DEF Next
<1>. QED BY <1>1, <1>2, PTL DEF Spec

-----------------------------------------------------------------------------
(***************************************************************************)
(* What follows from the invariant in every state.                         *)
(***************************************************************************)

\* Exactly one party owns the floor in every state (validate_state, design
\* invariants 3 and 4).
THEOREM FloorOwned == Spec => []FloorIsOwned
<1>1. IInv => FloorIsOwned
  BY FloorImpliesFloorIsOwned DEF IInv
<1>. QED BY <1>1, Invariance, PTL

\* The stored selection always fits the step that is pending (validate_state).
THEOREM SelectionAnswerable == Spec => []SelectionIsAnswerable
<1>1. IInv => SelectionIsAnswerable
  BY DEF IInv
<1>. QED BY <1>1, Invariance, PTL

\* Paused and completed Topic Runs own nothing a Host could still answer (design
\* invariant 5).
THEOREM SetAsideIsIdle == Spec => []SetAsideOwnsNoWork
<1>1. IInv => SetAsideOwnsNoWork
  BY DEF IInv
<1>. QED BY <1>1, Invariance, PTL

-----------------------------------------------------------------------------
(***************************************************************************)
(* Quiescing.                                                              *)
(***************************************************************************)

\* A quiesced session has no phase: nothing after the quiesce gives it one.
NoPhaseOnceQuiesced == fence = "quiesced" => phase = "none"

\* A handoff leaves nothing runnable behind, in no topic and at no level, and
\* nothing later makes any (decide_fenced_quiesce, design invariant 1).
THEOREM QuiescedIsIdle == Spec => []QuiescedSessionIsIdle
<1>1. Init => NoPhaseOnceQuiesced
  BY DEF Init, NoPhaseOnceQuiesced
<1>2. NoPhaseOnceQuiesced /\ [Next]_vars => NoPhaseOnceQuiesced'
  <2>. SUFFICES ASSUME NoPhaseOnceQuiesced, [Next]_vars
                PROVE  NoPhaseOnceQuiesced'
    BY SMTT(30)
  <2>1. CASE HostStep
    BY ZenonT(60), <2>1 DEF HostStep, NoPhaseOnceQuiesced, Accepting, PresentCandidates,
       RequestTopicClarification, StartTopic, CommitAgentTurn, CompleteTopic,
       RequeueWork, DeadLetterWork
  <2>2. CASE LearnerStep
    BY <2>2 DEF LearnerStep, NoPhaseOnceQuiesced, Accepting, SelectTopic,
       SubmitCustomTopic, ChooseTopic, AnswerTopicClarification, SubmitLearnerTurn,
       RequestHelp, SetLens, AskHost, PauseTopic, SwitchTopic, ExploreTopics,
       ResumeTopic, RecoverSessionWork, RecoverTopicWork
  <2>3. CASE RuntimeStep
    BY <2>3 DEF RuntimeStep, NoPhaseOnceQuiesced, StartSession, RequestExport,
       CompleteExport, BeginHandoff, QuiesceTopic, QuiesceSetup, QuiesceIdle
  <2>4. CASE UNCHANGED vars
    BY <2>4 DEF NoPhaseOnceQuiesced, vars
  <2>. QED BY <2>1, <2>2, <2>3, <2>4 DEF Next
<1>3. IInv /\ NoPhaseOnceQuiesced => QuiescedSessionIsIdle
  BY NoneIsFresh DEF IInv, NoPhaseOnceQuiesced, QuiescedSessionIsIdle, Floor,
     OnlyActiveIsQueued, OpenWork, NoWork
<1>. QED BY <1>1, <1>2, <1>3, Invariance, PTL DEF Spec

-----------------------------------------------------------------------------
(***************************************************************************)
(* Late results.                                                           *)
(***************************************************************************)

\* Work that is not runnable, or that the step has just issued.
Newer(w) == w.status = "queued" => w.id > sequence

\* It is enough that each place work is kept is left alone or gets newer work.
LEMMA NothingRevived ==
    ASSUME sessionWork' = sessionWork \/ Newer(sessionWork'),
           \A t \in Topics : topics'[t].work = topics[t].work \/ Newer(topics'[t].work)
    PROVE  \A w \in Runnable' : w \in Runnable \/ w.id > sequence
BY DEF Runnable, Newer

\* What the actions put in the place of work is newer.
LEMMA NewerWork ==
    ASSUME sequence \in Nat
    PROVE  /\ Newer(NoWork)
           /\ \A kind, parent : Newer(Queued(Next1, kind, parent))
           /\ \A w : Newer(Revived(w))
           /\ \A w \in Work : Newer(Superseded(w))
BY DEF Newer, NoWork, Queued, Next1, Revived, Superseded, Work

\* A Host command revives no work.
LEMMA HostRevivesNothing ==
    ASSUME IInv, HostStep
    PROVE  \A w \in Runnable' : w \in Runnable \/ w.id > sequence
<1>. /\ TypeOK /\ sequence \in Nat /\ topics \in [Topics -> TopicRun]
     /\ active # None => active \in Topics
  BY DEF IInv, TypeOK
<1>1. ASSUME NEW id \in Issued, NEW names \in SUBSET Names, PresentCandidates(id, names)
      PROVE  sessionWork' = NoWork /\ topics' = topics
  BY <1>1 DEF PresentCandidates, runs
<1>2. ASSUME NEW id \in Issued, NEW q \in Questions, RequestTopicClarification(id, q)
      PROVE  sessionWork' = NoWork /\ topics' = topics
  BY <1>2 DEF RequestTopicClarification, runs
<1>3. ASSUME NEW id \in Issued, NEW t \in Topics, NEW l \in Lenses, NEW e \in Checks,
             StartTopic(id, t, l, e)
      PROVE  /\ sessionWork' = NoWork
             /\ \A u \in Topics : topics'[u].work = topics[u].work \/ Newer(topics'[u].work)
  <2>1. /\ \A u \in Topics \ {t} : topics'[u] = topics[u]
        /\ topics'[t].work = Queued(Next1, IF e.health \in Publishable
                                           THEN "initial_turn" ELSE "reground", None)
    BY <1>3 DEF StartTopic, Unstarted
  <2>. QED BY <1>3, <2>1, NewerWork DEF StartTopic
<1>4. ASSUME NEW id \in Issued, NEW turn \in AgentTurns, NEW e \in Checks,
             CommitAgentTurn(id, turn, e)
      PROVE  /\ sessionWork' = sessionWork
             /\ \A u \in Topics : topics'[u].work = topics[u].work \/ Newer(topics'[u].work)
  <2>1. /\ \A u \in Topics \ {active} : topics'[u] = topics[u]
        /\ topics'[active].work = NoWork
    BY <1>4 DEF CommitAgentTurn, TopicRun
  <2>. QED BY <1>4, <2>1, NewerWork DEF CommitAgentTurn, setup
<1>5. ASSUME NEW id \in Issued, NEW s \in SUBSET Entries, NEW e \in Checks,
             CompleteTopic(id, s, e)
      PROVE  /\ sessionWork' = sessionWork
             /\ \A u \in Topics : topics'[u].work = topics[u].work \/ Newer(topics'[u].work)
  <2>1. /\ \A u \in Topics \ {active} : topics'[u] = topics[u]
        /\ topics'[active].work = NoWork
    BY <1>5 DEF CompleteTopic, TopicRun
  <2>. QED BY <1>5, <2>1, NewerWork DEF CompleteTopic, setup
<1>6. ASSUME NEW id, NEW w \in Failing(id), phase = "waiting_host",
             NEW replacement, Newer(replacement), ReplaceWork(w, replacement)
      PROVE  /\ sessionWork' = sessionWork \/ Newer(sessionWork')
             /\ \A u \in Topics : topics'[u].work = topics[u].work \/ Newer(topics'[u].work)
  <2>1. \/ sessionWork' = replacement /\ topics' = topics
        \/ /\ sessionWork' = sessionWork /\ active \in Topics
           /\ topics' = [topics EXCEPT ![active].work = replacement]
    BY <1>6, ReplacedPending DEF IInv
  <2>. QED BY <1>6, <2>1 DEF TopicRun
<1>7. ASSUME NEW id \in Issued, NEW c \in Failures, RequeueWork(id, c)
      PROVE  /\ sessionWork' = sessionWork \/ Newer(sessionWork')
             /\ \A u \in Topics : topics'[u].work = topics[u].work \/ Newer(topics'[u].work)
  <2>1. \A w : Newer([Queued(sequence + 2, w.kind, w.parent) EXCEPT
                        !.attempt = w.attempt + 1, !.failure = c])
    BY DEF Newer, Queued
  <2>. QED BY <1>6, <1>7, <2>1 DEF RequeueWork
<1>8. ASSUME NEW id \in Issued, NEW c \in Failures, DeadLetterWork(id, c)
      PROVE  /\ sessionWork' = sessionWork \/ Newer(sessionWork')
             /\ \A u \in Topics : topics'[u].work = topics[u].work \/ Newer(topics'[u].work)
  <2>1. \A w \in Failing(id) : w \in Work
    BY WorkOfTyped DEF Failing, OpenWork
  <2>2. \A w \in Failing(id) : Newer([w EXCEPT !.status = "dead_letter", !.failure = c])
    BY <2>1 DEF Newer, Work
  <2>. QED BY <1>6, <1>8, <2>2 DEF DeadLetterWork
<1>. QED BY <1>1, <1>2, <1>3, <1>4, <1>5, <1>7, <1>8, NewerWork, NothingRevived DEF HostStep

\* A command of the learner revives no work.
LEMMA LearnerRevivesNothing ==
    ASSUME IInv, LearnerStep
    PROVE  \A w \in Runnable' : w \in Runnable \/ w.id > sequence
<1>. /\ TypeOK /\ sequence \in Nat /\ topics \in [Topics -> TopicRun]
     /\ active # None => active \in Topics
     /\ \A t \in Topics : topics[t].work \in Work
  BY DEF IInv, TypeOK, TopicRun
<1>1. ASSUME NEW n \in Names, ChooseTopic(n)
      PROVE  Newer(sessionWork') /\ topics' = topics
  BY <1>1, NewerWork DEF ChooseTopic, runs
<1>2. ASSUME NEW q \in Questions, AnswerTopicClarification(q)
      PROVE  Newer(sessionWork') /\ topics' = topics
  BY <1>2, NewerWork DEF AnswerTopicClarification, runs
<1>3. ASSUME active # None, NEW type, NEW kind, NEW parent, NEW record \in TopicRun,
             AskHost(type, kind, parent, record)
      PROVE  /\ sessionWork' = sessionWork
             /\ \A u \in Topics : topics'[u].work = topics[u].work \/ Newer(topics'[u].work)
  <2>1. /\ \A u \in Topics \ {active} : topics'[u] = topics[u]
        /\ topics'[active].work = Queued(Next1, kind, parent)
    BY <1>3 DEF AskHost, TopicRun
  <2>. QED BY <1>3, <2>1, NewerWork DEF AskHost, setup
<1>4. ASSUME \/ \E q \in Questions, turn \in Turns : SubmitLearnerTurn(q, turn)
             \/ \E q \in Questions, e \in Checks : RequestHelp(q, e)
             \/ \E l \in Lenses, e \in Checks : SetLens(l, e)
      PROVE  /\ sessionWork' = sessionWork
             /\ \A u \in Topics : topics'[u].work = topics[u].work \/ Newer(topics'[u].work)
  <2>1. ASSUME NEW q \in Questions, NEW turn \in Turns, SubmitLearnerTurn(q, turn)
        PROVE  \E record \in TopicRun : AskHost("LearnerTurnSubmitted", "learner_reply", turn, record)
    BY <2>1 DEF SubmitLearnerTurn, TopicRun
  <2>2. ASSUME NEW l \in Lenses, NEW e \in Checks, SetLens(l, e)
        PROVE  \E parent : \E record \in TopicRun :
                  AskHost("LensChanged", "lens_changed", parent, record)
    <3>1. [topics[active] EXCEPT !.lens = l] \in TopicRun
      BY <2>2 DEF SetLens, TopicRun
    <3>. QED BY <2>2, <3>1 DEF SetLens
  <2>3. ASSUME NEW q \in Questions, NEW e \in Checks, RequestHelp(q, e)
        PROVE  \E record \in TopicRun : AskHost("HelpRequested", "help", q, record)
    BY <2>3 DEF RequestHelp
  <2>4. active # None
    BY <1>4 DEF SubmitLearnerTurn, RequestHelp, SetLens
  <2>. QED BY <1>3, <1>4, <2>1, <2>2, <2>3, <2>4
<1>5. ASSUME active # None, SetAside
      PROVE  \A u \in Topics : topics'[u].work = topics[u].work \/ Newer(topics'[u].work)
  <2>1. /\ \A u \in Topics \ {active} : topics'[u] = topics[u]
        /\ topics'[active].work = Superseded(topics[active].work)
    BY <1>5 DEF SetAside, TopicRun
  <2>. QED BY <1>5, <2>1, NewerWork
<1>6. ASSUME PauseTopic \/ SwitchTopic \/ ExploreTopics
      PROVE  /\ sessionWork' = sessionWork \/ Newer(sessionWork')
             /\ \A u \in Topics : topics'[u].work = topics[u].work \/ Newer(topics'[u].work)
  BY <1>5, <1>6, NewerWork DEF PauseTopic, SwitchTopic, ExploreTopics, setup, runs
<1>7. ASSUME NEW t \in Topics, NEW e \in Checks, ResumeTopic(t, e)
      PROVE  /\ sessionWork' = sessionWork
             /\ \A u \in Topics : topics'[u].work = topics[u].work \/ Newer(topics'[u].work)
  <2>1. \/ topics' = topics
        \/ topics' = [topics EXCEPT ![t] =
                         Regrounded(topics[t], e, Queued(Next1, "reground", None))]
        \/ topics' = [topics EXCEPT ![t].work = Revived(topics[t].work)]
    BY <1>7 DEF ResumeTopic
  <2>2. Regrounded(topics[t], e, Queued(Next1, "reground", None)).work
            = Queued(Next1, "reground", None)
    BY DEF Regrounded, TopicRun
  <2>. QED BY <1>7, <2>1, <2>2, NewerWork DEF ResumeTopic, setup, TopicRun
<1>8. ASSUME NEW id \in Issued, RecoverSessionWork(id)
      PROVE  Newer(sessionWork') /\ topics' = topics
  BY <1>8, NewerWork DEF RecoverSessionWork, runs
<1>9. ASSUME NEW id \in Issued, NEW t \in Topics, NEW action \in {"retry", "reground"},
             NEW e \in Checks, RecoverTopicWork(id, t, action, e)
      PROVE  /\ sessionWork' = sessionWork
             /\ \A u \in Topics : topics'[u].work = topics[u].work \/ Newer(topics'[u].work)
  <2>1. \A u \in Topics \ {t} : topics'[u] = topics[u]
    BY <1>9 DEF RecoverTopicWork
  <2>2. \/ topics'[t].work = Queued(Next1, "reground", topics[t].work.parent)
        \/ topics'[t].work = Revived(topics[t].work)
    BY <1>9 DEF RecoverTopicWork, Regrounded, TopicRun
  <2>. QED BY <1>9, <2>1, <2>2, NewerWork DEF RecoverTopicWork, setup
<1>. QED BY <1>1, <1>2, <1>4, <1>6, <1>7, <1>8, <1>9, NothingRevived
         DEF LearnerStep, SelectTopic, SubmitCustomTopic

\* A step of the runtime revives no work.
LEMMA RuntimeRevivesNothing ==
    ASSUME IInv, RuntimeStep
    PROVE  \A w \in Runnable' : w \in Runnable \/ w.id > sequence
<1>. /\ TypeOK /\ sequence \in Nat /\ topics \in [Topics -> TopicRun]
     /\ active # None => active \in Topics /\ topics[active].work \in Work
  BY DEF IInv, TypeOK, TopicRun
<1>1. CASE QuiesceTopic
  <2>1. /\ \A u \in Topics \ {active} : topics'[u] = topics[u]
        /\ topics'[active].work = Superseded(topics[active].work)
        /\ sessionWork' = sessionWork
    BY <1>1 DEF QuiesceTopic, SetAside, setup, TopicRun
  <2>. QED BY <1>1, <2>1, NewerWork, NothingRevived DEF QuiesceTopic
<1>2. CASE ~QuiesceTopic
  <2>1. topics' = topics /\ (sessionWork' = sessionWork \/ Newer(sessionWork'))
    BY <1>2, NewerWork DEF RuntimeStep, StartSession, RequestExport, CompleteExport,
       BeginHandoff, QuiesceSetup, QuiesceIdle, setup, runs
  <2>. QED BY <2>1, NothingRevived
<1>. QED BY <1>1, <1>2

\* Work that stopped being runnable never becomes runnable again under its old
\* id, so a Host's late result matches nothing that came back
\* (derive_canonical_work_id, _matching_trigger, _retry_trigger_matches).
THEOREM LateResultsMatchNothing == Spec => WorkNeverResurrected
<1>1. IInv /\ [Next]_vars =>
          [\A w \in Runnable' : w \in Runnable \/ w.id > sequence]_vars
  BY HostRevivesNothing, LearnerRevivesNothing, RuntimeRevivesNothing DEF Next
<1>. QED BY <1>1, Invariance, PTL DEF Spec, WorkNeverResurrected

-----------------------------------------------------------------------------
(***************************************************************************)
(* What is concluded about a topic, and what it rests on.                  *)
(***************************************************************************)

\* What a step may do to the conclusions of the Topic Run r: nothing, while
\* learner turns are added; lower them; start over; or adopt what a valid result
\* claims.
Concluded(r, s) ==
    \/ s.gates = r.gates /\ s.model = r.model /\ r.turns \subseteq s.turns
    \/ s.gates = Downgrade(r.gates) /\ s.model = Unconfirm(r.model) /\ s.turns = r.turns
    \/ s.gates = NewGates /\ s.model = NewModel
    \/ \E turn \in AgentTurns :
        /\ ValidAgentTurn(turn, r.turns # {})
        /\ s.gates = turn.gates
        /\ s.model = ApplyUpdates(r.model, turn.delta)
        /\ s.turns = r.turns

\* A completed run stays what it is; any other changes in one of these ways.
RunsAdvance ==
    \A t \in Topics : \/ topics'[t] = topics[t]
                      \/ t \notin completed /\ Concluded(topics[t], topics'[t])

\* A completed run is neither active nor paused.
LEMMA OnlyOthersAdvance ==
    ASSUME IInv, NEW t \in Topics, t = active \/ t \in paused \/ t \notin Used,
           \A u \in Topics \ {t} : topics'[u] = topics[u],
           topics'[t] = topics[t] \/ Concluded(topics[t], topics'[t])
    PROVE  RunsAdvance
BY DEF RunsAdvance, IInv, SetAsideOwnsNoWork, Used

\* Changing other fields of a run draws no conclusion.
LEMMA KeptIsConcluded ==
    ASSUME NEW r, NEW s, s.gates = r.gates, s.model = r.model, r.turns \subseteq s.turns
    PROVE  Concluded(r, s)
BY DEF Concluded

\* A Host command advances the runs in these ways.
LEMMA HostConcludes ==
    ASSUME IInv, HostStep
    PROVE  RunsAdvance
<1>. /\ topics \in [Topics -> TopicRun]
     /\ active # None => active \in Topics
     /\ \A t \in Topics : topics[t] \in TopicRun
  BY DEF IInv, TypeOK
<1>1. ASSUME NEW id \in Issued, NEW names \in SUBSET Names, PresentCandidates(id, names)
      PROVE  RunsAdvance
  BY <1>1 DEF PresentCandidates, runs, RunsAdvance
<1>2. ASSUME NEW id \in Issued, NEW q \in Questions, RequestTopicClarification(id, q)
      PROVE  RunsAdvance
  BY <1>2 DEF RequestTopicClarification, runs, RunsAdvance
<1>3. ASSUME NEW id \in Issued, NEW t \in Topics, NEW l \in Lenses, NEW e \in Checks,
             StartTopic(id, t, l, e)
      PROVE  RunsAdvance
  <2>1. /\ t \notin Used
        /\ \A u \in Topics \ {t} : topics'[u] = topics[u]
        /\ topics'[t].gates = NewGates /\ topics'[t].model = NewModel
    BY <1>3 DEF StartTopic, Unstarted
  <2>. QED BY <2>1, OnlyOthersAdvance DEF Concluded
<1>4. ASSUME NEW id \in Issued, NEW turn \in AgentTurns, NEW e \in Checks,
             CommitAgentTurn(id, turn, e)
      PROVE  RunsAdvance
  <2>1. /\ active \in Topics
        /\ \A u \in Topics \ {active} : topics'[u] = topics[u]
        /\ ValidAgentTurn(turn, topics[active].turns # {})
        /\ topics'[active].gates = turn.gates
        /\ topics'[active].model = ApplyUpdates(topics[active].model, turn.delta)
        /\ topics'[active].turns = topics[active].turns
    BY <1>4 DEF CommitAgentTurn, TopicRun
  <2>. QED BY <2>1, OnlyOthersAdvance DEF Concluded
<1>5. ASSUME NEW id \in Issued, NEW s \in SUBSET Entries, NEW e \in Checks,
             CompleteTopic(id, s, e)
      PROVE  RunsAdvance
  <2>1. /\ active \in Topics
        /\ \A u \in Topics \ {active} : topics'[u] = topics[u]
        /\ topics'[active].gates = topics[active].gates
        /\ topics'[active].model = topics[active].model
        /\ topics'[active].turns = topics[active].turns
    BY <1>5 DEF CompleteTopic, TopicRun
  <2>. QED BY <2>1, OnlyOthersAdvance, KeptIsConcluded
<1>6. ASSUME NEW id, NEW w \in Failing(id), phase = "waiting_host",
             NEW replacement, ReplaceWork(w, replacement)
      PROVE  RunsAdvance
  <2>1. \/ topics' = topics
        \/ /\ active \in Topics
           /\ topics' = [topics EXCEPT ![active].work = replacement]
    BY <1>6, ReplacedPending DEF IInv
  <2>2. ASSUME active \in Topics, topics' = [topics EXCEPT ![active].work = replacement]
        PROVE  /\ \A u \in Topics \ {active} : topics'[u] = topics[u]
               /\ topics'[active].gates = topics[active].gates
               /\ topics'[active].model = topics[active].model
               /\ topics'[active].turns = topics[active].turns
    BY <2>2 DEF TopicRun
  <2>3. CASE topics' = topics
    BY <2>3 DEF RunsAdvance
  <2>. QED BY <2>1, <2>2, <2>3, OnlyOthersAdvance, KeptIsConcluded
<1>7. ASSUME NEW id \in Issued, NEW c \in Failures, RequeueWork(id, c) \/ DeadLetterWork(id, c)
      PROVE  RunsAdvance
  BY <1>6, <1>7 DEF RequeueWork, DeadLetterWork
<1>. QED BY <1>1, <1>2, <1>3, <1>4, <1>5, <1>7 DEF HostStep

\* A command of the learner advances the runs in these ways.
LEMMA LearnerConcludes ==
    ASSUME IInv, LearnerStep
    PROVE  RunsAdvance
<1>. /\ topics \in [Topics -> TopicRun]
     /\ active # None => active \in Topics
     /\ \A t \in Topics : topics[t] \in TopicRun
  BY DEF IInv, TypeOK
<1>1. ASSUME topics' = topics
      PROVE  RunsAdvance
  BY <1>1 DEF RunsAdvance
<1>2. ASSUME \/ \E n \in Names : SelectTopic(n) \/ SubmitCustomTopic(n)
             \/ \E q \in Questions : AnswerTopicClarification(q)
             \/ \E id \in Issued : RecoverSessionWork(id)
             \/ ExploreTopics
      PROVE  RunsAdvance
  BY <1>1, <1>2 DEF SelectTopic, SubmitCustomTopic, ChooseTopic, AnswerTopicClarification,
     RecoverSessionWork, ExploreTopics, runs
<1>3. ASSUME active # None, NEW type, NEW kind, NEW parent, NEW record,
             record \in TopicRun,
             record.gates = topics[active].gates, record.model = topics[active].model,
             topics[active].turns \subseteq record.turns,
             AskHost(type, kind, parent, record)
      PROVE  RunsAdvance
  <2>1. /\ active \in Topics
        /\ \A u \in Topics \ {active} : topics'[u] = topics[u]
        /\ topics'[active].gates = record.gates
        /\ topics'[active].model = record.model
        /\ topics'[active].turns = record.turns
    BY <1>3 DEF AskHost, TopicRun
  <2>. QED BY <1>3, <2>1, OnlyOthersAdvance, KeptIsConcluded
<1>4. ASSUME NEW q \in Questions, NEW turn \in Turns, SubmitLearnerTurn(q, turn)
      PROVE  RunsAdvance
  <2>. DEFINE record == [topics[active] EXCEPT !.turns = @ \cup {turn}]
  <2>1. /\ active # None
        /\ record \in TopicRun
        /\ record.gates = topics[active].gates /\ record.model = topics[active].model
        /\ topics[active].turns \subseteq record.turns
        /\ AskHost("LearnerTurnSubmitted", "learner_reply", turn, record)
    BY <1>4 DEF SubmitLearnerTurn, TopicRun
  <2>. QED BY <1>3, <2>1, KeptIsConcluded
<1>5. ASSUME NEW q \in Questions, NEW e \in Checks, RequestHelp(q, e)
      PROVE  RunsAdvance
  BY <1>3, <1>5, KeptIsConcluded DEF RequestHelp
<1>6. ASSUME NEW l \in Lenses, NEW e \in Checks, SetLens(l, e)
      PROVE  RunsAdvance
  <2>. DEFINE record == [topics[active] EXCEPT !.lens = l]
              parent == IF topics[active].question # None
                        THEN topics[active].question ELSE topics[active].work.parent
  <2>1. /\ active # None
        /\ record \in TopicRun
        /\ record.gates = topics[active].gates /\ record.model = topics[active].model
        /\ topics[active].turns \subseteq record.turns
    BY <1>6 DEF SetLens, TopicRun
  <2>2. AskHost("LensChanged", "lens_changed", parent, record)
    BY <1>6 DEF SetLens
  <2>. QED BY <1>3, <2>1, <2>2, KeptIsConcluded
<1>7. ASSUME active # None, SetAside
      PROVE  RunsAdvance
  <2>1. /\ active \in Topics
        /\ \A u \in Topics \ {active} : topics'[u] = topics[u]
        /\ topics'[active].gates = topics[active].gates
        /\ topics'[active].model = topics[active].model
        /\ topics'[active].turns = topics[active].turns
    BY <1>7 DEF SetAside, TopicRun
  <2>. QED BY <2>1, OnlyOthersAdvance, KeptIsConcluded
<1>8. ASSUME PauseTopic \/ SwitchTopic
      PROVE  RunsAdvance
  BY <1>7, <1>8 DEF PauseTopic, SwitchTopic
<1>9. ASSUME NEW t \in Topics, NEW e, NEW w,
             topics' = [topics EXCEPT ![t] = Regrounded(topics[t], e, w)]
      PROVE  /\ \A u \in Topics \ {t} : topics'[u] = topics[u]
             /\ Concluded(topics[t], topics'[t])
  BY <1>9 DEF Regrounded, Concluded, TopicRun
<1>10. ASSUME NEW t \in Topics, NEW e \in Checks, ResumeTopic(t, e)
       PROVE  RunsAdvance
  <2>0. t \in paused
    BY <1>10 DEF ResumeTopic
  <2>1. \/ topics' = topics
        \/ topics' = [topics EXCEPT ![t] =
                         Regrounded(topics[t], e, Queued(Next1, "reground", None))]
        \/ topics' = [topics EXCEPT ![t].work = Revived(topics[t].work)]
    BY <1>10 DEF ResumeTopic
  <2>2. CASE topics' = [topics EXCEPT ![t].work = Revived(topics[t].work)]
    <3>1. /\ \A u \in Topics \ {t} : topics'[u] = topics[u]
          /\ topics'[t].gates = topics[t].gates
          /\ topics'[t].model = topics[t].model
          /\ topics'[t].turns = topics[t].turns
      BY <2>2 DEF TopicRun
    <3>. QED BY <2>0, <3>1, OnlyOthersAdvance, KeptIsConcluded
  <2>. QED BY <1>1, <1>9, <2>0, <2>1, <2>2, OnlyOthersAdvance
<1>11. ASSUME NEW id \in Issued, NEW t \in Topics, NEW action \in {"retry", "reground"},
              NEW e \in Checks, RecoverTopicWork(id, t, action, e)
       PROVE  RunsAdvance
  <2>0. t = active \/ t \in paused
    BY <1>11 DEF RecoverTopicWork
  <2>1. CASE action = "reground"
    <3>1. topics' = [topics EXCEPT ![t] =
              Regrounded(topics[t], e, Queued(Next1, "reground", topics[t].work.parent))]
      BY <1>11, <2>1 DEF RecoverTopicWork
    <3>. QED BY <1>9, <2>0, <3>1, OnlyOthersAdvance
  <2>2. CASE action # "reground"
    <3>1. /\ \A u \in Topics \ {t} : topics'[u] = topics[u]
          /\ topics'[t].gates = topics[t].gates
          /\ topics'[t].model = topics[t].model
          /\ topics'[t].turns = topics[t].turns
      BY <1>11, <2>2 DEF RecoverTopicWork, TopicRun
    <3>. QED BY <2>0, <3>1, OnlyOthersAdvance, KeptIsConcluded
  <2>. QED BY <2>1, <2>2
<1>. QED BY <1>2, <1>4, <1>5, <1>6, <1>8, <1>10, <1>11 DEF LearnerStep

\* A step of the runtime draws no conclusion.
LEMMA RuntimeConcludes ==
    ASSUME IInv, RuntimeStep
    PROVE  RunsAdvance
<1>. /\ topics \in [Topics -> TopicRun]
     /\ active # None => active \in Topics
  BY DEF IInv, TypeOK
<1>1. CASE QuiesceTopic
  <2>1. /\ active \in Topics
        /\ \A u \in Topics \ {active} : topics'[u] = topics[u]
        /\ topics'[active].gates = topics[active].gates
        /\ topics'[active].model = topics[active].model
        /\ topics'[active].turns = topics[active].turns
    BY <1>1 DEF QuiesceTopic, SetAside, TopicRun
  <2>. QED BY <2>1, OnlyOthersAdvance, KeptIsConcluded
<1>2. CASE ~QuiesceTopic
  <2>1. topics' = topics
    BY <1>2 DEF RuntimeStep, StartSession, RequestExport, CompleteExport,
       BeginHandoff, QuiesceSetup, QuiesceIdle, runs
  <2>. QED BY <2>1 DEF RunsAdvance
<1>. QED BY <1>1, <1>2

\* Whatever the step, the runs advance in these ways.
LEMMA StepConcludes == IInv /\ [Next]_vars => RunsAdvance
BY HostConcludes, LearnerConcludes, RuntimeConcludes DEF Next, vars, runs, RunsAdvance

-----------------------------------------------------------------------------
\* The support of one Topic Run: SupportCitesTheLearner asks it of every run.
Cites(r) ==
    /\ \A g \in GateIds : r.gates[g].status = "supported" =>
            r.gates[g].cited /\ r.turns # {}
    /\ \A x \in Entries : r.model[x].status = "confirmed" =>
            r.model[x].cited /\ r.turns # {}

\* Whatever happens to the conclusions of a run, they still cite the learner.
LEMMA ConclusionsCite ==
    ASSUME NEW r \in TopicRun, NEW s \in TopicRun, Cites(r), Concluded(r, s)
    PROVE  Cites(s)
<1>. r.gates \in Gates /\ r.model \in Model /\ s.gates \in Gates /\ s.model \in Model
  BY DEF TopicRun
<1>1. CASE s.gates = r.gates /\ s.model = r.model /\ r.turns \subseteq s.turns
  BY <1>1 DEF Cites
<1>2. CASE s.gates = Downgrade(r.gates) /\ s.model = Unconfirm(r.model) /\ s.turns = r.turns
  <2>1. \A g \in GateIds : Downgrade(r.gates)[g].status # "supported"
    BY DEF Downgrade, Gates, GateAssessment
  <2>2. \A x \in Entries : Unconfirm(r.model)[x].status # "confirmed"
    BY DEF Unconfirm, Model, Entry
  <2>. QED BY <1>2, <2>1, <2>2 DEF Cites
<1>3. CASE s.gates = NewGates /\ s.model = NewModel
  BY <1>3 DEF Cites, NewGates, NewModel, Absent
<1>4. ASSUME NEW turn \in AgentTurns, ValidAgentTurn(turn, r.turns # {}),
             s.gates = turn.gates, s.model = ApplyUpdates(r.model, turn.delta),
             s.turns = r.turns
      PROVE  Cites(s)
  <2>1. ASSUME NEW g \in GateIds, s.gates[g].status = "supported"
        PROVE  s.gates[g].cited /\ s.turns # {}
    BY <1>4, <2>1 DEF ValidAgentTurn, ValidGate
  <2>2. ASSUME NEW x \in Entries, s.model[x].status = "confirmed"
        PROVE  s.model[x].cited /\ s.turns # {}
    <3>1. s.model[x] = IF turn.delta[x].status = "absent" THEN r.model[x] ELSE turn.delta[x]
      BY <1>4 DEF ApplyUpdates
    <3>2. CASE turn.delta[x].status = "absent"
      BY <1>4, <2>2, <3>1, <3>2 DEF Cites
    <3>3. CASE turn.delta[x].status # "absent"
      BY <1>4, <2>2, <3>1, <3>3 DEF ValidAgentTurn, ValidEntry
    <3>. QED BY <3>2, <3>3
  <2>. QED BY <2>1, <2>2 DEF Cites
<1>. QED BY <1>1, <1>2, <1>3, <1>4 DEF Concluded

\* A supported gate or a confirmed insight always rests on something the learner
\* said in that Topic Run, through every update, downgrade, retry and resumption
\* (the citation rules of _valid_gate_assessment and _valid_model_entry).
THEOREM SupportRestsOnTurns == Spec => []SupportCitesTheLearner
<1>. DEFINE Cited == \A t \in Topics : Cites(topics[t])
<1>1. Cited <=> SupportCitesTheLearner
  BY DEF Cites, SupportCitesTheLearner
<1>2. Init => Cited
  BY DEF Init, Cites, Unstarted, NewGates, NewModel, Absent
<1>3. Cited /\ IInv /\ IInv' /\ [Next]_vars => Cited'
  <2>. SUFFICES ASSUME Cited, IInv, IInv', [Next]_vars, NEW t \in Topics
                PROVE  Cites(topics'[t])
    OBVIOUS
  <2>1. topics[t] \in TopicRun /\ topics'[t] \in TopicRun /\ Cites(topics[t])
    BY DEF IInv, TypeOK
  <2>2. topics'[t] = topics[t] \/ Concluded(topics[t], topics'[t])
    BY StepConcludes DEF RunsAdvance
  <2>. QED BY <2>1, <2>2, ConclusionsCite
<1>. HIDE DEF Cited
<1>4. Spec => []Cited
  BY <1>2, <1>3, Invariance, PTL DEF Spec
<1>. QED BY <1>1, <1>4, PTL

-----------------------------------------------------------------------------
\* What CompletionWasEarned asks of one Topic Run.
Earned(r) ==
    /\ \A g \in GateIds : r.gates[g].status = "supported"
    /\ Confirmed(r.model) \cap Bridges # {}
    /\ r.evidence.health \in Publishable
    /\ r.summary # {} /\ r.summary \subseteq Confirmed(r.model)

\* Only a completion adds to the completed runs, and what it adds was earned.
LEMMA CompletedIsEarned ==
    ASSUME IInv, [Next]_vars
    PROVE  \/ completed' = completed
           \/ /\ active \in Topics /\ completed' = completed \cup {active}
              /\ Earned(topics'[active])
<1>1. ASSUME NEW id \in Issued, NEW s \in SUBSET Entries, NEW e \in Checks,
             CompleteTopic(id, s, e)
      PROVE  /\ active \in Topics /\ completed' = completed \cup {active}
             /\ Earned(topics'[active])
  <2>1. active \in Topics /\ topics \in [Topics -> TopicRun] /\ topics[active] \in TopicRun
    BY <1>1 DEF CompleteTopic, IInv, TypeOK
  <2>2. /\ topics'[active].gates = topics[active].gates
        /\ topics'[active].model = topics[active].model
        /\ topics'[active].evidence = topics[active].evidence
        /\ topics'[active].summary = s
    BY <1>1, <2>1 DEF CompleteTopic, TopicRun
  <2>3. /\ MayComplete(topics[active].gates, topics[active].model)
        /\ topics[active].evidence.health \in Publishable
        /\ s # {} /\ s \subseteq Confirmed(topics[active].model)
    BY <1>1 DEF CompleteTopic
  <2>. QED BY <1>1, <2>1, <2>2, <2>3 DEF Earned, MayComplete, CompleteTopic
<1>2. CASE HostStep
  <2>1. ASSUME NEW id \in Issued,
               \/ \E names \in SUBSET Names : PresentCandidates(id, names)
               \/ \E q \in Questions : RequestTopicClarification(id, q)
               \/ \E t \in Topics, l \in Lenses, e \in Checks : StartTopic(id, t, l, e)
               \/ \E turn \in AgentTurns, e \in Checks : CommitAgentTurn(id, turn, e)
               \/ \E c \in Failures : RequeueWork(id, c) \/ DeadLetterWork(id, c)
        PROVE  completed' = completed
    BY ZenonT(60), <2>1 DEF PresentCandidates, RequestTopicClarification, StartTopic, CommitAgentTurn,
       RequeueWork, DeadLetterWork, runs
  <2>. QED BY <1>1, <1>2, <2>1 DEF HostStep
<1>3. CASE LearnerStep
  BY <1>3 DEF LearnerStep, SelectTopic, SubmitCustomTopic, ChooseTopic,
     AnswerTopicClarification, SubmitLearnerTurn, RequestHelp, SetLens, AskHost, PauseTopic,
     SwitchTopic, SetAside, ExploreTopics, ResumeTopic, RecoverSessionWork, RecoverTopicWork, runs
<1>4. CASE RuntimeStep
  BY <1>4 DEF RuntimeStep, StartSession, RequestExport, CompleteExport, BeginHandoff,
     QuiesceTopic, SetAside, QuiesceSetup, QuiesceIdle, runs
<1>. QED BY <1>2, <1>3, <1>4 DEF Next, vars, runs

\* A completed run stays completed and as it was: no later command, failure,
\* recovery or handoff reopens, edits or reuses it (_resume_topic and
\* _recover_topic_work take paused runs only, _start_topic a new id).
THEOREM CompletionIsFinal ==
    Spec => [][\A t \in completed : t \in completed' /\ topics'[t] = topics[t]]_vars
<1>1. IInv /\ [Next]_vars =>
          [\A t \in completed : t \in completed' /\ topics'[t] = topics[t]]_vars
  BY StepConcludes, CompletedIsEarned DEF RunsAdvance, IInv, TypeOK
<1>. QED BY <1>1, Invariance, PTL DEF Spec

\* A completed topic has every gate supported and a confirmed bridge between
\* business and technology, on publishable evidence, and its summary cites
\* confirmed entries only, for as long as the session lasts (_complete_topic).
THEOREM CompletionsAreEarned == Spec => []CompletionWasEarned
<1>. DEFINE AllEarned == \A t \in completed : Earned(topics[t])
<1>1. AllEarned <=> CompletionWasEarned
  BY DEF Earned, CompletionWasEarned
<1>2. Init => AllEarned
  BY DEF Init
<1>3. AllEarned /\ IInv /\ [Next]_vars => AllEarned'
  <2>. SUFFICES ASSUME AllEarned, IInv, [Next]_vars, NEW t \in completed'
                PROVE  Earned(topics'[t])
    OBVIOUS
  <2>1. CASE t \in completed
    <3>1. topics'[t] = topics[t]
      BY <2>1, StepConcludes DEF RunsAdvance, IInv, TypeOK
    <3>2. Earned(topics[t])
      BY <2>1
    <3>. QED BY <3>1, <3>2
  <2>2. CASE t \notin completed
    BY <2>2, CompletedIsEarned
  <2>. QED BY <2>1, <2>2
<1>. HIDE DEF AllEarned
<1>4. Spec => []AllEarned
  BY <1>2, <1>3, Invariance, PTL DEF Spec
<1>. QED BY <1>1, <1>4, PTL

-----------------------------------------------------------------------------
\* Events that are not version-neutral advance the conversation version.
LEMMA ShownEventsAdvance ==
    ASSUME TypeOK, NEW type, type \notin VersionNeutral, NEW w, NEW n, Commit(type, w, n)
    PROVE  version' # version
BY DEF Commit, VersionDelta, TypeOK

\* Putting failed work back in the queue shows the learner nothing.
LEMMA RequeueIsUnseen ==
    ASSUME IInv, NEW id \in Issued, NEW c \in Failures, RequeueWork(id, c)
    PROVE  Shown' = Shown
<1>. /\ TypeOK /\ Floor /\ topics \in [Topics -> TopicRun]
     /\ active # None => active \in Topics
  BY DEF IInv, TypeOK
<1>1. PICK w \in Failing(id) :
        ReplaceWork(w, [Queued(sequence + 2, w.kind, w.parent) EXCEPT
                              !.attempt = w.attempt + 1, !.failure = c])
  BY DEF RequeueWork
<1>. DEFINE again == [Queued(sequence + 2, w.kind, w.parent) EXCEPT
                              !.attempt = w.attempt + 1, !.failure = c]
<1>2. \/ topics' = topics
      \/ active \in Topics /\ topics' = [topics EXCEPT ![active].work = again]
  BY <1>1, ReplacedPending DEF RequeueWork
<1>3. \A t \in Topics : /\ topics'[t].question = topics[t].question
                        /\ topics'[t].lens = topics[t].lens
                        /\ topics'[t].turns = topics[t].turns
  <2>. HIDE DEF again
  <2>. QED BY <1>2 DEF TopicRun
<1>4. UNCHANGED <<phase, candidates, clarification, active, paused, completed>>
  BY DEF RequeueWork
<1>. QED BY <1>3, <1>4 DEF Shown

\* A browser's If-Match on the conversation version is enough: as long as the
\* version stands, nothing the learner sees or answers has changed
\* (conversation_version_delta against the reducer's branches).
THEOREM VersionGuardsTheScreen == Spec => VersionCoversWhatIsShown
<1>1. ASSUME IInv, HostStep, version' = version
      PROVE  Shown' = Shown
  <2>0. TypeOK
    BY <1>1 DEF IInv
  <2>1. PICK id \in Issued :
          \/ \E names \in SUBSET Names : PresentCandidates(id, names)
          \/ \E q \in Questions : RequestTopicClarification(id, q)
          \/ \E t \in Topics, l \in Lenses, e \in Checks : StartTopic(id, t, l, e)
          \/ \E turn \in AgentTurns, e \in Checks : CommitAgentTurn(id, turn, e)
          \/ \E s \in SUBSET Entries, e \in Checks : CompleteTopic(id, s, e)
          \/ \E c \in Failures : RequeueWork(id, c) \/ DeadLetterWork(id, c)
    BY SMTT(30), <1>1 DEF HostStep
  <2>2. \E c \in Failures : RequeueWork(id, c)
    BY ZenonT(60), <1>1, <2>0, <2>1, ShownEventsAdvance DEF PresentCandidates, RequestTopicClarification,
       StartTopic, CommitAgentTurn, CompleteTopic, DeadLetterWork, VersionNeutral
  <2>. QED BY <1>1, <2>2, RequeueIsUnseen
<1>2. ASSUME IInv, LearnerStep
      PROVE  version' # version
  BY <1>2, ShownEventsAdvance DEF IInv, LearnerStep, SelectTopic, SubmitCustomTopic, ChooseTopic,
     AnswerTopicClarification, SubmitLearnerTurn, RequestHelp, SetLens, AskHost, PauseTopic,
     SwitchTopic, ExploreTopics, ResumeTopic, RecoverSessionWork, RecoverTopicWork, VersionNeutral
<1>3. ASSUME IInv, RuntimeStep, version' = version
      PROVE  Shown' = Shown
  <2>1. ~StartSession /\ ~QuiesceTopic /\ ~QuiesceSetup
    BY <1>3, ShownEventsAdvance DEF IInv, StartSession, QuiesceTopic, QuiesceSetup, VersionNeutral
  <2>. QED BY <1>3, <2>1 DEF RuntimeStep, RequestExport, CompleteExport, BeginHandoff,
          QuiesceIdle, setup, runs, Shown
<1>4. IInv /\ [Next]_vars => [version' = version => Shown' = Shown]_vars
  BY <1>1, <1>2, <1>3 DEF Next
<1>. QED BY <1>4, Invariance, PTL DEF Spec, VersionCoversWhatIsShown

=============================================================================
