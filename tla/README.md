# x-sync: specification and proofs

x-sync leads a learner through a code repository by dialogue. A local runtime
keeps one append-only event stream per Session, asks an external Host (an agent
command line) for the next question, and shows the state to browser pages. This
directory specifies the part of it that decides and remembers: TLA+ modules
translated from the Python source, TLC configurations that check them on small
instances, and proofs checked by TLAPS.

Paths below are relative to `skills/x-sync/scripts/`. "The design" is
`docs/superpowers/specs/2026-08-15-warm-adaptive-dialogue-design.md`.

Contents: [inventory](#inventory), [plan](#plan), [modules](#modules),
[runs](#runs), [proofs](#proofs), [disagreements](#where-code-and-documents-disagree),
[not modelled](#not-modelled).

## Inventory

| Component | Keeps | Operations | Must be true of it |
|---|---|---|---|
| Dialogue state machine (`xsync_v2/state_machine.py`, `domain.py`) | one Session: phase, topics, gates, learner model, work, exports | `decide`, `decide_fenced_quiesce`, `reduce` | one party owns the floor; set-aside topics own no work; late results match nothing; support rests on what the learner said |
| Transaction log (`event_store.py`, `event_codec.py`, `secure_fs.py`) | `events/`, `transactions/`, `quarantine/` of a Session | open with recovery, commit, replay of a receipt | a batch is committed whole or not at all, once per command, across crashes |
| Registry (`registry.py`, `registry_store.py`) | which Session is current, its generation, the pending handoff | create, begin and complete a handoff | one current Session; what is decided can be loaded again |
| Coordinator (`coordinator.py`) | whether the disk was delivered; config.json of each Session | `resolve`, `recover`, `execute`, catch-up | a handoff over two streams survives a crash at each step |
| Work leases (`lease_store.py`) | per work: the history of claims and renewals | claim, renew, reclaim, publication fence | one live owner; a late result is fenced; the history stays readable |
| Host work (`host_work.py`, `host_control.py`) | nothing of its own | claim, context, publish, record exhaustion | exhaustion recorded once; results only for the work claimed |
| After-commit delivery (`dispatch.py`, `observer.py`, `observers/`) | cursors, pending and retry buffers, subscriber queues | publish, drain, retry, subscribe | every observer sees every event once, in order |
| Host supervisor, submissions (`host_supervisor.py`, `submission_store.py`) | the active claim, one queued submission, registered handles | run, submit, renew, publish | a submission is published for its own claim; a lost claim ends |
| Evidence (`evidence.py`, `repository_context.py`) | captured fingerprints | capture, verify | conclusions do not outlive their evidence |
| Exports (`export.py`, `export_service.py`) | artifact files | request, materialize, complete, recover | an intent is completed exactly once |
| Locking (`locking.py`, `runtime_owner.py`) | lock files, thread stacks | registry, Session and owner locks | exclusion, one order |
| Runtime, HTTP, IPC, CLIs | sockets, wiring | start, stop, route | recovery before the first command |
| Chat (`xsync_chat/`) | session.json, one worker thread, page streams | submit, retry, stop, stream, close | saved questions survive; busy ends |
| Legacy quiz (`xsync.py`) | event chain, state.json, active.json, mastery.json, a lock directory | start, answer, lessons, review, continue, report | one writer; state follows events; a stale question is not scored |
| Installer, pages, spikes | – | – | – |

How they interact. A browser command goes through `browser_service` to
`coordinator.execute`, which holds the registry lock, checks that the Session is
current and unfenced, replays its log, calls `decide` and commits the events. The
commit is the link of a marker file. After the locks are released the committed
events go to observers, one of which wakes the Host supervisor. The supervisor
claims the work under a lease, asks the Host, and publishes the result through
`host_work`, which checks the lease again at the moment the marker is linked.
`resolve` for another Session hands over: the registry fences the source, the
source is quiesced in its own log, the registry activates the target. A restart
runs `recover` first.

What is hard. Host results that arrive after their work was superseded, failed,
retried or paused; two streams that must agree across a crash; files half
published; retries of commands whose answer was lost; a fence that falls between
two commands; worker threads that outlive a close; pages woken only by a revision
number; conclusions that outlive the repository state they were drawn from.
`PROJECT.json` lists each hazard at its line.

## Plan

In the order in which a failure would hurt most; all of it is done:

1. `LearnerModel`, `Dialogue`: the state machine, with `DialogueProofs`.
2. `Chat`: the chat runtime with threads, failed saves, crashes and pages, with
   `ChatProofs`.
3. `TransactionLog`, shown to implement `CommittedLog`, with `LogProofs`.
4. `Registry`, and `Sessions` over it, shown to implement `OneConversation`, with
   `SessionsProofs`.
5. `Lease`, shown to implement `WorkTenure`; `Supervisor`, which uses what
   `WorkTenure` promises; `LeaseProofs` and `SupervisorProofs`.
6. `Delivery`, shown to implement `Feed`, with `DeliveryProofs`.
7. `QuizRules` and `Quiz`: the legacy quiz, with `QuizProofs`.

What composes what: `Sessions` extends `Registry`; `Supervisor` extends
`WorkTenure`, the abstraction `Lease` implements, so that the supervisors are
checked against the promise and not against the files; `Quiz` extends `QuizRules`.

Next: the locks of `locking.py` as modes and orders; the chat's `HostRunner`
with its threads and deadlines; the files of an export.

## Modules

### LearnerModel, Dialogue

`LearnerModel` holds what a Topic Run knows: gate assessments and model entries,
what a Host's result may claim of them, and how a new evidence baseline lowers
them. `Dialogue` is one Session. Every command is one action, whose guard is the
handler's (`_submit_turn`, `_pause_topic`, ...) and whose effect is the branch of
`reduce` for the event it emits, `validate_state` included where it restricts.
The state variables are the fields of `DialogueState`; `event` is the last
committed event.

- A Host command names the work it answers by any id issued so far. In the code a
  work id is derived from the creating command, so ids never repeat; here it is the
  sequence number of the creating event.
- A failure report commits a batch of two events (failed, then requeued or dead
  lettered) and is one action: no command sees the state between.
- `fence` is the registry's view. A handoff may begin at any point; commands are
  refused from then on, and the fenced quiesce is the only event left.
- Gate results keep "cited" instead of the list of cited turns, which tells apart
  what the citation rules tell apart. Digests and the runtime epoch are dropped:
  the coordinator pins them to one value for a Session.
- Commands that cannot reach the state machine are not actions: `StartTopic` from
  `choosing_topic` has no caller in `host_work` or `host_result`, and
  `PresentCandidates` for selection work is refused by the reducer.

### Chat

`xsync_chat`: the history in memory and on the disk, the answer being produced by
a worker thread, the owner lock, close and crash, and the pages that stream
revisions. A user message and its reply are one record; a text is empty, a part or
the whole. A save ends "saved", "kept" (the file is the old one and an error is
raised) or "replaced" (the file is the new one and an error is raised, as when the
directory cannot be synced). A worker may outlive the wait of `close`, and any save
may fail, that of `retry` included. Two variables on which no step depends record
that the code's two known failures have happened: `outlived`, that a worker has
outlived a close, and `unsaved`, the replies that are pending since the save of
their retry failed. The properties are conditioned on them and on nothing else. One
run of the Host is a step that ends in an answer, an error or a cancellation.

### CommittedLog, TransactionLog

`TransactionLog` is a Session's stream as files: event files published one by one,
then a marker, each by staging, linking and unlinking; opening replays the markers,
repairs links and moves uncommitted events to the quarantine. A process may die
before or after every system call (`Crash`) and every publication may fail
(`Fail`). The registry's store uses the same protocol, always with repairs.
`CommittedLog` says what a caller may rely on. The refinement maps the markers on
the disk to the committed batches: the link of the marker is the commit.
The failure modelled is the death of the process, not of the machine. `CrashIsRecoverable`
is of the opens with repairs; what an open without them makes of a registered
Session's log is the subject of `log_unrepaired`, and of `torn` in `Sessions`.

### OneConversation, Registry, Sessions

`Registry` is the registry as a value: what `decide` answers to each command, the
events it emits, what they do, and, written in the code a second time, which
transactions a loader accepts and which states. `Sessions` joins it with the logs
(reduced to length, generation, whether work is pending, and one export intent) and
the coordinator's operations, one action per durable step: config, empty log,
registry create or begin, quiesce, complete, start. Every operation holds the
exclusive registry lock to its end, so operations do not overlap, and `Abort` ends
one after any step and keeps the disk: that is a crash, a refused command, or a
failed evidence check. A commit to the registry's log is one step, because that log
is always opened with repairs, and `TransactionLog` shows that such an open finds the
batch whole or not at all. A commit to the log of a registered Session is not: it is
opened by `open_existing`, without repairs, so a death inside the publication
(`Interrupted`) leaves the log `torn`, with the event or without it, and neither the
audit of a recovery nor any later commit gets past it. `PrepareLog` is the one open of
a Session's log that repairs it, and no registered Session comes back to it.
`OneConversation` is what the learner is promised; a Session
counts as closed from the moment its quiesce is in its log, whatever the registry
still says.

### WorkTenure, Lease

`Lease` is the work one trigger of one Session asks for: the lease transactions on
the disk, the clock, the runtime's epoch, the evidence. An operation holds the
Session's lock, but time passes, the clock is set back, the evidence changes and the
runtime dies while it is under way, so it is two steps: the decision, kept in `op`,
and the write, guarded by what the code checks again at the link or at the marker
(`StillGranted`, `StillPublishable`, `Exhausted`). A result and an exhaustion are
written only on the evidence they were decided on, whatever it was; only a turn needs
that of its topic, so failures are reported on changed evidence too. `ValidNext` is
the reader's own rule for one more transaction. The proof that all reclaims are used up is handed
out by one call and recorded by a later one. `WorkTenure` says what this
amounts to: one holder at a time, nobody twice, only the holder settles, exhaustion
only when nobody holds, and every tenure ends. In the mapping a lease is over once
the runtime has read a moment at or after its end.

### Supervisor

The thread of each supervisor, as the place it is at between two calls, with the
answers each call may give; the Host's `submit` and `close` from other threads;
`RenewalDue` for the renewal timer. The service's answers follow `WorkTenure`. A
submission carries no handle once it is queued: `queued` and `taken` record for
which claim it was made, and `ResultsAnswerTheirWork` compares that with the
claim it is published for. `orphan` is the lease of a dead runtime, which a claim
still takes for live until it has run out.

### Feed, Delivery

Operations as threads: make sure the disk was delivered, commit under the writer
locks, deliver after releasing them. `Delivery` holds the catch-up with its scan
and invalidation, the dispatcher (expected number, buffered batches, batches an
observer has failed on), the hub's cursors, one page's subscription with a bounded
queue and a retention, and a Host that reads the number of hints, looks for work
and falls asleep. `Feed` is the promise: every observer of the running process is
shown the log from its first event on, without a gap, all of it in the end.

### QuizRules, Quiz

`QuizRules` is what a quiz decides with: the bank and the choice of questions, what
each planned change makes of a session state (`Into`), which changes the write path
accepts (`Legal`), which states fit their bank, and what the mastery record keeps.
`Quiz` runs every command of one learner's session in several processes: read under
the lock, decide outside it, take the lock again and write the event, then the
state; a review takes the lock a third time to rebuild the record. The lock is a
directory and its owner.json, made one after the other: a process in a section of
`Slow` may be held up between the two for more than thirty seconds (`Stall`). A
waiter that finds the owner dead, or no owner for thirty seconds, moves the directory
away in a second step (`LookAtLock`, `Steal`), whatever it holds by then. `robbed`,
on which no step depends, records that this was the lock of a live process. Left out,
because no property here tells it apart: a pause between the two that is shorter, the
closing read `public_session` makes for its answer, profile.json (it repeats the count of
the record), and the additional reads by which `mark_attempt_stale` and
`apply_auto_review` repair state.json.

### MC modules

`MCDialogue`, `MCChat`, `MCTransactionLog`, `MCSessions`, `MCLease`,
`MCSupervisor`, `MCDelivery` and `MCQuiz` hold the values the configurations name
and nothing else, but for `MCQuiz`: the assumption that what the theorems of
`QuizProofs` suppose (`PapersAreSound`) is true of its values, and the bound
`HeldUpEarly`. Requests and processes of `Chat` are numbered in the order in which
they come, so that renamed runs are not explored twice; a symmetry set would be
unsound for its liveness.

## Runs

`CHECK_DEADLOCK FALSE` stands in the runs of `Dialogue` (a quiesced Session has
nothing more to do, and the bound on the stream ends a run), `Chat` (every process
may have stopped), `Lease` and `Supervisor` (the work may be settled and everybody
gone) and `Delivery` (the log is full and delivered). The other runs check deadlock.

| Run | Shows | Bounds, and why they are enough |
|---|---|---|
| `dialogue` | floor, selection, set-aside runs, citations, quiesce, late results, version, and that completion was earned | two topics, so that one is set aside while the other is active; one gate, one model entry, one export; eleven events reach a third failure, a recovery, a resumption and a handoff of it, and a completion with what follows |
| `chat` | no lost, doubled or falsely complete answer; only the owner writes the file; pending replies are attended, pages are current, answers settle, close ends, pages catch up | two processes and two questions: the second process starts while the first one's worker is late, and the second question makes the last one different from the first; one page; one save that fails, before or after its rename, wherever one is made |
| `log` | the log keeps what it committed, refines `CommittedLog`, can be opened again after a crash, and a caller that repeats gets its receipt | opened with repairs and without; batches of two and one event and the quiesce, two bodies and two times for the first command; two faults, so that a recovery can be interrupted itself |
| `sessions_handoffs` | registry, what recovery accepts, one conversation, a begun handoff ends unless a publication was interrupted | three Sessions: a handoff while an earlier source is deactivated; logs of three events; any number of deaths, inside publications too |
| `lease` | readable histories, results written in time, `WorkTenure` | three owners, one reclaim and two identities of the work: the reclaims are used up and the third owner proves it; a lease of 2 in a tenure of 3, so that the last renewal is cut short (no tenure is long enough for the limit of its renewals: that is left to the theorems); one restart, one setting back of the clock, one export |
| `supervisor` | submissions reach their own claim, the work is settled, lost claims end | three owner ids, two running at a time; two faults among deaths of the runtime, kills, closes and exports |
| `delivery` | nothing is forgotten, subscriptions have no gap, sleepers are told, `Feed` | two threads, two events, a queue and a retention of one, one failure or death: two commits in either order, one of which an observer refuses |
| `quiz` | a session stays readable until a live process is robbed of the lock, writes stay legal, stale answers are not scored, the cursor passes only settled questions, papers can be asked, mastery grows | two processes of which one may die inside a section, or be held up before it names its lock for a write; four questions with two prerequisites, four events after which no new command writes, two changes of the repository, one lesson; a process that is held up, and what follows a robbery, are looked at up to the second event with fresh evidence (`HeldUpEarly`), enough for both writers to end and for the next commands to meet what they left |

The type invariants are checked as a part of another invariant (`HistoryIsKept`,
`CommittedIsIntact`, `SubscriptionIsGapless`, `ReadableUntilRobbed`,
`ResultsAnswerTheirWork`); those of `Dialogue`, `Sessions` and `Lease` are proved
instead. In `Chat`, `HistoryIsKept` joins what must be true of the saved history at
any moment, `RepliesSettle` what ends, and `PagesFollow` what a page shows at any
moment with what it shows in the end.

Some properties say what holds until a known failure of the code has happened, and
the run contains the failure: `LockFencesOthers` and two parts of `HistoryIsKept` end
when a worker has outlived its close, `PendingIsAttended` and `PagesFollow` except the
replies whose retry could not be saved, `RecoveryRefusesOnlyTornLogs` and
`HandoffCompletes` except a publication that was interrupted, `ReadableUntilRobbed`
and `MasteryOnlyGrows` end when a live process has lost its lock. Each so says that
nothing else breaks what it states; the failures are described
[below](#where-code-and-documents-disagree).

Bounds: `MaxSequence` (events of a stream) in `Dialogue`, `TransactionLog` and
`Sessions`; `MaxFaults` (crashes and failures) in `TransactionLog`, `Supervisor` and
`Delivery`; `MaxRunning` (supervisors at a time); `MaxClock`, `MaxEpoch`,
`MaxCursor`, `MaxSetBacks` in `Lease`; `MaxEvents` in `Delivery` and `Quiz`;
`MaxLessons`, `MaxChanges`, `MaxDeaths` and `HeldUpEarly` in `Quiz`; `MaxRequests`,
`MaxProcs`, `MaxFailures` in `Chat`.
In `Sessions` the bound stops further commands but never a handoff; in `Lease` a
tenure starts only if all of it is considered; in `Quiz` a command that has begun
always ends, whatever the number of events. `MaxEvents` of `Quiz` leaves out what
takes more events than a session of one or two questions: see the answer that is
handed out late, [below](#where-code-and-documents-disagree).

Fairness. `Chat`: a worker thread runs and its Host has a deadline; a signalled
process proceeds with its close; a stream thread that was notified runs. The log:
a process that is not killed takes its next step, and a caller repeats. `Sessions`:
a runtime recovers whenever it starts, and does not die in the same step for ever,
hence strong fairness of `Recover` and of the steps of a recovery; that asks nothing of
a step a torn log disables, and `HandoffCompletes` promises nothing then. `Lease`: time
passes, an operation under way ends, and somebody calls again. `Supervisor`: threads
run, calls are answered, leases run out, and a Host without a usable supervisor
starts one. `Delivery`: threads run; strong fairness for the two steps that wait for
a lock which others take and release for ever (`Begin`, `Publish`). `Quiz` states no
liveness, because its lock gives up after five seconds. No fairness is assumed of
learners, of what Hosts answer, of commands or of faults.

Four more runs end in a violation: `dialogue_clarified_failure`, `log_unrepaired`,
`lease_export` and `quiz_steals`. The last has three processes, none of them slow, and
one death.

## Proofs

`DialogueProofs` proves, for any topics, names, turns, results, checks, failures and
any bound,

| Theorem | Statement |
|---|---|
| `TypeCorrect` | `Spec => []TypeOK` |
| `FloorOwned` | `Spec => []FloorIsOwned` |
| `SelectionAnswerable` | `Spec => []SelectionIsAnswerable` |
| `SetAsideIsIdle` | `Spec => []SetAsideOwnsNoWork` |
| `QuiescedIsIdle` | `Spec => []QuiescedSessionIsIdle` |
| `LateResultsMatchNothing` | `Spec => WorkNeverResurrected` |
| `SupportRestsOnTurns` | `Spec => []SupportCitesTheLearner` |
| `CompletionsAreEarned` | `Spec => []CompletionWasEarned` |
| `CompletionIsFinal` | `Spec => [][\A t \in completed : t \in completed' /\ topics'[t] = topics[t]]_vars` |
| `VersionGuardsTheScreen` | `Spec => VersionCoversWhatIsShown` |

from `Invariance`, the inductive invariant `IInv`: `TypeOK`, `Floor`,
`SelectionIsAnswerable`, `SetAsideOwnsNoWork` and `OnlyActiveIsQueued`. None of the
parts is inductive alone. A resumed topic owns the floor properly only if what was
set aside was a question or parked work (`SetAsideOwnsNoWork`); what was set aside
is idle only if the floor was owned when it was left (`Floor`); the answer to a
selection work fits only if the selection was kept (`SelectionIsAnswerable`); and
that no paused topic holds queued work (`OnlyActiveIsQueued`) is what a fenced
Session needs to be idle. `Floor` is `FloorIsOwned` written by cases on whether a
topic is active; `FloorImpliesFloorIsOwned` shows it implies the stated form. The
proofs go action by action: lemmas state what each kind of step (failing work,
leaving a topic, resuming, recovering) does to each part, and `Next` is split into
its actions once.

What is concluded about a topic rests on one lemma, `StepConcludes`: a step leaves a
Topic Run as it is, or the run is not completed and its conclusions are kept (while
turns are added), lowered, started over, or replaced by what a valid result claims.
That a completed run is left alone needs that it is neither active nor paused
(`SetAsideOwnsNoWork`); support then follows by the four cases, and what a completion
earned stays because nothing touches it.

The assumptions are those of the modules: `None` is no value of the model, results
and checks are well formed, there is at least one lens, the bound is a natural
number. The bound is not otherwise used: the theorems hold for streams of any
length.

`SessionsProofs` begins with the registry as a value. `DecisionsAreValid`: from a valid
registry, whatever `decide` accepts, `validate_transaction` accepts; the two are
written separately in `registry.py`, and a difference would only show when a log is
replayed. `ValidTransactionsKeepTheRegistry`: every transaction the validation
accepts leads to a state `_validate_state` accepts. Both are for any set of Sessions.
Of the Sessions it proves

| Theorem | Statement |
|---|---|
| `TypeCorrect` | `Spec => []TypeOK` |
| `RegistryStaysCoherent` | `Spec => []RegistryIsCoherent` |
| `ReplayAgreesWithDecide` | `Spec => []ReplayAcceptsWhatIsDecided` |
| `OnlyTornLogsStopRecovery` | `Spec => []RecoveryRefusesOnlyTornLogs` |
| `OneSessionAtATimeHasWork` | `Spec => []OneSessionHasWork` |
| `SessionsAreOneConversation` | `Spec => IsOneConversation` |

from `Invariant`. Its parts are the types; `RegistryIsCoherent`, kept by the
two theorems above; `FenceFollowsActivation`, that a fence is one
generation after the activation of the Session it stops; `LogFollowsRegistry`, which
says for each status of a Session what its config and log may hold (a Session not yet
activated has an empty log, a deactivated one ends at the proof in the registry, only
the current one is busy); and `OperationIsUnderway`, that an operation past its first
step still finds what it decided on, because it holds the registry lock. The last
two need each other: what a log holds after a step depends on the operation that takes
it, and what an operation finds depends on what the logs hold. A publication that is
interrupted does not disturb them, since the log then holds what it held or what the
commit would have left. `TornIsCurrent` adds that a torn log can only be the current
Session's, and that an operation past its commit to that log has found it whole: so a
handoff never leaves a torn log behind, and `OnlyTornLogsStopRecovery` follows, that
of all Sessions only the current one can be refused. Whether it is refused cannot be
excluded: the code grants no theorem that says recovery always succeeds. The refinement then
maps each durable step to a step of the conversation or a stutter: the quiesce to its
end, the start of the target to its beginning.

`LeaseProofs` proves

| Theorem | Statement |
|---|---|
| `TypeCorrect` | `Spec => []TypeOK` |
| `HistoriesAreReadable` | `Spec => []DecisionsAreReadable` |
| `ResultsAreInTime` | `Spec => PublishedInTime` |
| `LeasesImplementTenures` | `Spec => Tenures!TenureInit /\ [][Tenures!TenureNext]_(Tenures!tenure)` |

from `InvHolds`. `DecisionsAreReadable` is not inductive, because what makes a decision
readable is checked when it is taken and needed when it is written: `DecisionStands`
says what a decision keeps in between (the runtime's epoch, a cursor not beyond the
log, work still open, for a turn the evidence of its topic, and for a reclaim or an
exhaustion a last lease this runtime has seen the end of, `TipIsOver`). That survives a clock set back only because the
runtime refuses a reading before its last one. `HistoryIsPast` bounds what is on
the disk by the present, which is why a restart ends every tenure; `OneTenureEach`
counts one owner for each claim or reclaim, which is why `MaxReclaims` reclaims are
exactly `MaxReclaims + 1` tenures of the abstraction; `ProofsAreOfLeases` excludes a
proof of exhaustion for work that was never leased. In the refinement the write of a
claim or a reclaim is a grant, the write of a result an end by the holder, and every
reading of the clock and every restart a lapse or a stutter. The assumptions are
that the owners are finite in number, that a lease is not longer than its tenure and
at least one unit long, and that at least one attempt is allowed.

`SupervisorProofs` proves

| Theorem | Statement |
|---|---|
| `SubmissionsAnswerTheirWork` | `FairSpec => []ResultsAnswerTheirWork` |
| `SupervisorsKeepTenures` | `FairSpec => TenureInit /\ [][TenureNext]_tenure` |

from `InvHolds`, which adds to the invariant that a thread that does not serve has no
claim (`ClaimsAreServed`): else a handle could become active over a submission left
from an earlier one. Since a supervisor writes only its own entries (`OneActs`), each
step is shown for the supervisor that takes it (`ThreadKeeps`). The bounds
`MaxRunning` and `MaxFaults` are not used.

`LogProofs` proves

| Theorem | Statement |
|---|---|
| `CommittedBatchesStayIntact` | `Spec => []CommittedIsIntact` |
| `RepairsRecoverEveryCrash` | `Spec => []CrashIsRecoverable` |
| `NothingIsEverDestroyed` | `Spec => NothingIsDestroyed` |
| `LogKeepsItsPromise` | `Spec => KeepsPromise` |

from `IInv`: `CommittedIsIntact`; `FilesAreInPlace`, that an event file stands at its
own position, and one about to be moved is in the quarantine already and belongs to no
batch; `BatchesFollow`, that every batch begins where another ends;
`OperationIsInformed`, that the end of the log an operation has read is still the end,
and which files a recovery has left with two links; and `OperationIsUnderway`, what is
already on the disk at each place between two system calls. The last makes a crash
harmless: it may come at any place, and the replay that follows finds one of the states
named there. The first needs it too, since a marker is linked to the events the
operation wrote before. In the refinement the link of the marker is a commit and everything else, the
recovery included, a stutter.

`ChatProofs` proves

| Theorem | Statement |
|---|---|
| `HistorySurvives` | `Spec => []HistoryIsKept` |
| `TheLockFences` | `Spec => []LockFencesOthers` |
| `QuestionsAreAskedOnce` | `Spec => [](TypeOK /\ NoQuestionTwice)` |
| `PendingRepliesAreAttended` | `Spec => []PendingIsAttended` |
| `PagesShowTheState` | `Spec => []ViewIsCurrent`, the safety part of `PagesFollow` |

for any numbers of questions, processes, pages and failed saves, and without a condition
on what fails: workers outlive closes and the save of `retry` fails in every one of
them. What these two failures cost is in the properties themselves (`~outlived`,
`unsaved`). The invariants are in three layers: `Inv` (types, distinct questions, a
process that is down holds nothing, a page is served by a process that is not down);
`Owned`, that the owner of the lock has in memory what the file holds, and a process
that has released it has no worker left, which holds until a worker has outlived its
close (`OwnedYet`) and falls with that step only; `Attended`, that the reply the active
request waits for is the last one, and it and the unsaved ones are the only ones
pending, which holds always.

`DeliveryProofs` proves, of any number of threads, events and faults, and any size of
the queue and the retention,

| Theorem | Statement |
|---|---|
| `NothingIsLost` | `Spec => []NothingIsForgotten` |
| `SubscriptionsHaveNoGap` | `Spec => []SubscriptionIsGapless` |
| `NoWorkIsSleptThrough` | `Spec => []SleeperWillBeTold` |
| `ObserversFollowTheFeed` | `FairSpec => Shown!Init /\ [][Shown!Next]_(Shown!feed)`, the safety part of `IsFeed` |

from `IInv`. `Covers` is the heart of it: as long as the disk counts as delivered,
and from the end of a scan that nothing made stale, every event an observer has not
been shown is buffered, to be tried again, being handed over, or held by a thread. It is
stronger than `NothingIsForgotten`, which asks nothing of a scan under way; and it is
why a failed commit must make such a scan stale. `DeliversTheLog` says that every batch
under way is of the log, `HeardInOrder` that what an observer was shown is the log from
its first event on, `LocksAreHeld` which threads hold a batch or the dispatcher;
`PageIsGapless` relates the queue of a subscription and its cursor to what the stream
was shown, and `WaiterWillBeTold` the work a Host did not see to what the observer that
wakes it was shown.
That there is a first event not shown, and a last one, comes from the well-foundedness
of the naturals (`LeastExists`, `GreatestExists`).

`QuizProofs` proves, of any bank, any number of answers, events, lessons and changes of
the repository,

| Theorem | Statement |
|---|---|
| `AnyNumberOfProcesses` | `Spec => []Inv` |
| `StaleAnswersAreNeverScored` | `Spec => []StaleIsNotScored` |
| `PassedQuestionsStaySettled` | `Spec => []PassedQuestionsWereSettled`, if `PapersAreSound` |
| `GuardedWritesAreLegal` | `Spec => []WritesAreLegal`, if `PapersAreSound` |
| `RecordNeverShrinks` | `Spec => MasteryOnlyGrows` |
| `OnlyRobberyBreaksSessions` | `Spec => []ReadableUntilRobbed`, if `PapersAreSound` |

for any number of processes, of which any number may die or be held up.

A process that is no longer alone can only repeat a sequence number, and an event that
repeats one is never replayed. So what is invariant of the state after the last event
needs no exclusion, and `Inv` has none: that state is `Good` (only the last attempt may
lack its review; before the index every question is settled; results, hints and reviews
agree), a command that decides holds a view which the state `Extends` (attempts keep
their place, reviews stay), and a plan that waits for the lock fits the state. The last
is what decides: a plan is made from an older state, so `PlanFits` may only say what
`Extends` preserves, and `StepGood` shows that this, with the guards of `Into` and the
checks of `Legal`, suffices. `StaleIsNotScored` and `PassedQuestionsWereSettled` follow
from `Good`.

`WritesAreLegal` says that the guards which a command evaluates under the lock, before
it applies its change, leave nothing for `validate_event_transition` to refuse. `Good`
is not enough for that: it says nothing of lessons, and `PlanFits` says only what keeps
the state good. `SoundInv` is the layer that adds it. `Sound` says that the state after
the last event meets what that check asks of a state (`SoundState`: at most one lesson
is open, and in a lesson one feedback awaits its revision, as the status says), and that
its automatic results stand; `Keeps`, that a later state has the
lessons and feedbacks of an earlier one in their places; `PlanHolds`, what a plan of
each type still finds in the state it meets. That the index has not moved under a plan
follows because the question it speaks of is still the current one, and a sound paper
repeats none; hence `PapersAreSound`. `GuardsSuffice` joins one lemma for each group of
event types. The exception for `grading_started` is the property's own, and
[described below](#where-code-and-documents-disagree).

`LockInv` adds the exclusion: until a live process is robbed (`Excludes`), who is about
to write holds the lock, who has made its directory and not yet named it is the only
one to have made it, and what is written follows the last event. With it the chain is
never broken and `state.json` never ahead, and a rebuild of the record is of the whole
session; it takes nothing out because no step takes a result back (`ResultsStay`). A
death does not end it, and neither does a waiter that moves a dead owner's directory
away: `ExcludesStep` shows that only the step that moves away the lock of a live
process does, and `RobbedStays` that this step is remembered. That the code cannot take
such a step is not claimed: `quiz_steals` shows that it does.

`PapersAreSound` says that a paper which `start_session` accepts is a list of different
questions; `PaperOf` is defined by recursion over the data, so that is TLC's to show
(`PaperIsAskable`), and `MCQuiz` assumes it, so that TLC finds it true of the instance
it runs. It is the only condition of a theorem here that is not an assumption of the
module it is about.

One assumption on a constant is of the module and not of the code: in `Delivery` the
log holds at least one event. That `None` is not a value of what it stands beside is an
assumption of every module that has it.

Only model-checked: `HandoffCompletes` of `Sessions`; that every tenure ends (the
fairness of `WorkTenure` in `IsWorkTenure`); `WorkIsSettled` and `LostClaimsEnd` of
`Supervisor`; `RetriesAreAnswered` of `TransactionLog`; `RepliesSettle` and what a page
shows in the end (`PagesFollow`) of `Chat`; that every observer is shown everything in
the end (the fairness of `Feed` in `IsFeed`); `PaperIsAskable` of `Quiz`.
All but the last are liveness, which the prover does not reach: it handles neither
fairness with `ENABLED` nor induction over data. `PaperIsAskable` is about questions
chosen by recursion, and out of reach for the second reason. Every other property that a
passing run checks is stated by a theorem.

## Where code and documents disagree

Four are runs whose counterexample shows the code doing what a document, a comment
or the code's own intent excludes. `PROJECT.json` quotes both sides.

- `dialogue_clarified_failure`: after an answered clarification the third failure
  of the selection work cannot be recorded; the Session stays in `waiting_host`.
- `log_unrepaired`: a crash during a publication leaves a name with two links, and
  the Session's log, opened without repairs, refuses it from then on.
- `lease_export`: an export between a claim and its submission makes the handle
  useless; the result is answered `WORK_SUPERSEDED` although the lease is live.
- `quiz_steals`: two waiters see the same dead owner of the quiz's lock; the second
  one's `os.replace` (`xsync.py:864`) moves away the lock the first has just taken, two
  processes write, the sequence number repeats and the session is unreadable for ever.
  `references/bank-schema.md:163` and `tests/test_xsync_runtime.py:237` count on one
  writer.

Seen, and not kept as runs:

- Resuming a paused topic with dead work on changed evidence skips the recovery
  action the design asks for (`state_machine.py:1350`, design :750).
- Recovery with retry stores a worse evidence health and leaves supported gates and
  confirmed insights as they are (`state_machine.py:3012`); the design lowers them
  (section 8.5, invariant 7).
- An export requested before a handoff can never be completed (`coordinator.py:983`,
  `export_service.py:195`, design :465).
- A chat retry whose save fails leaves a pending reply that no worker is on
  (`store.py:245`, `server.py:333`), and no page is told. Without the exception for
  `unsaved` TLC finds `PendingIsAttended` and `ViewIsCurrent` violated.
- `close` gives the owner lock back after 15 s even when the worker lives
  (`server.py:142`, `store.py:269`), so a late save can replace the file of the next
  owner. Without the condition `~outlived` TLC finds `LockFencesOthers` violated.
- What `log_unrepaired` shows of one log stops more than that Session. The audit of a
  recovery opens every registered Session and refuses all of them for one torn log
  (`coordinator.py:824`), and a handoff away from the torn Session cannot quiesce it
  (`coordinator.py:1054`): it waits for ever, with `torn # {}` as the second
  alternative of `HandoffCompletes`. Without that alternative TLC finds it violated, by
  one death inside the publication of the quiesce.
- The quiz's lock fails in two more ways: a directory that stays without owner.json for
  thirty seconds is taken for abandoned though its maker lives (`xsync.py:860`; in the
  run `quiz`, as `Stall`), and `finally: rmtree` removes whatever lock is there
  (`Unlock`).
- The quiz scores an automatic result without a review as unaided
  (`xsync.py:4057`, `attempt_grade`), and computes an answer's hint level before it
  takes the lock (`xsync.py:3594`), so a lesson opened and completed in between leaves
  it at 0; `references/evaluation.md:34` and `:36` exclude both.
- An answer that was stale when it was given can be scored by the agent: a
  `pending_reviews` that found the question before it saved, and goes on when the next
  question's answer is saved, looks only at the present evidence of that one
  (`xsync.py:3680`), while `dispatch_saved_answer` (`xsync.py:3236`), which it did not
  repeat, would have marked it stale. With `MaxEvents` of 7 or more TLC finds
  `a.review.status = "graded"` for a free-text answer with `fresh = FALSE`;
  `StaleIsNotScored` therefore speaks of automatic results and of choices.
- `pending_reviews` (`xsync.py:3705`) checks under the lock the status and not the
  attempt; one overtaken by the next question is refused only by
  `validate_event_transition`. `WritesAreLegal` names this exception.
- A supervisor with a fixed owner id stops with `OWNER_ID_REUSED` when its own lease
  lapsed; the last renewal of a tenure is refused while the lease is live and the
  claim is given up; between the wait and the claim work that disappears ends the
  supervisor with `NO_RUNNABLE_WORK`; after a restart of the runtime a claim is
  answered `WORK_ALREADY_LEASED` until the dead runtime's lease would have run out; a
  submission queued when the claim is cleared is dropped without a word to the Host.
- `dialogue.js:60`: a refresh and a command that overlap may leave the page with the
  older of two snapshots until the next event.
- The design lets a learner ask for other topics during setup and end a Session; the
  code has no such commands.

## Not modelled

- Locking (`locking.py`): the modules take the exclusion of the locks as the
  atomicity of an operation, and state at each module what may happen inside one.
- The chat's `HostRunner`, the files of an export, the context handed to a Host, the
  receipts of publications.
- Of the quiz: scanning the repository, installing and normalising a bank, evidence
  snapshots, the report's text, HTML and HTTP.
- Receipts of registry and Session commands in `Sessions`: the log's module has
  them. A retry of a command after a handoff gets `SESSION_DEACTIVATED`, not its
  receipt; that answer is not part of the modelled state.
- The registry's own stream in `Delivery`: it has the same dispatcher and no observer.
- Codecs, hashes, validation of texts and sizes, permissions and paths, HTTP and IPC
  framing, prompts, rendering: no property here depends on them.
- Loss of power; changes to the repository between the last evidence check and the
  commit.
- The installer, the pages' scripts and the feasibility spikes.
