------------------------------- MODULE Sessions -------------------------------
(***************************************************************************)
(* The Sessions of one learner and repository: the registry                *)
(* (xsync_v2/registry.py) says which Session is current, the coordinator   *)
(* (xsync_v2/coordinator.py) creates Sessions, writes to the current one   *)
(* and hands over from one to the next, and carries on after a crash at    *)
(* any of its durable steps.                                               *)
(*                                                                         *)
(* Every operation holds the exclusive registry lock from its first read   *)
(* to its end, so operations do not overlap, and keeps nothing in memory   *)
(* that is not on the disk.  The registry's log is opened with repairs, so *)
(* a commit to it is one step, as TransactionLog shows.  The log of a      *)
(* registered Session is opened without: a process that dies inside the    *)
(* publication of a commit to it leaves a log that nobody opens again.  Of *)
(* a Session's state only what the handoff depends on is kept: see         *)
(* Dialogue for the rest.                                                  *)
(***************************************************************************)
EXTENDS Registry

CONSTANTS
    MaxSequence     \* bound: length of a log when another command is accepted

ASSUME BoundAssumption == MaxSequence \in Nat

VARIABLES
    registry,               \* the state the registry's log replays to
    config,                 \* is config.json written?
    log,                    \* the Session's log and the state it replays to
    torn,                   \* the Sessions whose log open_existing refuses
    pc, op                  \* the operation in progress

vars == <<registry, config, log, torn, pc, op>>

-----------------------------------------------------------------------------
generation == registry.generation
current == registry.current
pending == registry.pending
status == registry.status
activated == registry.activated

\* "phase" is "idle" for a started Session in phase none, "busy" in any other;
\* "generation" the registry generation of the last event; "export" the state of
\* its export intent.
Log == [exists : BOOLEAN, sequence : Nat, generation : Nat,
        phase : {"new", "busy", "idle"}, export : {"none", "requested", "completed"}]
NoLog == [exists |-> FALSE, sequence |-> 0, generation |-> 0, phase |-> "new",
          export |-> "none"]

\* "finish" is a resolve of one Session that found a handoff to another pending.
Operations == {"none", "resolve", "finish", "recover", "execute"}
Operation == [kind : Operations, session : Sessions \cup {None}]
NoOperation == [kind |-> "none", session |-> None]

Places == {"idle", "auditing", "persisting", "preparing", "creating", "beginning",
           "quiescing", "completing", "bootstrapping", "writing"}

Goto(place) == pc' = place /\ UNCHANGED op
Return == pc' = "idle" /\ op' = NoOperation

Registered(s) == Known(registry, s)

\* A registry command, decided on the registry as it is and committed to its log.
Register(c) ==
    LET events == Decide(registry, c) IN
    events # <<>> /\ registry' = Reduced(registry, events)

\* The check of every semantic write: current, active, not fenced, and activated
\* by the registry's present generation.
MayWrite(s) ==
    /\ current = s /\ pending = NoHandoff
    /\ status[s] = "active" /\ activated[s] = generation

Appended(l, g, phase) ==
    [l EXCEPT !.sequence = @ + 1, !.generation = g, !.phase = phase]

\* A commit to the log of a registered Session, which is opened without repairs.
Commit(s, after) ==
    /\ s \notin torn
    /\ log' = [log EXCEPT ![s] = after]
    /\ UNCHANGED torn

\* The process dies inside the publication of that commit, before or after the marker is linked, and
\* leaves a file with two links.
Interrupted(s, after) ==
    /\ s \notin torn /\ after # log[s]
    /\ log' \in {log, [log EXCEPT ![s] = after]}
    /\ torn' = torn \cup {s}

Registering == IF current = None THEN "creating" ELSE "beginning"

\* Mutant: the registry names the target before it is on the disk.
PreparationSkipped == Registering

\* Before the registry names a Session its config and its empty log are written.
Preparation == "persisting"

-----------------------------------------------------------------------------
Init ==
    /\ registry = Empty
    /\ config = [s \in Sessions |-> FALSE]
    /\ log = [s \in Sessions |-> NoLog]
    /\ torn = {}
    /\ pc = "idle" /\ op = NoOperation

\* A pending handoff is finished first, whatever was asked for.
Resolve(s) ==
    /\ pc = "idle"
    /\ op' = [kind |-> IF pending # NoHandoff /\ pending.target # s
                       THEN "finish" ELSE "resolve",
              session |-> s]
    /\ pc' = CASE pending # NoHandoff -> "quiescing"
               [] pending = NoHandoff /\ current = None -> Preparation
               [] OTHER -> "bootstrapping"
    /\ UNCHANGED <<registry, config, log, torn>>

Recover ==
    /\ pc = "idle"
    /\ op' = [kind |-> "recover", session |-> None]
    /\ pc' = "auditing"
    /\ UNCHANGED <<registry, config, log, torn>>

Execute(s) ==
    /\ pc = "idle"
    /\ pending # NoHandoff \/ MayWrite(s)
    /\ op' = [kind |-> "execute", session |-> s]
    /\ pc' = IF pending # NoHandoff THEN "quiescing" ELSE "bootstrapping"
    /\ UNCHANGED <<registry, config, log, torn>>

\* What recovery demands of every registered Session before it changes anything.
Auditable(s) ==
    Registered(s) =>
        /\ config[s] /\ log[s].exists /\ s \notin torn
        /\ status[s] = "created" => pending.target = s /\ log[s].sequence = 0
        /\ log[s].sequence = 0 =>
            \/ status[s] = "created"
            \/ status[s] = "active" /\ current = s /\ activated[s] = generation
            \/ status[s] = "deactivating" /\ pending.source = s
        /\ log[s].sequence > 0 =>
            log[s].generation \in {activated[s], activated[s] + 1}
        /\ log[s].sequence > 0 /\ status[s] = "deactivated" => log[s].sequence = registry.proof[s]

Audit ==
    /\ pc = "auditing"
    /\ IF (pending = NoHandoff /\ current = None) \/ \E s \in Sessions : ~Auditable(s)
       THEN Return
       ELSE Goto(IF pending # NoHandoff THEN "quiescing" ELSE "bootstrapping")
    /\ UNCHANGED <<registry, config, log, torn>>

-----------------------------------------------------------------------------
PersistConfig ==
    /\ pc = "persisting"
    /\ config' = [config EXCEPT ![op.session] = TRUE]
    /\ Goto("preparing")
    /\ UNCHANGED <<registry, log, torn>>

\* The one open of a Session's log that repairs it.  TARGET_DIALOGUE_NOT_EMPTY,
\* or a log of another generation, ends the operation.
PrepareLog ==
    /\ pc = "preparing"
    /\ log' = [log EXCEPT ![op.session].exists = TRUE]
    /\ torn' = torn \ {op.session}
    /\ IF log[op.session].sequence > 0 THEN Return
       ELSE Goto(Registering)
    /\ UNCHANGED <<registry, config>>

Create ==
    /\ pc = "creating"
    /\ Register(CreateAndActivateDialogue(op.session))
    /\ Goto("bootstrapping")
    /\ UNCHANGED <<config, log, torn>>

Begin ==
    /\ pc = "beginning"
    /\ Register(BeginHandoff(current, op.session))
    /\ Goto("quiescing")
    /\ UNCHANGED <<config, log, torn>>

\* Mutant: a log that was quiesced before the crash is refused.
QuiescableOnce(l) == l.generation \in {0, activated[pending.source]}

\* The source's last event is its own or the fence's.
Quiescable(l) == l.generation \in {0, activated[pending.source], pending.generation}

\* Mutant: a recovered handoff quiesces its source again.
QuiescedAgain(l) == Appended(l, pending.generation, "idle")

\* decide_fenced_quiesce: a Session with nothing going on needs no event.
Quiesced(l) == IF l.phase = "idle" THEN l ELSE Appended(l, pending.generation, "idle")

Quiesce ==
    /\ pc = "quiescing"
    /\ Quiescable(log[pending.source])
    /\ LET after == Quiesced(log[pending.source]) IN
       \/ Commit(pending.source, after) /\ Goto("completing")
       \/ Interrupted(pending.source, after) /\ Return
    /\ UNCHANGED <<registry, config>>

\* Mutant: the handoff is completed without its source.
ProvableUnquiesced == pc = "quiescing"

\* _proof_from_tip
Provable ==
    /\ pc = "completing"
    /\ log[pending.source].phase = "idle" /\ log[pending.source].sequence > 0

\* The proof binds the log of the source as it is now.
Complete ==
    /\ Provable
    /\ Register(CompleteHandoff(pending, log[pending.source].sequence))
    /\ Goto("bootstrapping")
    /\ UNCHANGED <<config, log, torn>>

Started(l) == IF l.sequence > 0 THEN l ELSE Appended(l, generation, "busy")

\* StartSession is committed by the first operation that finds the current
\* Session's log empty; what follows depends on the operation.
Bootstrap ==
    /\ pc = "bootstrapping" /\ MayWrite(current)
    /\ log[current].sequence > 0 => log[current].generation = generation
    /\ \/ /\ Commit(current, Started(log[current]))
          /\ CASE op.kind = "resolve" /\ current # op.session -> Goto(Preparation)
               [] op.kind = "execute" /\ current = op.session -> Goto("writing")
               [] OTHER -> Return
       \/ Interrupted(current, Started(log[current])) /\ Return
    /\ UNCHANGED <<registry, config>>

-----------------------------------------------------------------------------
\* One command of the learner or the runtime, decided on the replayed state and
\* committed to the log.
Write(after) ==
    /\ log[op.session].generation = generation /\ log[op.session].sequence < MaxSequence
    /\ Commit(op.session, after) \/ Interrupted(op.session, after)
    /\ Return
    /\ UNCHANGED <<registry, config>>

Converse(phase) ==
    /\ pc = "writing"
    /\ log[op.session].phase = "idle" => phase = "busy"
    /\ Write(Appended(log[op.session], generation, phase))

\* The export intent is durable with the event that requests it, and a later
\* command completes it.
MoveExport(from, to) ==
    /\ pc = "writing" /\ log[op.session].export = from
    /\ LET l == log[op.session] IN
       Write([Appended(l, generation, l.phase) EXCEPT !.export = to])

RequestExport == MoveExport("none", "requested")

CompleteExport == MoveExport("requested", "completed")

\* A Host result is published under the same check, without finishing a handoff.
Publish(s) ==
    /\ pc = "idle" /\ MayWrite(s)
    /\ log[s].phase = "busy" /\ log[s].sequence < MaxSequence
    /\ \E p \in {"busy", "idle"} :
        LET after == Appended(log[s], activated[s], p) IN
        Commit(s, after) \/ Interrupted(s, after)
    /\ UNCHANGED <<registry, config, pc, op>>

\* The process dies between two commits, a check of the evidence fails, the command is refused: what
\* was committed stays.
Abort == pc # "idle" /\ Return /\ UNCHANGED <<registry, config, log, torn>>

Carry ==
    \/ Audit
    \/ PersistConfig \/ PrepareLog \/ Create \/ Begin
    \/ Quiesce \/ Complete \/ Bootstrap
    \/ RequestExport \/ CompleteExport
    \/ \E phase \in {"busy", "idle"} : Converse(phase)

Next ==
    \/ \E s \in Sessions : Resolve(s) \/ Execute(s) \/ Publish(s)
    \/ Recover
    \/ Carry
    \/ Abort

Spec == Init /\ [][Next]_vars

\* A runtime recovers whenever it starts, and does not die in the same step of
\* the recovery for ever.
FairSpec ==
    /\ Spec
    /\ SF_vars(Recover) /\ SF_vars(Audit)
    /\ SF_vars(Quiesce) /\ SF_vars(Complete) /\ SF_vars(Bootstrap)

-----------------------------------------------------------------------------
\* The shape of the registry and of the logs; every handoff takes one generation.
TypeOK ==
    /\ registry \in Registries
    /\ config \in [Sessions -> BOOLEAN]
    /\ log \in [Sessions -> Log]
    /\ torn \subseteq Sessions
    /\ pc \in Places /\ op \in Operation

\* The states the registry refuses to load (_validate_state) are not reached, and a Session is only
\* created as the target of a pending handoff.
RegistryIsCoherent ==
    /\ ValidState(registry)
    /\ \A s \in Sessions : status[s] = "created" => pending.target = s

Commands ==
    {CreateAndActivateDialogue(t) : t \in Sessions}
    \cup {BeginHandoff(s, t) : s, t \in Sessions}
    \cup {CompleteHandoff(h, 1) : h \in [source : Sessions, target : Sessions, generation : {generation, Fence(registry)}]}

Transactions ==
    LET generations == {generation, Fence(registry)}
        handoffs == [source : Sessions, target : Sessions, generation : generations]
        created == {DialogueCreated(t, g) : t \in Sessions, g \in generations}
        started == {DeactivationStarted(h) : h \in handoffs}
        deactivated == {Deactivated(h, 1) : h \in handoffs}
        activations == {Activated(t, g, k) : t \in Sessions, g \in generations, k \in Kinds}
    IN  {<<x, y>> : x \in created, y \in activations \cup started} \cup {<<x>> : x \in started}
        \cup {<<x, y>> : x \in deactivated, y \in activations}

\* The rules of a handoff are written twice, in decide and in validate_transaction; the second ones
\* judge the log of an earlier process.  In every registry an operation can start from they agree: a transaction
\* is valid just when some command is decided so.
ReplayAcceptsWhatIsDecided ==
    pc = "idle" =>
        {x \in Transactions : ValidTransaction(registry, x)}
            = {Decide(registry, c) : c \in Commands} \ {<<>>}

\* Whatever was interrupted, recovery's audit accepts what is on the disk: what the registry names was
\* prepared first, and a deactivated log is the proved one.  The one exception is a death inside the
\* publication of a commit, and it never costs an earlier Session: the log it leaves is the current one's.
RecoveryRefusesOnlyTornLogs ==
    \A s \in Sessions : Auditable(s) \/ (s \in torn /\ s = current)

\* Only one Session ever holds work for a Host, whatever the registry says: the
\* source of a handoff gives its work up before the target gets any.
OneSessionHasWork ==
    \A s, t \in Sessions : log[s].phase = "busy" /\ log[t].phase = "busy" => s = t

Ended == {s \in Sessions : \/ status[s] = "deactivated"
                           \/ status[s] = "deactivating" /\ log[s].phase = "idle"}

\* Crashes and retries of a handoff are not visible: the Sessions behave as the one
\* conversation at a time of OneConversation.
Conversation == INSTANCE OneConversation WITH
    current <- IF current \in Ended THEN None ELSE current,
    ended <- Ended,
    said <- [s \in Sessions |-> log[s].sequence]
IsOneConversation == Conversation!Spec

\* A handoff that was begun ends with the target started, whatever aborts on the
\* way, unless a process died inside the publication of one of its commits: the
\* log it leaves is never opened again, and the handoff waits for ever.
HandoffCompletes ==
    \A s \in Sessions :
        pending.target = s ~> (current = s /\ log[s].sequence > 0) \/ torn # {}
===============================================================================
