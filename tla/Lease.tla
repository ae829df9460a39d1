-------------------------------- MODULE Lease --------------------------------
(***************************************************************************)
(* The leases of Host work (xsync_v2/lease_store.py) and the publication   *)
(* of results under them (xsync_v2/host_work.py), for the work one trigger *)
(* of one Session asks for.                                                *)
(*                                                                         *)
(* Every operation holds the Session's lock from its first read to its     *)
(* end, so operations do not overlap; but time passes, the machine's clock *)
(* may be set back, the evidence may change and the runtime may die while  *)
(* one is under way.  An operation is therefore two steps: the decision,   *)
(* kept in "op", and the step that writes it, which checks again what may  *)
(* have changed.                                                           *)
(*                                                                         *)
(* A claim id and an owner id are both required to be new at a reclaim, so *)
(* one name stands for both.  A call repeated under its own request id is  *)
(* answered from the history and changes nothing.                          *)
(***************************************************************************)
EXTENDS Integers, Sequences, FiniteSets

CONSTANTS
    Owners, None,
    LeaseTime, Tenure,      \* lease_seconds and max_tenure_seconds of a request
    MaxRenewals,            \* _MAX_RENEWALS_PER_TENURE
    MaxReclaims,            \* _MAX_RECLAIMS_PER_WORK
    MaxAttempts,            \* MAX_AUTOMATIC_WORK_ATTEMPTS
    MaxClock,               \* bound: the last moment considered
    MaxEpoch,               \* bound: starts of the runtime
    MaxCursor,              \* bound: events beside the work
    MaxSetBacks             \* bound: times the machine's clock is set back

ASSUME OwnersAssumption == IsFiniteSet(Owners) /\ None \notin Owners
ASSUME DurationAssumption ==
    LeaseTime \in Nat \ {0} /\ Tenure \in Nat /\ LeaseTime <= Tenure
ASSUME LimitAssumption ==
    MaxRenewals \in Nat /\ MaxReclaims \in Nat /\ MaxAttempts \in Nat \ {0}
ASSUME BoundAssumption ==
    MaxClock \in Nat /\ MaxEpoch \in Nat /\ MaxCursor \in Nat /\ MaxSetBacks \in Nat

VARIABLES
    clock,      \* the machine's clock
    setBacks,
    seen,       \* the last moment this runtime read from it
    epoch,      \* the runtime's epoch
    evidence,   \* is the repository as the work's trigger found it?
    cursor,     \* events of the Session's log beside those of the work
    attempt,    \* which identity of the work is current
    outcome,    \* "open" while the work is queued
    history,    \* the lease transactions of that identity on the disk
    proofs,     \* exhaustion proofs handed out and not yet recorded
    op          \* the decision of the operation in progress

time == <<clock, setBacks>>
durable == <<attempt, outcome, history>>
vars == <<time, seen, epoch, evidence, cursor, durable, proofs, op>>

-----------------------------------------------------------------------------
Works == 1..MaxAttempts
Outcomes == {"open", "published", "failed", "superseded"}

\* "cursor" is the observed_sequence of the work that the transaction saw.
LeaseRecord ==
    [kind : {"claim", "renew", "reclaim"}, owner : Owners, epoch : Nat,
     at : Nat, expires : Nat, absolute : Nat, cursor : Nat]

\* All the reclaims of a work are used up: who asked, and for which history.
Proof == [work : Works, owner : Owners, epoch : Nat, version : Nat]

\* A topic is prepared from the evidence as it is found; a turn of a topic is
\* accepted only on the evidence of the topic.
Results == {"topic", "turn", "retryable", "fatal"}

\* What ends the work keeps the evidence its decision was made on.
NoOperation == [kind |-> "none"]
Operation ==
    {NoOperation}
    \cup [kind : {"lease"}, lease : LeaseRecord]
    \cup [kind : {"publish"}, result : Results, evidence : BOOLEAN]
    \cup [kind : {"exhaust"}, proof : Proof, evidence : BOOLEAN]

Tip == history[Len(history)]
Leased == history # <<>>
OwnersOf(h) == {h[i].owner : i \in DOMAIN h}
Reclaims(h) == Cardinality({i \in DOMAIN h : h[i].kind = "reclaim"})
\* The renewals of the last tenure.
Renewals(h) == Cardinality({i \in DOMAIN h : \A j \in i..Len(h) : h[j].kind = "renew"})
Earlier(a, b) == IF a < b THEN a ELSE b

\* A reading before the last one is refused, whatever the operation.
MayRead == clock >= seen
ReadClock == MayRead /\ seen' = clock

\* The bound: a tenure starts only if all of it is considered.
Considered == clock + Tenure <= MaxClock

NewLease(kind, o) ==
    [kind |-> kind, owner |-> o, epoch |-> epoch, at |-> clock,
     expires |-> clock + LeaseTime, absolute |-> clock + Tenure, cursor |-> cursor]

\* Mutant: a renewal ignores the absolute end of the tenure.
RenewedForever(l) ==
    [l EXCEPT !.kind = "renew", !.at = clock, !.cursor = cursor,
              !.expires = clock + LeaseTime]

Renewed(l) ==
    [l EXCEPT !.kind = "renew", !.at = clock, !.cursor = cursor,
              !.expires = Earlier(clock + LeaseTime, l.absolute)]

\* What a reader of the directory demands of one more transaction.
ValidNext(h, l) ==
    LET last == h[Len(h)]
        fresh == l.expires = l.at + LeaseTime /\ l.absolute = l.at + Tenure
    IN CASE h = <<>> -> l.kind = "claim" /\ fresh
         [] h # <<>> /\ l.kind = "renew" ->
                /\ Renewals(h) < MaxRenewals
                /\ l.owner = last.owner /\ l.epoch = last.epoch
                /\ l.absolute = last.absolute /\ l.cursor >= last.cursor
                /\ last.at <= l.at /\ l.at < last.expires /\ l.at < last.absolute
                /\ l.at < l.expires /\ last.expires < l.expires
                /\ l.expires = Earlier(l.at + LeaseTime, l.absolute)
         [] h # <<>> /\ l.kind = "reclaim" ->
                /\ Reclaims(h) < MaxReclaims /\ l.owner \notin OwnersOf(h)
                /\ fresh /\ l.cursor >= last.cursor
                /\ l.epoch = last.epoch => last.at <= l.at /\ last.expires <= l.at
         [] OTHER -> FALSE

-----------------------------------------------------------------------------
Init ==
    /\ clock = 0 /\ setBacks = 0 /\ seen = 0 /\ epoch = 1
    /\ evidence = TRUE /\ cursor = 0
    /\ attempt = 1 /\ outcome = "open"
    /\ history = <<>>
    /\ proofs = {} /\ op = NoOperation

Decide(decision) ==
    /\ op' = decision /\ ReadClock
    /\ UNCHANGED <<time, epoch, evidence, cursor, durable, proofs>>

Deciding == op = NoOperation /\ outcome = "open"

\* Work that was ever leased is only reclaimed.
Claim(o) ==
    /\ Deciding /\ Considered /\ ~Leased
    /\ Decide([kind |-> "lease", lease |-> NewLease("claim", o)])

\* Inside its lease and its tenure, on the same runtime.
Live(l) ==
    /\ l.epoch = epoch
    /\ l.at <= clock /\ clock < l.absolute /\ clock < l.expires

\* A claim renews its own last version, and only if that gains time.
Renew(v) ==
    /\ Deciding /\ v = Len(history) /\ v > 0
    /\ Renewals(history) < MaxRenewals
    /\ Live(Tip) /\ Renewed(Tip).expires > Tip.expires
    /\ Decide([kind |-> "lease", lease |-> Renewed(Tip)])

Lapsed(l) == l.epoch # epoch \/ (l.at <= clock /\ l.expires <= clock)

\* Mutant: an owner may take up again what it lost.
ReclaimableByAnyone(o) == Lapsed(Tip)

Reclaimable(o) == Lapsed(Tip) /\ o \notin OwnersOf(history)

Reclaim(o) ==
    /\ Deciding /\ Considered /\ Leased
    /\ Reclaims(history) < MaxReclaims /\ Reclaimable(o)
    /\ Decide([kind |-> "lease", lease |-> NewLease("reclaim", o)])

\* Out of reclaims: the caller gets a proof and the locks are released before
\* the proof is recorded.
ProveExhausted(o) ==
    /\ Deciding /\ Leased
    /\ Reclaims(history) = MaxReclaims /\ Reclaimable(o)
    /\ ReadClock
    /\ proofs' = proofs \cup
        {[work |-> attempt, owner |-> o, epoch |-> epoch, version |-> Len(history)]}
    /\ UNCHANGED <<time, epoch, evidence, cursor, durable, op>>

\* The proof is of the present history, made by this runtime, and the last
\* tenure is over.
Exhausted(p) ==
    /\ p.work = attempt /\ p.version = Len(history) /\ p.epoch = epoch
    /\ Reclaims(history) = MaxReclaims /\ Reclaimable(p.owner)

RecordExhaustion(p) ==
    /\ Deciding /\ p \in proofs /\ Exhausted(p)
    /\ Decide([kind |-> "exhaust", proof |-> p, evidence |-> evidence])

\* A handle stands for the work as the claim saw it: an event beside the work,
\* an export say, makes it another work.
SameWork(v) == history[v].cursor = cursor

\* The handle of version v, a claim or a reclaim, whose tenure is the last one.
Handle(v) ==
    /\ v \in DOMAIN history /\ history[v].kind # "renew"
    /\ history[v].owner = Tip.owner /\ history[v].epoch = Tip.epoch

\* A result is published under the lease's last version, whatever version its
\* handle was registered with.
Submit(v, result) ==
    /\ Deciding /\ Handle(v) /\ SameWork(v) /\ Live(Tip)
    /\ result = "turn" => evidence
    /\ Decide([kind |-> "publish", result |-> result, evidence |-> evidence])

-----------------------------------------------------------------------------
\* Mutant: the lease is not looked at again when the marker is written.
StillPublishableUnchecked == evidence = op.evidence

\* The guard of the marker.
StillPublishable == evidence = op.evidence /\ Live(Tip)

\* The guard of the link.
StillGranted(l) ==
    /\ l.at <= clock /\ clock < l.expires /\ clock < l.absolute
    /\ l.kind = "renew" => clock < Tip.expires /\ clock < Tip.absolute

MayWrite ==
    /\ MayRead
    /\ CASE op.kind = "lease" -> StillGranted(op.lease)
         [] op.kind = "publish" -> StillPublishable
         [] op.kind = "exhaust" -> evidence = op.evidence /\ Exhausted(op.proof)

WriteLease ==
    /\ op.kind = "lease"
    /\ history' = Append(history, op.lease)
    /\ UNCHANGED <<attempt, outcome>>

Settle(result) == outcome' = result /\ UNCHANGED <<attempt, history>>
\* The new identity has a directory of its own; nothing reads the old one again.
Requeue == attempt' = attempt + 1 /\ history' = <<>> /\ UNCHANGED outcome

WriteResult ==
    /\ op.kind = "publish"
    /\ CASE op.result \in {"topic", "turn"} -> Settle("published")
         [] op.result = "retryable" /\ attempt < MaxAttempts -> Requeue
         [] OTHER -> Settle("failed")

WriteExhaustion ==
    /\ op.kind = "exhaust"
    /\ IF attempt < MaxAttempts THEN Requeue ELSE Settle("failed")

Write ==
    /\ op # NoOperation /\ MayWrite /\ ReadClock
    /\ WriteLease \/ WriteResult \/ WriteExhaustion
    /\ proofs' = IF op.kind = "exhaust" THEN proofs \ {op.proof} ELSE proofs
    /\ op' = NoOperation
    /\ UNCHANGED <<time, epoch, evidence, cursor>>

Refuse ==
    /\ op # NoOperation /\ ~MayWrite
    /\ op' = NoOperation
    /\ seen' = IF MayRead THEN clock ELSE seen
    /\ UNCHANGED <<time, epoch, evidence, cursor, durable, proofs>>

\* A call that is refused may have read the clock first.
Look ==
    /\ op = NoOperation /\ seen # clock /\ ReadClock
    /\ UNCHANGED <<time, epoch, evidence, cursor, durable, proofs, op>>

-----------------------------------------------------------------------------
Tick ==
    /\ clock < MaxClock /\ clock' = clock + 1
    /\ UNCHANGED <<setBacks, seen, epoch, evidence, cursor, durable, proofs, op>>

SetBack ==
    /\ setBacks < MaxSetBacks /\ setBacks' = setBacks + 1
    /\ clock' \in 0..(clock - 1)
    /\ UNCHANGED <<seen, epoch, evidence, cursor, durable, proofs, op>>

\* The runtime dies; the next one has an epoch of its own and has read nothing.
Restart ==
    /\ epoch < MaxEpoch /\ epoch' = epoch + 1
    /\ seen' = 0 /\ proofs' = {} /\ op' = NoOperation
    /\ UNCHANGED <<time, evidence, cursor, durable>>

ChangeEvidence ==
    /\ evidence' = ~evidence
    /\ UNCHANGED <<time, seen, epoch, cursor, durable, proofs, op>>

\* An export or its completion: an event that leaves the conversation as it is.
NeutralEvent ==
    /\ op = NoOperation /\ cursor < MaxCursor /\ cursor' = cursor + 1
    /\ UNCHANGED <<time, seen, epoch, evidence, durable, proofs, op>>

\* The learner withdraws the question, or the Session is handed over.
Supersede ==
    /\ Deciding /\ Settle("superseded")
    /\ UNCHANGED <<time, seen, epoch, evidence, cursor, proofs, op>>

Next ==
    \/ \E o \in Owners : Claim(o) \/ Reclaim(o) \/ ProveExhausted(o)
    \/ \E v \in DOMAIN history : Renew(v) \/ \E r \in Results : Submit(v, r)
    \/ \E p \in proofs : RecordExhaustion(p)
    \/ Write \/ Refuse \/ Look
    \/ /\ outcome = "open"     \* nothing is considered after the end of the work
       /\ Tick \/ SetBack \/ Restart \/ ChangeEvidence \/ NeutralEvent \/ Supersede

Spec == Init /\ [][Next]_vars

\* Time passes, an operation under way ends, and somebody calls again.
FairSpec == Spec /\ WF_vars(outcome = "open" /\ Tick) /\ WF_vars(Write) /\ WF_vars(Refuse) /\ WF_vars(Look)

-----------------------------------------------------------------------------
TypeOK ==
    /\ clock \in 0..MaxClock /\ setBacks \in 0..MaxSetBacks
    /\ seen \in 0..MaxClock /\ epoch \in Nat
    /\ evidence \in BOOLEAN /\ cursor \in 0..MaxCursor
    /\ attempt \in Works /\ outcome \in Outcomes
    /\ history \in Seq(LeaseRecord)
    /\ proofs \subseteq Proof /\ op \in Operation

\* Whatever the clock did between two runs of the runtime, a lease that was
\* decided fits the history it is appended to: the reader, which checks every
\* transaction by rules of its own, never finds a directory it refuses, and so
\* never a work that can be neither leased nor failed.
DecisionsAreReadable ==
    /\ op.kind = "lease" => ValidNext(history, op.lease)
    /\ \A i \in DOMAIN history : ValidNext(SubSeq(history, 1, i - 1), history[i])

\* A result is written only at a moment inside the lease, of the runtime that
\* granted it, on the evidence it was decided on, and a turn only on that of its
\* topic, however long the operation took from its decision to its marker.
PublishedInTime ==
    [][outcome # "published" /\ outcome' = "published"
         => /\ Tip.epoch = epoch /\ clock < Tip.expires /\ clock < Tip.absolute
            /\ evidence = op.evidence /\ (op.result = "turn" => evidence)]_vars

\* The design asks of a result that its lease is live and that the work, its
\* trigger and the evidence are the ones it was claimed for.  Events that leave
\* the conversation as it is are not to matter.
LiveClaimsCanPublish ==
    \A v \in DOMAIN history :
        outcome = "open" /\ Handle(v) /\ Live(Tip) /\ evidence => SameWork(v)

\* A lease is over once the runtime has read a moment at or after its end, even
\* if the clock is then set back.
Holder ==
    IF outcome = "open" /\ Leased /\ Tip.epoch = epoch /\ seen < Tip.expires
    THEN Tip.owner ELSE None

Tenures == INSTANCE WorkTenure
    WITH MaxTenures <- MaxReclaims + 1, used <- OwnersOf(history), holder <- Holder

\* The lease files and the guarded publication implement the tenures of one
\* work: one holder at a time, nobody twice, a result or a failure only from the
\* holder, exhaustion only when nobody holds it, and every tenure ends.
IsWorkTenure == Tenures!TenureSpec
===============================================================================
