------------------------------ MODULE LeaseProofs ------------------------------
(***************************************************************************)
(* Proofs about the leases of Host work: the lease files stay readable, a  *)
(* result is written in time, and every step of Lease is a step of         *)
(* WorkTenure or changes nothing there, for any owners, durations, limits  *)
(* and whatever the clock does.                                            *)
(***************************************************************************)
EXTENDS Lease, FiniteSetTheorems, SequenceTheorems, TLAPS

\* What the transactions on the disk share with the state they were written in.
HistoryIsPast ==
    \A i \in DOMAIN history : history[i].cursor <= cursor /\ history[i].epoch <= epoch

\* Every claim and every reclaim brought an owner of its own.
OneTenureEach ==
    Leased => Cardinality(OwnersOf(history)) = Reclaims(history) + 1

\* This runtime has seen the end of the last lease, or did not grant it.
TipIsOver == Tip.epoch # epoch \/ Tip.expires <= seen

\* Nothing changes the work under an operation in progress.
DecisionStands ==
    /\ op # NoOperation => outcome = "open"
    /\ op.kind = "lease" =>
          /\ op.lease.epoch = epoch /\ op.lease.cursor <= cursor
          /\ op.lease.kind = "reclaim" => TipIsOver
    /\ op.kind \in {"publish", "exhaust"} => Leased
    /\ op.kind = "publish" /\ op.result = "turn" => op.evidence
    /\ op.kind = "exhaust" => TipIsOver

ProofsAreOfLeases == \A p \in proofs : p.version > 0

Inv ==
    /\ TypeOK
    /\ DecisionsAreReadable
    /\ HistoryIsPast
    /\ OneTenureEach
    /\ DecisionStands
    /\ ProofsAreOfLeases

-----------------------------------------------------------------------------
\* What a history is, and its last transaction.
LEMMA HistoryTyped ==
    ASSUME TypeOK
    PROVE  /\ Len(history) \in Nat /\ DOMAIN history = 1..Len(history)
           /\ \A i \in 1..Len(history) : history[i] \in LeaseRecord
           /\ Leased => Len(history) \in DOMAIN history /\ Tip \in LeaseRecord
  BY LenProperties, ElementOfSeq, EmptySeq DEF TypeOK, Leased, Tip

LEMMA RecordFields ==
    ASSUME NEW l \in LeaseRecord
    PROVE  /\ l.kind \in {"claim", "renew", "reclaim"} /\ l.owner \in Owners
           /\ l.epoch \in Nat /\ l.at \in Nat /\ l.expires \in Nat
           /\ l.absolute \in Nat /\ l.cursor \in Nat
  BY DEF LeaseRecord

LEMMA NewLeaseTyped ==
    ASSUME TypeOK, NEW kind \in {"claim", "renew", "reclaim"}, NEW o \in Owners
    PROVE  NewLease(kind, o) \in LeaseRecord
  BY DurationAssumption DEF TypeOK, NewLease, LeaseRecord

LEMMA RenewedTyped ==
    ASSUME TypeOK, NEW l \in LeaseRecord
    PROVE  /\ Renewed(l) \in LeaseRecord
           /\ Renewed(l).kind = "renew" /\ Renewed(l).at = clock
           /\ Renewed(l).cursor = cursor
           /\ Renewed(l).owner = l.owner /\ Renewed(l).epoch = l.epoch
           /\ Renewed(l).absolute = l.absolute
           /\ Renewed(l).expires = Earlier(clock + LeaseTime, l.absolute)
<1> DEFINE end == Earlier(clock + LeaseTime, l.absolute)
<1>1. clock \in Nat /\ cursor \in Nat
  BY BoundAssumption DEF TypeOK
<1>2. end \in Nat
  BY <1>1, RecordFields, DurationAssumption DEF Earlier
<1>3. Renewed(l) = [l EXCEPT !.kind = "renew", !.at = clock, !.cursor = cursor, !.expires = end]
  BY DEF Renewed
<1> HIDE DEF end
<1>4. Renewed(l).expires = end
  BY <1>3 DEF LeaseRecord
<1>5. Renewed(l) \in LeaseRecord
  BY <1>1, <1>2, <1>3 DEF LeaseRecord
<1>6. /\ Renewed(l).kind = "renew" /\ Renewed(l).at = clock /\ Renewed(l).cursor = cursor
      /\ Renewed(l).owner = l.owner /\ Renewed(l).epoch = l.epoch
      /\ Renewed(l).absolute = l.absolute
  BY <1>3 DEF LeaseRecord
<1> QED
  BY <1>4, <1>5, <1>6 DEF end

\* The cases of an operation.
LEMMA OperationCases ==
    ASSUME TypeOK
    PROVE  /\ op.kind \in {"none", "lease", "publish", "exhaust"}
           /\ op.kind = "none" <=> op = NoOperation
           /\ op.kind = "lease" => op.lease \in LeaseRecord
           /\ op.kind = "publish" => op.result \in Results
           /\ op.kind = "exhaust" => op.proof \in Proof
<1>1. op \in Operation
  BY DEF TypeOK
<1>2. CASE op = NoOperation
  BY <1>2 DEF NoOperation
<1>3. CASE op \in [kind : {"lease"}, lease : LeaseRecord]
  BY <1>3 DEF NoOperation
<1>4. CASE op \in [kind : {"publish"}, result : Results, evidence : BOOLEAN]
  BY <1>4 DEF NoOperation
<1>5. CASE op \in [kind : {"exhaust"}, proof : Proof, evidence : BOOLEAN]
  BY <1>5 DEF NoOperation
<1> QED
  BY <1>1, <1>2, <1>3, <1>4, <1>5 DEF Operation

-----------------------------------------------------------------------------
LEMMA InitInv == Init => Inv
<1> SUFFICES ASSUME Init PROVE Inv
  OBVIOUS
<1>1. TypeOK
  BY BoundAssumption, LimitAssumption, EmptySeq
     DEF Init, TypeOK, Works, Outcomes, Operation, NoOperation
<1>2. DOMAIN history = {} /\ ~Leased
  BY DEF Init, Leased
<1>3. op = NoOperation /\ op.kind = "none" /\ proofs = {}
  BY DEF Init, NoOperation
<1> QED
  BY <1>1, <1>2, <1>3 DEF Inv, DecisionsAreReadable, HistoryIsPast, OneTenureEach,
     DecisionStands, ProofsAreOfLeases

-----------------------------------------------------------------------------
\* What a transaction more does to the owners, the reclaims and what is read before it.
LEMMA Appending ==
    ASSUME NEW h \in Seq(LeaseRecord), NEW l \in LeaseRecord
    PROVE  /\ Append(h, l) \in Seq(LeaseRecord) /\ Len(Append(h, l)) = Len(h) + 1
           /\ DOMAIN Append(h, l) = 1..(Len(h) + 1) /\ DOMAIN h = 1..Len(h)
           /\ \A i \in 1..Len(h) : Append(h, l)[i] = h[i]
           /\ Append(h, l)[Len(h) + 1] = l
           /\ Append(h, l) # <<>>
  BY AppendProperties, LenProperties

LEMMA Prefixes ==
    ASSUME NEW h \in Seq(LeaseRecord), NEW l \in LeaseRecord,
           NEW i \in 1..(Len(h) + 1)
    PROVE  SubSeq(Append(h, l), 1, i - 1) = SubSeq(h, 1, i - 1)
<1>1. Len(h) \in Nat /\ i - 1 \in 0..Len(h)
  BY LenProperties
<1>2. /\ SubSeq(h, 1, i - 1) \in Seq(LeaseRecord)
      /\ Len(SubSeq(h, 1, i - 1)) = i - 1
      /\ \A k \in 1..(i - 1) : SubSeq(h, 1, i - 1)[k] = h[k]
  BY <1>1, SubSeqProperties, LenProperties
<1>3. /\ SubSeq(Append(h, l), 1, i - 1) \in Seq(LeaseRecord)
      /\ Len(SubSeq(Append(h, l), 1, i - 1)) = i - 1
      /\ \A k \in 1..(i - 1) : SubSeq(Append(h, l), 1, i - 1)[k] = Append(h, l)[k]
  BY <1>1, SubSeqProperties, LenProperties, Appending
<1>4. \A k \in 1..(i - 1) : Append(h, l)[k] = h[k]
  BY <1>1, Appending
<1> QED
  BY <1>1, <1>2, <1>3, <1>4, SeqEqual

LEMMA WholePrefix ==
    ASSUME NEW h \in Seq(LeaseRecord)
    PROVE  SubSeq(h, 1, Len(h)) = h
  BY LenProperties, SubSeqProperties, SeqEqual

LEMMA OwnersAppend ==
    ASSUME NEW h \in Seq(LeaseRecord), NEW l \in LeaseRecord
    PROVE  /\ OwnersOf(Append(h, l)) = OwnersOf(h) \cup {l.owner}
           /\ OwnersOf(h) \subseteq Owners /\ IsFiniteSet(OwnersOf(h))
<1>1. DOMAIN h = 1..Len(h) /\ Len(h) \in Nat /\ \A i \in 1..Len(h) : h[i] \in LeaseRecord
  BY LenProperties, ElementOfSeq
<1>2. OwnersOf(h) \subseteq Owners
  BY <1>1, RecordFields DEF OwnersOf
<1>3. IsFiniteSet(OwnersOf(h))
  BY <1>2, OwnersAssumption, FS_Subset
<1>4. DOMAIN Append(h, l) = DOMAIN h \cup {Len(h) + 1}
  BY <1>1, Appending
<1>5. OwnersOf(Append(h, l)) = OwnersOf(h) \cup {l.owner}
  BY <1>1, <1>4, Appending DEF OwnersOf
<1> QED
  BY <1>2, <1>3, <1>5

LEMMA ReclaimsAppend ==
    ASSUME NEW h \in Seq(LeaseRecord), NEW l \in LeaseRecord
    PROVE  /\ Reclaims(h) \in Nat
           /\ l.kind = "reclaim" => Reclaims(Append(h, l)) = Reclaims(h) + 1
           /\ l.kind # "reclaim" => Reclaims(Append(h, l)) = Reclaims(h)
<1> DEFINE R(g) == {i \in DOMAIN g : g[i].kind = "reclaim"}
<1>1. DOMAIN h = 1..Len(h) /\ Len(h) \in Nat
  BY LenProperties
<1>2. IsFiniteSet(R(h)) /\ Cardinality(R(h)) \in Nat
  <2>1. IsFiniteSet(1..Len(h))
    BY <1>1, FS_Interval
  <2>2. R(h) \subseteq 1..Len(h)
    BY <1>1
  <2> HIDE DEF R
  <2> QED
    BY <2>1, <2>2, FS_Subset, FS_CardinalityType
<1>3. Len(h) + 1 \notin R(h)
  BY <1>1
<1>4. l.kind = "reclaim" => R(Append(h, l)) = R(h) \cup {Len(h) + 1}
  BY <1>1, Appending
<1>5. l.kind # "reclaim" => R(Append(h, l)) = R(h)
  BY <1>1, Appending
<1>6. Cardinality(R(h) \cup {Len(h) + 1}) = Cardinality(R(h)) + 1
  BY <1>2, <1>3, FS_AddElement
<1> QED
  BY <1>2, <1>4, <1>5, <1>6 DEF Reclaims

-----------------------------------------------------------------------------
\* Typing: a decision, its writing, and what happens beside the operations.
LEMMA DecidedTyped ==
    ASSUME TypeOK, NEW d \in Operation, Decide(d)
    PROVE  TypeOK'
  BY DEF TypeOK, Decide, ReadClock, MayRead, time, durable

\* How a result or an exhaustion ends the work or this identity of it.
LEMMA WorkEnds ==
    /\ WriteResult => /\ op.kind = "publish"
                      /\ \/ Settle("published") \/ Settle("failed")
                         \/ attempt < MaxAttempts /\ Requeue
    /\ WriteExhaustion => /\ op.kind = "exhaust"
                          /\ \/ attempt < MaxAttempts /\ Requeue
                             \/ ~(attempt < MaxAttempts) /\ Settle("failed")
<1>1. ASSUME WriteResult
      PROVE  /\ op.kind = "publish"
             /\ \/ Settle("published") \/ Settle("failed")
                \/ attempt < MaxAttempts /\ Requeue
  <2>1. CASE op.result \in {"topic", "turn"}
    BY <1>1, <2>1 DEF WriteResult
  <2>2. CASE op.result \notin {"topic", "turn"} /\ op.result = "retryable" /\ attempt < MaxAttempts
    BY <1>1, <2>2 DEF WriteResult
  <2>3. CASE op.result \notin {"topic", "turn"} /\ ~(op.result = "retryable" /\ attempt < MaxAttempts)
    BY <1>1, <2>3 DEF WriteResult
  <2> QED
    BY <1>1, <2>1, <2>2, <2>3 DEF WriteResult
<1>2. ASSUME WriteExhaustion
      PROVE  /\ op.kind = "exhaust"
             /\ \/ attempt < MaxAttempts /\ Requeue
                \/ ~(attempt < MaxAttempts) /\ Settle("failed")
  BY <1>2 DEF WriteExhaustion
<1> QED
  BY <1>1, <1>2

LEMMA WriteTyped ==
    ASSUME TypeOK, Write
    PROVE  TypeOK'
<1>1. /\ UNCHANGED <<time, epoch, evidence, cursor>> /\ seen' = clock
      /\ op' = NoOperation /\ proofs' \subseteq proofs
  BY DEF Write, ReadClock
<1>2. /\ attempt' \in Works /\ outcome' \in Outcomes /\ history' \in Seq(LeaseRecord)
  <2>1. CASE WriteLease
    BY <2>1, OperationCases, Appending DEF TypeOK, WriteLease
  <2>2. CASE Settle("published") \/ Settle("failed")
    BY <2>2 DEF TypeOK, Settle, Outcomes
  <2>3. CASE attempt < MaxAttempts /\ Requeue
    <3>1. <<>> \in Seq(LeaseRecord)
      BY EmptySeq
    <3> QED
      BY <2>3, <3>1, LimitAssumption DEF TypeOK, Requeue, Works
  <2> QED
    BY <2>1, <2>2, <2>3, WorkEnds DEF Write
<1> QED
  BY <1>1, <1>2 DEF TypeOK, time, Operation

LEMMA ProveTyped ==
    ASSUME TypeOK, NEW o \in Owners, ProveExhausted(o)
    PROVE  TypeOK' /\ \A p \in proofs' \ proofs : p.version = Len(history)
<1> DEFINE p == [work |-> attempt, owner |-> o, epoch |-> epoch, version |-> Len(history)]
<1>1. p \in Proof
  BY HistoryTyped DEF TypeOK, Proof
<1>2. proofs' = proofs \cup {p} /\ p.version = Len(history)
  BY DEF ProveExhausted
<1>3. /\ seen' = clock
      /\ UNCHANGED <<time, epoch, evidence, cursor, durable, op>>
  BY DEF ProveExhausted, ReadClock
<1> QED
  BY <1>1, <1>2, <1>3 DEF TypeOK, time, durable

\* What keeps the work, its history and the operation in progress as they are, or ends the operation.
Beside ==
    /\ UNCHANGED history
    /\ cursor' >= cursor /\ epoch' >= epoch
    /\ op' = NoOperation \/ UNCHANGED <<op, outcome, seen, epoch, cursor>>

LEMMA ReadingBeside ==
    ASSUME TypeOK, Refuse \/ Look
    PROVE  TypeOK' /\ UNCHANGED <<epoch, cursor, durable, proofs>> /\ op' = NoOperation
           /\ seen' >= seen
<1>1. CASE Refuse
  BY <1>1, BoundAssumption DEF TypeOK, Refuse, time, durable, Operation, MayRead
<1>2. CASE Look
  BY <1>2, BoundAssumption DEF TypeOK, Look, time, durable, ReadClock, MayRead
<1> QED
  BY <1>1, <1>2

LEMMA EnvironmentBeside ==
    ASSUME Inv, Tick \/ SetBack \/ Restart \/ ChangeEvidence \/ NeutralEvent \/ Supersede
    PROVE  TypeOK' /\ Beside /\ proofs' \subseteq proofs
<1> USE BoundAssumption DEF Inv, TypeOK, Beside, time, durable
<1>1. CASE Tick
  BY <1>1 DEF Tick
<1>2. CASE SetBack
  BY <1>2 DEF SetBack
<1>3. CASE Restart
  BY <1>3 DEF Restart, Operation
<1>4. CASE ChangeEvidence
  BY <1>4 DEF ChangeEvidence
<1>5. CASE NeutralEvent
  BY <1>5 DEF NeutralEvent
<1>6. CASE Supersede
  BY <1>6 DEF Supersede, Deciding, Settle, Outcomes
<1> QED
  BY <1>1, <1>2, <1>3, <1>4, <1>5, <1>6

LEMMA BesideKeeps ==
    ASSUME Inv, TypeOK', ProofsAreOfLeases', Beside
    PROVE  Inv'
<1>1. op'.kind = "none" \/ UNCHANGED <<op, outcome, seen, epoch, cursor>>
  BY DEF Beside, NoOperation
<1>2. DecisionsAreReadable'
  BY <1>1 DEF Inv, DecisionsAreReadable, Beside
<1>3. HistoryIsPast'
  <2>1. DOMAIN history' = 1..Len(history)
    BY HistoryTyped DEF Inv, Beside
  <2> SUFFICES ASSUME NEW i \in 1..Len(history)
               PROVE  history[i].cursor <= cursor' /\ history[i].epoch <= epoch'
    BY <2>1 DEF HistoryIsPast, Beside
  <2>2. /\ history[i].cursor <= cursor /\ history[i].epoch <= epoch
        /\ history[i].cursor \in Nat /\ history[i].epoch \in Nat
    BY <2>1, HistoryTyped, RecordFields DEF Inv, HistoryIsPast, Beside
  <2> QED
    BY SMTT(30), <2>2, BoundAssumption DEF Beside, Inv, TypeOK
<1>4. OneTenureEach'
  BY DEF Inv, OneTenureEach, Leased, OwnersOf, Reclaims, Beside
<1>5. DecisionStands'
  BY <1>1 DEF Inv, DecisionStands, TipIsOver, Tip, Leased, Beside
<1> QED
  BY <1>2, <1>3, <1>4, <1>5 DEF Inv

-----------------------------------------------------------------------------
\* A decision that may stand: what DecisionsAreReadable and DecisionStands ask of it.
Sound(d) ==
    /\ d.kind = "lease" =>
          /\ ValidNext(history, d.lease)
          /\ d.lease.epoch = epoch /\ d.lease.cursor = cursor
          /\ d.lease.kind = "reclaim" => Lapsed(Tip)
    /\ d.kind \in {"publish", "exhaust"} => Leased
    /\ d.kind = "publish" /\ d.result = "turn" => d.evidence
    /\ d.kind = "exhaust" => Lapsed(Tip)

LEMMA DecidingKeeps ==
    ASSUME Inv, Deciding, NEW d \in Operation, Sound(d), Decide(d)
    PROVE  Inv'
<1>1. /\ op' = d /\ seen' = clock /\ outcome = "open"
      /\ UNCHANGED <<epoch, cursor, outcome, history, proofs>>
  BY DEF Decide, Deciding, ReadClock, durable
<1>2. TypeOK'
  BY DecidedTyped DEF Inv
<1>3. Lapsed(Tip) => TipIsOver'
  BY <1>1 DEF Lapsed, TipIsOver, Tip
<1>4. DecisionsAreReadable'
  BY <1>1 DEF Inv, DecisionsAreReadable, Sound
<1>5. HistoryIsPast' /\ OneTenureEach' /\ ProofsAreOfLeases'
  BY <1>1 DEF Inv, HistoryIsPast, OneTenureEach, ProofsAreOfLeases, Leased, OwnersOf, Reclaims
<1>6. DecisionStands'
  <2>1. cursor \in Nat
    BY BoundAssumption DEF Inv, TypeOK
  <2> QED
    BY <1>1, <1>3, <2>1 DEF DecisionStands, Sound, Leased
<1> QED
  BY <1>2, <1>4, <1>5, <1>6 DEF Inv

\* The last transaction: what its successor is compared with.
LEMMA TipFacts ==
    ASSUME Inv, Leased
    PROVE  /\ Tip \in LeaseRecord /\ Len(history) \in DOMAIN history
           /\ Tip.cursor <= cursor /\ Tip.epoch <= epoch
           /\ Tip.owner \in OwnersOf(history) /\ Tip = history[Len(history)]
  BY HistoryTyped DEF Inv, HistoryIsPast, Tip, OwnersOf

LEMMA ClaimKeeps ==
    ASSUME Inv, NEW o \in Owners, Claim(o)
    PROVE  Inv'
<1> DEFINE d == [kind |-> "lease", lease |-> NewLease("claim", o)]
<1>1. Deciding /\ history = <<>> /\ Decide(d)
  BY DEF Claim, Leased
<1>2. d \in Operation
  BY NewLeaseTyped DEF Inv, Operation
<1>3. ValidNext(history, NewLease("claim", o))
  BY <1>1 DEF ValidNext, NewLease
<1>4. Sound(d)
  BY <1>3 DEF Sound, NewLease
<1> QED
  BY <1>1, <1>2, <1>4, DecidingKeeps

LEMMA RenewKeeps ==
    ASSUME Inv, NEW v \in DOMAIN history, Renew(v)
    PROVE  Inv'
<1> DEFINE l == Renewed(Tip)
           d == [kind |-> "lease", lease |-> l]
<1>1. /\ Deciding /\ Renewals(history) < MaxRenewals /\ Live(Tip)
      /\ l.expires > Tip.expires /\ Decide(d)
  BY DEF Renew
<1>2. Leased
  BY HistoryTyped DEF Inv, Leased
<1>3. /\ l \in LeaseRecord /\ l.kind = "renew" /\ l.at = clock
      /\ l.cursor = cursor /\ l.owner = Tip.owner /\ l.epoch = Tip.epoch
      /\ l.absolute = Tip.absolute
      /\ l.expires = Earlier(clock + LeaseTime, Tip.absolute)
  BY <1>2, TipFacts, RenewedTyped DEF Inv
<1>4. /\ Tip.cursor <= cursor /\ Tip \in LeaseRecord /\ Tip = history[Len(history)]
  BY <1>2, TipFacts
<1>5. d \in Operation
  BY <1>3 DEF Operation
<1> HIDE DEF l
<1>6. clock \in Nat /\ Tip.absolute \in Nat /\ Tip.expires \in Nat
  BY <1>4, RecordFields, BoundAssumption DEF Inv, TypeOK
<1>7. l.at < l.expires
  BY <1>1, <1>3, <1>6, DurationAssumption DEF Live, Earlier
<1>8. ValidNext(history, l)
  BY <1>1, <1>2, <1>3, <1>4, <1>6, <1>7 DEF ValidNext, Live, Leased
<1>9. Sound(d)
  BY <1>1, <1>3, <1>8 DEF Sound, Live
<1> QED
  BY <1>1, <1>5, <1>9, DecidingKeeps

LEMMA ReclaimKeeps ==
    ASSUME Inv, NEW o \in Owners, Reclaim(o)
    PROVE  Inv'
<1> DEFINE l == NewLease("reclaim", o)
           d == [kind |-> "lease", lease |-> l]
<1>1. /\ Deciding /\ Leased /\ Decide(d)
      /\ Reclaims(history) < MaxReclaims /\ Lapsed(Tip) /\ o \notin OwnersOf(history)
  BY DEF Reclaim, Reclaimable
<1>2. d \in Operation
  BY NewLeaseTyped DEF Inv, Operation
<1>3. Tip.cursor <= cursor /\ Tip = history[Len(history)]
  BY <1>1, TipFacts
<1>4. ValidNext(history, l)
  BY <1>1, <1>3 DEF ValidNext, NewLease, Leased, Lapsed
<1>5. Sound(d)
  BY <1>1, <1>4 DEF Sound, NewLease
<1> QED
  BY <1>1, <1>2, <1>5, DecidingKeeps

LEMMA SubmitKeeps ==
    ASSUME Inv, NEW v \in DOMAIN history, NEW r \in Results, Submit(v, r)
    PROVE  Inv'
<1> DEFINE d == [kind |-> "publish", result |-> r, evidence |-> evidence]
<1>1. Deciding /\ Decide(d) /\ (r = "turn" => evidence)
  BY DEF Submit
<1>2. d \in Operation
  BY DEF Operation, Inv, TypeOK
<1>3. Leased
  BY HistoryTyped DEF Inv, Leased
<1>4. Sound(d)
  BY <1>1, <1>3 DEF Sound
<1> QED
  BY <1>1, <1>2, <1>4, DecidingKeeps

LEMMA RecordKeeps ==
    ASSUME Inv, NEW p \in proofs, RecordExhaustion(p)
    PROVE  Inv'
<1> DEFINE d == [kind |-> "exhaust", proof |-> p, evidence |-> evidence]
<1>1. Deciding /\ Decide(d) /\ Lapsed(Tip) /\ p.version = Len(history)
  BY DEF RecordExhaustion, Exhausted, Reclaimable
<1>2. d \in Operation
  BY DEF Inv, TypeOK, Operation
<1>3. Leased
  <2>1. p.version > 0
    BY DEF Inv, ProofsAreOfLeases
  <2>2. Len(<<>>) = 0
    BY EmptySeq
  <2> QED
    BY <1>1, <2>1, <2>2 DEF Leased
<1>4. Sound(d)
  BY <1>1, <1>3 DEF Sound
<1> QED
  BY <1>1, <1>2, <1>4, DecidingKeeps

LEMMA ProveKeeps ==
    ASSUME Inv, NEW o \in Owners, ProveExhausted(o)
    PROVE  Inv'
<1>1. TypeOK' /\ \A p \in proofs' \ proofs : p.version = Len(history)
  BY ProveTyped DEF Inv
<1>2. Len(history) > 0
  BY HistoryTyped DEF Inv, ProveExhausted, Leased
<1>3. ProofsAreOfLeases'
  BY <1>1, <1>2 DEF Inv, ProofsAreOfLeases
<1>4. Beside
  <2>1. UNCHANGED <<epoch, cursor, history>> /\ op' = NoOperation
    BY DEF ProveExhausted, Deciding, durable
  <2> QED
    BY <2>1, BoundAssumption DEF Beside, Inv, TypeOK
<1> QED
  BY <1>1, <1>3, <1>4, BesideKeeps

-----------------------------------------------------------------------------
\* A lease that is written, seen from both sides.
LEMMA Written ==
    ASSUME Inv, Write, WriteLease
    PROVE  /\ op.lease \in LeaseRecord /\ history' = Append(history, op.lease)
           /\ history \in Seq(LeaseRecord) /\ DOMAIN history = 1..Len(history)
           /\ Len(history) \in Nat
           /\ ValidNext(history, op.lease) /\ StillGranted(op.lease)
           /\ op.lease.epoch = epoch /\ op.lease.cursor <= cursor
           /\ op.lease.kind = "reclaim" => TipIsOver
           /\ outcome = "open" /\ UNCHANGED <<outcome, attempt, epoch, cursor>>
           /\ MayRead /\ seen' = clock /\ op' = NoOperation /\ proofs' = proofs
           /\ Leased' /\ Tip' = op.lease
<1>1. /\ op.kind = "lease" /\ op # NoOperation /\ history' = Append(history, op.lease)
      /\ UNCHANGED <<outcome, attempt>>
  BY DEF WriteLease, NoOperation
<1>2. MayRead /\ StillGranted(op.lease)
  BY <1>1 DEF Write, MayWrite
<1>3. /\ UNCHANGED <<epoch, cursor>> /\ seen' = clock /\ op' = NoOperation /\ proofs' = proofs
  BY <1>1 DEF Write, ReadClock
<1>4. /\ op.lease \in LeaseRecord /\ history \in Seq(LeaseRecord)
      /\ DOMAIN history = 1..Len(history) /\ Len(history) \in Nat
  BY <1>1, OperationCases, HistoryTyped DEF Inv, TypeOK
<1>5. /\ ValidNext(history, op.lease) /\ outcome = "open"
      /\ op.lease.epoch = epoch /\ op.lease.cursor <= cursor
      /\ op.lease.kind = "reclaim" => TipIsOver
  BY <1>1 DEF Inv, DecisionsAreReadable, DecisionStands
<1>6. Leased' /\ Tip' = op.lease
  BY <1>1, <1>4, Appending DEF Leased, Tip
<1> QED
  BY <1>1, <1>2, <1>3, <1>4, <1>5, <1>6

\* What one more transaction does to the tenures.
LEMMA WrittenCounts ==
    ASSUME Inv, Write, WriteLease
    PROVE  /\ OwnersOf(history') = OwnersOf(history) \cup {op.lease.owner}
           /\ op.lease.kind = "claim" =>
                 /\ ~Leased /\ OwnersOf(history) = {} /\ Reclaims(history') = 0
                 /\ Cardinality(OwnersOf(history')) = 1
           /\ op.lease.kind = "renew" =>
                 /\ Leased /\ op.lease.owner = Tip.owner /\ op.lease.epoch = Tip.epoch
                 /\ OwnersOf(history') = OwnersOf(history)
                 /\ Reclaims(history') = Reclaims(history)
           /\ op.lease.kind = "reclaim" =>
                 /\ Leased /\ Reclaims(history) < MaxReclaims
                 /\ op.lease.owner \notin OwnersOf(history)
                 /\ Reclaims(history') = Reclaims(history) + 1
                 /\ Cardinality(OwnersOf(history')) = Cardinality(OwnersOf(history)) + 1
           /\ Reclaims(history) \in Nat
           /\ op.lease.kind \in {"claim", "renew", "reclaim"}
<1> DEFINE l == op.lease
<1>1. /\ l \in LeaseRecord /\ history' = Append(history, l) /\ history \in Seq(LeaseRecord)
      /\ ValidNext(history, l)
  BY Written
<1>2. /\ OwnersOf(history') = OwnersOf(history) \cup {l.owner} /\ IsFiniteSet(OwnersOf(history))
      /\ Reclaims(history) \in Nat /\ l.kind \in {"claim", "renew", "reclaim"}
  BY <1>1, OwnersAppend, ReclaimsAppend, RecordFields
<1>3. /\ l.kind = "reclaim" => Reclaims(history') = Reclaims(history) + 1
      /\ l.kind # "reclaim" => Reclaims(history') = Reclaims(history)
  BY <1>1, ReclaimsAppend
<1> HIDE DEF l
<1>4. ASSUME l.kind = "claim"
      PROVE  /\ ~Leased /\ OwnersOf(history) = {} /\ Reclaims(history') = 0
             /\ Cardinality(OwnersOf(history')) = 1
  <2>1. history = <<>>
    BY <1>1, <1>4 DEF ValidNext
  <2>2. OwnersOf(history) = {} /\ {i \in DOMAIN history : history[i].kind = "reclaim"} = {}
    BY <2>1 DEF OwnersOf
  <2>3. Reclaims(history) = 0
    BY <2>2, FS_EmptySet DEF Reclaims
  <2>4. OwnersOf(history') = {l.owner}
    BY <1>2, <2>2 DEF l
  <2> QED
    BY <1>3, <1>4, <2>1, <2>2, <2>3, <2>4, FS_Singleton DEF Leased
<1>5. ASSUME l.kind = "renew"
      PROVE  /\ Leased /\ l.owner = Tip.owner /\ l.epoch = Tip.epoch
             /\ OwnersOf(history') = OwnersOf(history)
             /\ Reclaims(history') = Reclaims(history)
  <2>1. Leased /\ l.owner = Tip.owner /\ l.epoch = Tip.epoch
    BY <1>1, <1>5 DEF ValidNext, Leased, Tip
  <2>2. Tip.owner \in OwnersOf(history)
    BY <2>1, TipFacts
  <2> QED
    BY <1>2, <1>3, <1>5, <2>1, <2>2 DEF l
<1>6. ASSUME l.kind = "reclaim"
      PROVE  /\ Leased /\ Reclaims(history) < MaxReclaims /\ l.owner \notin OwnersOf(history)
             /\ Reclaims(history') = Reclaims(history) + 1
             /\ Cardinality(OwnersOf(history')) = Cardinality(OwnersOf(history)) + 1
  <2>1. Leased /\ Reclaims(history) < MaxReclaims /\ l.owner \notin OwnersOf(history)
    BY <1>1, <1>6 DEF ValidNext, Leased
  <2>2. Cardinality(OwnersOf(history) \cup {l.owner}) = Cardinality(OwnersOf(history)) + 1
    BY <1>2, <2>1, FS_AddElement
  <2>3. OwnersOf(history') = OwnersOf(history) \cup {l.owner}
    BY <1>2 DEF l
  <2> QED
    BY <1>3, <1>6, <2>1, <2>2, <2>3
<1> QED
  BY <1>2, <1>4, <1>5, <1>6 DEF l

LEMMA WriteLeaseKeeps ==
    ASSUME Inv, Write, WriteLease
    PROVE  Inv'
<1> DEFINE l == op.lease
<1>1. /\ l \in LeaseRecord /\ history' = Append(history, l) /\ history \in Seq(LeaseRecord)
      /\ DOMAIN history = 1..Len(history) /\ Len(history) \in Nat
      /\ ValidNext(history, l) /\ l.epoch = epoch /\ l.cursor <= cursor
      /\ UNCHANGED <<epoch, cursor>> /\ op' = NoOperation /\ proofs' = proofs
  BY Written
<1>2. /\ DOMAIN history' = 1..(Len(history) + 1) /\ history'[Len(history) + 1] = l
      /\ \A i \in 1..Len(history) : history'[i] = history[i]
  BY <1>1, Appending
<1> HIDE DEF l
<1>3. op'.kind = "none"
  BY <1>1 DEF NoOperation
<1>4. DecisionsAreReadable'
  <2> SUFFICES ASSUME NEW i \in 1..(Len(history) + 1)
               PROVE  ValidNext(SubSeq(history', 1, i - 1), history'[i])
    BY <1>2, <1>3 DEF DecisionsAreReadable
  <2>1. SubSeq(history', 1, i - 1) = SubSeq(history, 1, i - 1)
    BY <1>1, Prefixes
  <2>2. CASE i = Len(history) + 1
    <3>1. i - 1 = Len(history)
      BY <1>1, <2>2
    <3>2. SubSeq(history, 1, i - 1) = history
      BY <1>1, <3>1, WholePrefix
    <3> QED
      BY <1>1, <1>2, <2>1, <2>2, <3>2
  <2>3. CASE i # Len(history) + 1
    <3>1. i \in 1..Len(history)
      BY <1>1, <2>3
    <3> QED
      BY <1>1, <1>2, <2>1, <3>1 DEF Inv, DecisionsAreReadable
  <2> QED
    BY <2>2, <2>3
<1>5. HistoryIsPast'
  <2> SUFFICES ASSUME NEW i \in 1..(Len(history) + 1)
               PROVE  history'[i].cursor <= cursor /\ history'[i].epoch <= epoch
    BY <1>1, <1>2 DEF HistoryIsPast
  <2>1. CASE i = Len(history) + 1
    BY <1>1, <1>2, <2>1 DEF Inv, TypeOK
  <2>2. CASE i \in 1..Len(history)
    BY <1>1, <1>2, <2>2 DEF Inv, HistoryIsPast
  <2> QED
    BY <1>1, <2>1, <2>2
<1>6. OneTenureEach'
  <2>1. Cardinality(OwnersOf(history')) = Reclaims(history') + 1
    BY WrittenCounts DEF Inv, OneTenureEach
  <2> QED
    BY <2>1 DEF OneTenureEach, OwnersOf, Reclaims
<1>7. DecisionStands'
  BY <1>1, <1>3 DEF DecisionStands
<1> QED
  BY <1>1, <1>4, <1>5, <1>6, <1>7, WriteTyped DEF Inv, ProofsAreOfLeases

LEMMA WorkEndsKeeps ==
    ASSUME Inv, Write, WriteResult \/ WriteExhaustion
    PROVE  Inv'
<1>1. /\ op' = NoOperation /\ op'.kind = "none" /\ UNCHANGED <<epoch, cursor>>
      /\ proofs' \subseteq proofs
  BY DEF Write, NoOperation
<1>2. TypeOK' /\ ProofsAreOfLeases'
  BY <1>1, WriteTyped DEF Inv, ProofsAreOfLeases
<1>3. CASE UNCHANGED history
  <2>1. Beside
    BY <1>1, <1>3, BoundAssumption DEF Beside, Inv, TypeOK
  <2> QED
    BY <1>2, <2>1, BesideKeeps
<1>4. CASE history' = <<>>
  <2>1. DOMAIN history' = {} /\ ~Leased'
    BY <1>4 DEF Leased
  <2> QED
    BY <1>1, <1>2, <2>1 DEF Inv, DecisionsAreReadable, HistoryIsPast, OneTenureEach,
       DecisionStands
<1> QED
  BY <1>3, <1>4, WorkEnds DEF Settle, Requeue

-----------------------------------------------------------------------------
\* Every step of the leases keeps the strengthened invariant.
LEMMA NextInv == Inv /\ [Next]_vars => Inv'
<1> SUFFICES ASSUME Inv, [Next]_vars PROVE Inv'
  OBVIOUS
<1>1. CASE \E o \in Owners : Claim(o) \/ Reclaim(o) \/ ProveExhausted(o)
  BY <1>1, ClaimKeeps, ReclaimKeeps, ProveKeeps
<1>2. CASE \E v \in DOMAIN history : Renew(v) \/ \E r \in Results : Submit(v, r)
  BY <1>2, RenewKeeps, SubmitKeeps
<1>3. CASE \E p \in proofs : RecordExhaustion(p)
  BY <1>3, RecordKeeps
<1>4. CASE Write
  BY <1>4, WriteLeaseKeeps, WorkEndsKeeps DEF Write
<1>5. CASE Refuse \/ Look
  <2>1. /\ TypeOK' /\ ProofsAreOfLeases' /\ op' = NoOperation
        /\ UNCHANGED <<epoch, cursor, history>>
    BY <1>5, ReadingBeside DEF Inv, ProofsAreOfLeases, durable
  <2>2. Beside
    BY <2>1, BoundAssumption DEF Beside, Inv, TypeOK
  <2> QED
    BY <2>1, <2>2, BesideKeeps
<1>6. CASE Tick \/ SetBack \/ Restart \/ ChangeEvidence \/ NeutralEvent \/ Supersede
  <2>1. TypeOK' /\ Beside /\ proofs' \subseteq proofs
    BY <1>6, EnvironmentBeside
  <2> QED
    BY <2>1, BesideKeeps DEF Inv, ProofsAreOfLeases
<1>7. CASE UNCHANGED vars
  <2>1. TypeOK' /\ ProofsAreOfLeases'
    BY <1>7 DEF vars, time, durable, Inv, TypeOK, ProofsAreOfLeases
  <2>2. Beside
    BY <1>7, BoundAssumption DEF vars, durable, Beside, Inv, TypeOK
  <2> QED
    BY <2>1, <2>2, BesideKeeps
<1> QED
  BY <1>1, <1>2, <1>3, <1>4, <1>5, <1>6, <1>7 DEF Next

THEOREM InvHolds == Spec => []Inv
  BY InitInv, NextInv, PTL DEF Spec

\* Every variable of the leases keeps its type: no identity beyond the last
\* attempt, no moment beyond the bounds.
THEOREM TypeCorrect == Spec => []TypeOK
  BY InvHolds, PTL DEF Inv

\* For any owners, durations, limits and behaviour of the clock, every decided
\* lease and every lease on the disk passes the reader's own rules.
THEOREM HistoriesAreReadable == Spec => []DecisionsAreReadable
  BY InvHolds, PTL DEF Inv

\* A result is written only inside the lease, by the runtime that granted it, on
\* the evidence it was decided on, and a turn only on that of its topic.
THEOREM ResultsAreInTime == Spec => PublishedInTime
<1> DEFINE InTime ==
        outcome # "published" /\ outcome' = "published"
          => /\ Tip.epoch = epoch /\ clock < Tip.expires /\ clock < Tip.absolute
             /\ evidence = op.evidence /\ (op.result = "turn" => evidence)
<1>1. ASSUME Inv, [Next]_vars
      PROVE  InTime
  <2> SUFFICES ASSUME outcome # "published", outcome' = "published"
               PROVE  /\ Tip.epoch = epoch /\ clock < Tip.expires /\ clock < Tip.absolute
                      /\ evidence = op.evidence /\ (op.result = "turn" => evidence)
    OBVIOUS
  <2>1. CASE Write
    <3>1. WriteResult
      BY <2>1, WorkEnds DEF Write, WriteLease, Settle, Requeue
    <3>2. op.kind = "publish"
      BY <3>1, WorkEnds
    <3>3. StillPublishable
      BY <2>1, <3>2 DEF Write, MayWrite
    <3>4. op.result = "turn" => op.evidence
      BY <1>1, <3>2 DEF Inv, DecisionStands
    <3> QED
      BY <3>3, <3>4 DEF StillPublishable, Live
  <2>2. CASE Refuse \/ Look
    BY <2>2 DEF Refuse, Look, durable
  <2>3. CASE \E o \in Owners : Claim(o) \/ Reclaim(o) \/ ProveExhausted(o)
    BY <2>3 DEF Claim, Reclaim, ProveExhausted, Decide, durable
  <2>4. CASE \E v \in DOMAIN history : Renew(v) \/ \E r \in Results : Submit(v, r)
    BY <2>4 DEF Renew, Submit, Decide, durable
  <2>5. CASE \E p \in proofs : RecordExhaustion(p)
    BY <2>5 DEF RecordExhaustion, Decide, durable
  <2>6. CASE Tick \/ SetBack \/ Restart \/ ChangeEvidence \/ NeutralEvent \/ Supersede
    BY <2>6 DEF Tick, SetBack, Restart, ChangeEvidence, NeutralEvent, Supersede, Settle, durable
  <2>7. CASE UNCHANGED vars
    BY <2>7 DEF vars, durable
  <2> QED
    BY <1>1, <2>1, <2>2, <2>3, <2>4, <2>5, <2>6, <2>7 DEF Next
<1> QED
  BY <1>1, InvHolds, PTL DEF Spec, PublishedInTime

-----------------------------------------------------------------------------
\* The abstract specification counts as the leases do.
LEMMA SameCount ==
    ASSUME NEW S
    PROVE  Tenures!Cardinality(S) = Cardinality(S)
  BY DEF Tenures!Cardinality, Cardinality

\* The tenure the leases stand for after a step that keeps the history and the work.
LEMMA HeldOrLapsed ==
    ASSUME Inv, UNCHANGED durable,
           \/ UNCHANGED <<seen, epoch>>
           \/ epoch' = epoch /\ seen' \in Nat /\ seen' >= seen
           \/ epoch' > epoch
    PROVE  Tenures!Lapse \/ UNCHANGED Tenures!tenure
<1>1. UNCHANGED <<attempt, outcome, history, OwnersOf(history)>>
  BY DEF durable, OwnersOf
<1>2. Leased' = Leased /\ Tip' = Tip
  BY <1>1 DEF Leased, Tip
<1>3. Leased => Tip.expires \in Nat /\ Tip.epoch \in Nat /\ Tip.epoch <= epoch
  BY TipFacts, RecordFields
<1>4. seen \in Nat /\ epoch \in Nat
  BY BoundAssumption DEF Inv, TypeOK
<1>5. Holder' # None => Holder' = Holder
  BY <1>1, <1>2, <1>3, <1>4 DEF Holder
<1>6. CASE Holder' = Holder
  BY <1>1, <1>6 DEF Tenures!tenure
<1>7. CASE Holder' # Holder
  BY <1>1, <1>5, <1>7 DEF Tenures!Lapse
<1> QED
  BY <1>6, <1>7

\* A decision reads the clock and leaves the work as it is.
LEMMA DecisionReads ==
    ASSUME Inv, NEW d, Decide(d)
    PROVE  Tenures!Lapse \/ UNCHANGED Tenures!tenure
<1>1. /\ UNCHANGED durable
      /\ epoch' = epoch /\ seen' \in Nat /\ seen' >= seen
  BY BoundAssumption DEF Decide, ReadClock, MayRead, Inv, TypeOK
<1> QED
  BY <1>1, HeldOrLapsed

LEMMA WriteLeaseGrants ==
    ASSUME Inv, Write, WriteLease
    PROVE  (\E o \in Owners : Tenures!Grant(o)) \/ UNCHANGED Tenures!tenure
<1> DEFINE l == op.lease
<1>1. /\ l \in LeaseRecord /\ StillGranted(l) /\ l.epoch = epoch
      /\ l.kind = "reclaim" => TipIsOver
      /\ outcome = "open" /\ outcome' = "open" /\ attempt' = attempt /\ epoch' = epoch
      /\ MayRead /\ seen' = clock /\ Leased' /\ Tip' = l
  BY Written
<1>2. clock \in Nat /\ seen \in Nat /\ seen <= clock
  BY <1>1, BoundAssumption DEF Inv, TypeOK, MayRead
<1> HIDE DEF l
<1>3. l.owner \in Owners /\ l.expires \in Nat
  BY <1>1, RecordFields
<1>4. Holder' = l.owner
  BY <1>1 DEF Holder, StillGranted
<1>5. CASE l.kind = "renew"
  <2>1. /\ Leased /\ l.owner = Tip.owner /\ l.epoch = Tip.epoch
        /\ OwnersOf(history') = OwnersOf(history)
    BY <1>5, WrittenCounts DEF l
  <2>2. Tip.expires \in Nat
    BY <2>1, TipFacts, RecordFields
  <2>3. Holder = Tip.owner
    BY <1>1, <1>2, <1>5, <2>1, <2>2 DEF Holder, StillGranted
  <2>4. OwnersOf(history)' = OwnersOf(history)
    BY <2>1 DEF OwnersOf
  <2> QED
    BY <1>1, <1>4, <2>1, <2>3, <2>4 DEF Tenures!tenure
<1>6. CASE l.kind # "renew"
  <2>1. OwnersOf(history)' = OwnersOf(history) \cup {l.owner}
    <3>1. OwnersOf(history') = OwnersOf(history) \cup {l.owner}
      BY WrittenCounts DEF l
    <3> QED
      BY <3>1 DEF OwnersOf
  <2>2. CASE l.kind = "claim"
    <3>1. ~Leased /\ OwnersOf(history) = {}
      BY <2>2, WrittenCounts DEF l
    <3>2. Holder = None
      BY <3>1 DEF Holder
    <3>3. Tenures!Cardinality(OwnersOf(history)) < MaxReclaims + 1
      BY <3>1, FS_EmptySet, LimitAssumption, SameCount
    <3> QED
      BY <1>1, <1>3, <1>4, <2>1, <3>1, <3>2, <3>3 DEF Tenures!Grant
  <2>3. CASE l.kind = "reclaim"
    <3>1. /\ Leased /\ Reclaims(history) < MaxReclaims /\ Reclaims(history) \in Nat
          /\ l.owner \notin OwnersOf(history)
      BY <2>3, WrittenCounts DEF l
    <3>2. Tip.expires \in Nat
      BY <3>1, TipFacts, RecordFields
    <3>3. Holder = None
      BY <1>1, <1>2, <2>3, <3>2 DEF Holder, TipIsOver
    <3>4. Tenures!Cardinality(OwnersOf(history)) < MaxReclaims + 1
      BY <3>1, LimitAssumption, SameCount DEF Inv, OneTenureEach
    <3> QED
      BY <1>1, <1>3, <1>4, <2>1, <3>1, <3>3, <3>4 DEF Tenures!Grant
  <2>4. l.kind \in {"claim", "renew", "reclaim"}
    BY WrittenCounts DEF l
  <2> QED
    BY <1>6, <2>2, <2>3, <2>4
<1> QED
  BY <1>5, <1>6

\* The work or this identity of it ends: nobody holds it afterwards.
LEMMA EndReleases ==
    ASSUME Inv, Write, WriteResult \/ WriteExhaustion
    PROVE  /\ outcome = "open" /\ Leased
           /\ \/ /\ outcome' \in {"published", "failed"} /\ Holder' = None
                 /\ UNCHANGED <<attempt, OwnersOf(history)>>
                 /\ outcome' = "published" => WriteResult
                 /\ WriteExhaustion => ~(attempt < MaxAttempts)
              \/ /\ attempt < MaxAttempts /\ attempt' = attempt + 1
                 /\ OwnersOf(history)' = {} /\ Holder' = None /\ UNCHANGED outcome
<1>1. outcome = "open" /\ Leased
  BY WorkEnds DEF Write, Inv, DecisionStands
<1>2. CASE Settle("published") \/ Settle("failed")
  <2>1. /\ outcome' \in {"published", "failed"} /\ UNCHANGED <<attempt, history>>
    BY <1>2 DEF Settle
  <2>2. Holder' = None /\ UNCHANGED OwnersOf(history)
    BY <2>1 DEF Holder, OwnersOf
  <2>3. outcome' = "published" => WriteResult
    BY <1>1, WorkEnds DEF Settle, Requeue
  <2>4. WriteExhaustion /\ attempt < MaxAttempts => FALSE
    <3>1. WriteExhaustion /\ attempt < MaxAttempts => Requeue
      BY WorkEnds
    <3>2. Requeue => outcome' = outcome
      BY DEF Requeue
    <3> QED
      BY <1>1, <2>1, <3>1, <3>2
  <2> QED
    BY <1>1, <2>1, <2>2, <2>3, <2>4
<1>3. CASE attempt < MaxAttempts /\ Requeue
  <2>1. history' = <<>> /\ attempt' = attempt + 1 /\ UNCHANGED outcome
    BY <1>3 DEF Requeue
  <2>2. OwnersOf(history)' = {} /\ Holder' = None
    BY <2>1 DEF OwnersOf, Holder, Leased
  <2> QED
    BY <1>1, <1>3, <2>1, <2>2
<1> QED
  BY <1>2, <1>3, WorkEnds

LEMMA ResultEndsTenure ==
    ASSUME Inv, Write, WriteResult
    PROVE  \E o \in Owners : Tenures!Publish(o) \/ Tenures!Fail(o)
<1>1. op.kind = "publish" /\ op # NoOperation /\ outcome = "open" /\ Leased
  BY WorkEnds, EndReleases DEF Write
<1>2. Live(Tip) /\ MayRead
  BY <1>1 DEF Write, MayWrite, StillPublishable
<1>3. Tip \in LeaseRecord /\ Tip.expires \in Nat /\ Tip.owner \in Owners
  BY <1>1, TipFacts, RecordFields
<1>4. Holder = Tip.owner
  BY <1>1, <1>2, <1>3, BoundAssumption DEF Holder, Live, MayRead, Inv, TypeOK
<1>5. CASE outcome' \in {"published", "failed"} /\ UNCHANGED <<attempt, OwnersOf(history)>>
  BY <1>1, <1>3, <1>4, <1>5, EndReleases
     DEF Tenures!Publish, Tenures!Fail, Tenures!Settle
<1>6. CASE /\ attempt < MaxAttempts /\ attempt' = attempt + 1
           /\ OwnersOf(history)' = {} /\ Holder' = None /\ UNCHANGED outcome
  BY <1>1, <1>3, <1>4, <1>6 DEF Tenures!Fail, Tenures!Requeue
<1> QED
  BY <1>5, <1>6, EndReleases

LEMMA ExhaustionEndsTenures ==
    ASSUME Inv, Write, WriteExhaustion
    PROVE  Tenures!Exhaust
<1>1. op.kind = "exhaust" /\ outcome = "open" /\ Leased
  BY WorkEnds, EndReleases
<1>2. TipIsOver /\ Exhausted(op.proof)
  BY <1>1 DEF Write, MayWrite, Inv, DecisionStands
<1>3. Tip.expires \in Nat /\ seen \in Nat
  BY <1>1, TipFacts, RecordFields, BoundAssumption DEF Inv, TypeOK
<1>4. Holder = None
  BY <1>2, <1>3 DEF Holder, TipIsOver
<1>5. Tenures!Cardinality(OwnersOf(history)) = MaxReclaims + 1
  BY <1>1, <1>2, SameCount DEF Exhausted, Inv, OneTenureEach
<1>6. attempt \in 1..MaxAttempts
  BY DEF Inv, TypeOK, Works
<1>7. ~(outcome' = "published")
  BY <1>1, WorkEnds DEF Settle, Requeue
<1>8. CASE /\ outcome' \in {"published", "failed"} /\ Holder' = None
           /\ UNCHANGED <<attempt, OwnersOf(history)>> /\ ~(attempt < MaxAttempts)
  <2>1. attempt = MaxAttempts
    BY <1>6, <1>8, LimitAssumption
  <2> QED
    BY <1>1, <1>4, <1>5, <1>7, <1>8, <2>1 DEF Tenures!Exhaust, Tenures!Settle
<1>9. CASE /\ attempt < MaxAttempts /\ attempt' = attempt + 1
           /\ OwnersOf(history)' = {} /\ Holder' = None /\ UNCHANGED outcome
  BY <1>1, <1>4, <1>5, <1>9 DEF Tenures!Exhaust, Tenures!Requeue
<1> QED
  BY <1>8, <1>9, EndReleases

\* The leases of one work implement WorkTenure, whatever the clock, the evidence
\* and the runtime do: at any moment one owner at most holds the work, nobody
\* holds it twice, a result or a failure comes only from the holder, and the work
\* is given up only when every tenure was used up.
THEOREM LeasesImplementTenures ==
    Spec => Tenures!TenureInit /\ [][Tenures!TenureNext]_(Tenures!tenure)
<1>1. Init => Tenures!TenureInit
  BY DEF Init, Tenures!TenureInit, Holder, Leased, OwnersOf
<1>2. ASSUME Inv, [Next]_vars
      PROVE  [Tenures!TenureNext]_(Tenures!tenure)
  <2>1. CASE \E o \in Owners : Claim(o) \/ Reclaim(o)
    BY <1>2, <2>1, DecisionReads DEF Claim, Reclaim, Tenures!TenureNext
  <2>2. CASE \E o \in Owners : ProveExhausted(o)
    <3>1. /\ UNCHANGED durable
          /\ epoch' = epoch /\ seen' \in Nat /\ seen' >= seen
      BY <1>2, <2>2, BoundAssumption DEF ProveExhausted, ReadClock, MayRead, Inv, TypeOK
    <3> QED
      BY <1>2, <3>1, HeldOrLapsed DEF Tenures!TenureNext
  <2>3. CASE \E v \in DOMAIN history : Renew(v) \/ \E r \in Results : Submit(v, r)
    BY <1>2, <2>3, DecisionReads DEF Renew, Submit, Tenures!TenureNext
  <2>4. CASE \E p \in proofs : RecordExhaustion(p)
    BY <1>2, <2>4, DecisionReads DEF RecordExhaustion, Tenures!TenureNext
  <2>5. CASE Write
    <3>1. CASE WriteLease
      BY <1>2, <2>5, <3>1, WriteLeaseGrants DEF Tenures!TenureNext
    <3>2. CASE WriteResult
      BY <1>2, <2>5, <3>2, ResultEndsTenure DEF Tenures!TenureNext
    <3>3. CASE WriteExhaustion
      BY <1>2, <2>5, <3>3, ExhaustionEndsTenures DEF Tenures!TenureNext
    <3> QED
      BY <2>5, <3>1, <3>2, <3>3 DEF Write
  <2>6. CASE Refuse \/ Look
    <3>1. UNCHANGED durable /\ epoch' = epoch /\ TypeOK' /\ seen' >= seen
      BY <1>2, <2>6, ReadingBeside DEF Inv
    <3>2. seen' \in Nat
      BY <3>1, BoundAssumption DEF TypeOK
    <3> QED
      BY <1>2, <3>1, <3>2, HeldOrLapsed DEF Tenures!TenureNext
  <2>7. CASE Tick \/ SetBack \/ ChangeEvidence \/ NeutralEvent
    <3>1. UNCHANGED <<durable, seen, epoch>>
      BY <2>7 DEF Tick, SetBack, ChangeEvidence, NeutralEvent
    <3> QED
      BY <1>2, <3>1, HeldOrLapsed DEF Tenures!TenureNext
  <2>8. CASE Restart
    <3>1. UNCHANGED durable /\ epoch' > epoch
      BY <1>2, <2>8 DEF Restart, Inv, TypeOK
    <3> QED
      BY <1>2, <3>1, HeldOrLapsed DEF Tenures!TenureNext
  <2>9. CASE Supersede
    <3>1. outcome = "open" /\ outcome' = "superseded" /\ UNCHANGED <<attempt, history>>
      BY <2>9 DEF Supersede, Deciding, Settle
    <3>2. Holder' = None /\ UNCHANGED OwnersOf(history)
      BY <3>1 DEF Holder, OwnersOf
    <3>3. Tenures!Supersede
      BY <3>1, <3>2 DEF Tenures!Supersede, Tenures!Settle
    <3> QED
      BY <3>3 DEF Tenures!TenureNext
  <2>10. CASE UNCHANGED vars
    <3>1. UNCHANGED <<durable, seen, epoch>>
      BY <2>10 DEF vars
    <3> QED
      BY <1>2, <3>1, HeldOrLapsed DEF Tenures!TenureNext
  <2> QED
    BY <1>2, <2>1, <2>2, <2>3, <2>4, <2>5, <2>6, <2>7, <2>8, <2>9, <2>10 DEF Next
<1> QED
  BY <1>1, <1>2, InvHolds, PTL DEF Spec
===============================================================================
