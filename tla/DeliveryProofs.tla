----------------------------- MODULE DeliveryProofs -----------------------------
(***************************************************************************)
(* Proofs about Delivery, for any threads, limits, faults and any length   *)
(* of the log.                                                             *)
(***************************************************************************)
EXTENDS Delivery, FiniteSetTheorems, SequenceTheorems, WellFoundedInduction, TLAPS

(***************************************************************************)
(* The inductive invariant.                                                *)
(***************************************************************************)

\* A batch of the first k events of the log.
Of(k) == {Batch(from, to) : from \in 1..MaxEvents, to \in 0..k}
Handing(k) == [batch : Of(k), again : BOOLEAN]

Shape ==
    /\ log \in Seq(Kinds) /\ Len(log) <= MaxEvents /\ ends \subseteq 1..Len(log)
    /\ pc \in [Threads -> {"idle", "scanning", "operating", "delivering"}]
    /\ next \in [Threads -> {"idle", "operating"}]
    /\ catching \in Threads \cup {None} /\ publisher \in Threads \cup {None}
    /\ complete \in BOOLEAN /\ valid \in BOOLEAN
    /\ waiter \in {"away", "reading", "checking", "asleep"} /\ hinted \in BOOLEAN

\* Whatever is under way is a part of the log.
DeliversTheLog ==
    /\ facts \in [Threads -> Of(Len(log))]
    /\ todo \in Seq(Handing(Len(log)))
    /\ expected \in 1..Len(log) + 1 /\ buffered \subseteq 1..Len(log)
    /\ retry \subseteq Of(Len(log))

\* Observers have heard the log from its first event on.
HeardInOrder ==
    /\ cursor \in [Observers -> 0..Len(log)]
    /\ heard \in [Observers -> Seq(Nat)]
    /\ \A o \in Observers :
        /\ Len(heard[o]) <= Len(log)
        /\ \A i \in 1..Len(heard[o]) : heard[o][i] = i

\* Only a thread that delivers holds a batch, or the dispatcher; only one that
\* scans or delivers holds the catch-up lock.
LocksAreHeld ==
    /\ \A t \in Threads : pc[t] # "delivering" => facts[t] = NoBatch
    /\ publisher # None => pc[publisher] = "delivering" /\ facts[publisher] = NoBatch
    /\ publisher = None => todo = <<>>
    /\ catching # None => pc[catching] \in {"scanning", "delivering"}

Covered == \A o \in Observers : cursor[o] + 1..Len(log) \subseteq Held
\* So is the delivery of a scan that nothing has made stale.
Covers ==
    complete \/ (valid /\ catching # None /\ pc[catching] = "delivering") => Covered

PageIsGapless ==
    /\ page \in [status : {"away", "open", "resync"}, cursor : Nat, queue : Seq(Nat)]
    /\ Len(page.queue) <= QueueLimit
    /\ page.status = "open" =>
        /\ page.cursor + Len(page.queue) = Len(heard["browser-stream"])
        /\ \A i \in 1..Len(page.queue) : page.queue[i] = page.cursor + i

\* From the moment it has looked for work in vain.
WaiterWillBeTold ==
    waiter \in {"checking", "asleep"} /\ ~hinted =>
        \A n \in 1..Len(log) : WorkAt(n) => n > Len(heard["host-wake"])

IInv ==
    /\ Shape /\ DeliversTheLog /\ HeardInOrder /\ LocksAreHeld /\ Covers
    /\ PageIsGapless /\ WaiterWillBeTold

-----------------------------------------------------------------------------
(* Numbers, batches and what is held.                                      *)

LEMMA LeastExists ==
    ASSUME NEW S \in SUBSET Nat, S # {}
    PROVE  \E n \in S : \A m \in S : n <= m
<1> DEFINE Below == OpToRel(<, Nat)
<1>1. IsWellFoundedOn(Below, Nat)
  BY NatLessThanWellFounded
<1>2. \A m, n \in Nat : m < n => <<m, n>> \in Below
  BY DEF OpToRel
<1> HIDE DEF Below
<1>3. PICK n \in S : \A m \in S : <<m, n>> \notin Below
  BY <1>1, WFMin
<1>4. \A m \in S : ~(m < n)
  BY <1>2, <1>3
<1>5. ASSUME NEW m \in S PROVE n <= m
  BY <1>4
<1> QED BY <1>5

LEMMA GreatestExists ==
    ASSUME NEW k \in Nat, NEW S \in SUBSET (0..k), S # {}
    PROVE  \E n \in S : \A m \in S : m <= n
<1> DEFINE Rest == {n \in 0..k : k - n \in S}
<1>1. Rest # {}
  <2>1. PICK n \in S : TRUE
    OBVIOUS
  <2>2. k - n \in 0..k /\ k - (k - n) = n
    OBVIOUS
  <2> QED BY <2>1, <2>2
<1>2. PICK least \in Rest : \A m \in Rest : least <= m
  <2>1. Rest \in SUBSET Nat
    OBVIOUS
  <2> HIDE DEF Rest
  <2> QED BY <1>1, <2>1, LeastExists
<1>3. ASSUME NEW m \in S PROVE m <= k - least
  <2>1. k - m \in 0..k /\ k - (k - m) = m
    OBVIOUS
  <2>2. least <= k - m
    BY <1>2, <2>1
  <2> QED BY <2>2
<1> QED BY <1>3

LEMMA BatchFields ==
    ASSUME NEW k \in Nat, NEW b \in Of(k)
    PROVE  /\ b.from \in Nat /\ b.from \in 1..MaxEvents
           /\ b.to \in Nat /\ b.to \in 0..k
           /\ b = Batch(b.from, b.to)
  BY BoundAssumption DEF Of, Batch

LEMMA BatchIsOf ==
    ASSUME NEW k \in Nat, NEW from \in 1..MaxEvents, NEW to \in 0..k
    PROVE  /\ Batch(from, to) \in Of(k)
           /\ Batch(from, to).from = from /\ Batch(from, to).to = to
  BY DEF Of, Batch

LEMMA NoBatchIsEmpty ==
    ASSUME NEW k \in Nat
    PROVE  NoBatch \in Of(k) /\ Events(NoBatch) = {}
<1>1. 1 \in 1..MaxEvents /\ 0 \in 0..k
  BY BoundAssumption
<1> QED BY <1>1, BatchIsOf DEF NoBatch, Events

LEMMA OfGrows ==
    ASSUME NEW k \in Nat, NEW m \in Nat, k <= m
    PROVE  Of(k) \subseteq Of(m) /\ Handing(k) \subseteq Handing(m)
<1>1. Of(k) \subseteq Of(m)
  <2> SUFFICES ASSUME NEW b \in Of(k) PROVE b \in Of(m)
    OBVIOUS
  <2>1. b.to \in 0..m /\ b.from \in 1..MaxEvents /\ b = Batch(b.from, b.to)
    BY BatchFields
  <2> QED BY <2>1 DEF Of
<1> QED BY <1>1 DEF Handing

LEMMA OfIsBatches ==
    ASSUME NEW k \in Nat, k <= MaxEvents
    PROVE  Of(k) \subseteq Batches
  BY BoundAssumption DEF Of, Batches

\* The sequences Publish chooses from hold nothing but the batches to be repeated.
LEMMA AgainIsRetried ==
    ASSUME NEW k \in Nat, NEW some \in SUBSET Of(k),
           NEW again \in SetToSeqs({Handed(b, TRUE) : b \in some})
    PROVE  again \in Seq(Handing(k))
<1> DEFINE Pairs == (1..MaxEvents) \X (0..k)
           all == {Handed(b, TRUE) : b \in Of(k)}
           these == {Handed(b, TRUE) : b \in some}
           f == [p \in Pairs |-> Handed(Batch(p[1], p[2]), TRUE)]
<1>1. IsFiniteSet(Pairs)
  <2>1. IsFiniteSet(1..MaxEvents) /\ IsFiniteSet(0..k)
    BY FS_Interval, BoundAssumption
  <2> QED BY <2>1, FS_Product
<1>2. f \in Surjection(Pairs, all)
  <2>1. ASSUME NEW p \in Pairs PROVE f[p] \in all
    <3>1. p[1] \in 1..MaxEvents /\ p[2] \in 0..k
      OBVIOUS
    <3>2. Batch(p[1], p[2]) \in Of(k)
      BY <3>1, BatchIsOf
    <3> QED BY <3>2
  <2>2. f \in [Pairs -> all]
    BY <2>1
  <2>3. ASSUME NEW h \in all PROVE \E p \in Pairs : f[p] = h
    <3>1. PICK b \in Of(k) : h = Handed(b, TRUE)
      OBVIOUS
    <3>2. b.from \in 1..MaxEvents /\ b.to \in 0..k /\ b = Batch(b.from, b.to)
      BY BatchFields
    <3>3. <<b.from, b.to>> \in Pairs
      BY <3>2
    <3>4. f[<<b.from, b.to>>] = h
      BY <3>1, <3>2, <3>3
    <3> QED BY <3>3, <3>4
  <2> QED BY <2>2, <2>3 DEF Surjection
<1>3. IsFiniteSet(all)
  <2> HIDE DEF f, all, Pairs
  <2> QED BY <1>1, <1>2, FS_Surjection
<1>4. IsFiniteSet(these)
  <2>1. these \in SUBSET all
    OBVIOUS
  <2> HIDE DEF all, these
  <2> QED BY <1>3, <2>1, FS_Subset
<1>5. Cardinality(these) \in Nat
  <2> HIDE DEF these
  <2> QED BY <1>4, FS_CardinalityType
<1>6. these \subseteq Handing(k)
  <2>1. ASSUME NEW b \in Of(k) PROVE Handed(b, TRUE) \in Handing(k)
    BY DEF Handed, Handing
  <2> QED BY <2>1
<1>7. again \in [1..Cardinality(these) -> these]
  BY Zenon DEF SetToSeqs
<1> QED
  <2> HIDE DEF these
  <2> QED BY <1>5, <1>6, <1>7

LEMMA InHeld ==
    \A n : n \in Held <=>
        \/ n \in buffered
        \/ \E t \in Threads : n \in Events(facts[t])
        \/ \E b \in retry : n \in Events(b)
        \/ \E i \in DOMAIN todo : n \in Events(todo[i].batch)
  BY Zenon DEF Held

LEMMA InHeldNext ==
    \A n : n \in Held' <=>
        \/ n \in buffered'
        \/ \E t \in Threads : n \in Events(facts'[t])
        \/ \E b \in retry' : n \in Events(b)
        \/ \E i \in DOMAIN todo' : n \in Events(todo'[i].batch)
  BY Zenon DEF Held

LEMMA LatestOf ==
    ASSUME NEW s \in Seq(Nat), \A i \in 1..Len(s) : s[i] = i
    PROVE  Latest(s) = Len(s)
  BY DEF Latest

-----------------------------------------------------------------------------
(* What the steps of a thread have in common.                              *)

\* Transactions are appended.
LogGrows ==
    /\ log' \in Seq(Kinds) /\ Len(log) <= Len(log') /\ Len(log') <= MaxEvents
    /\ ends' \subseteq 1..Len(log')
    /\ \A i \in 1..Len(log) : log'[i] = log[i]

LEMMA LogStays ==
    ASSUME Shape, UNCHANGED disk
    PROVE  LogGrows /\ Len(log') = Len(log)
  BY DEF Shape, disk, LogGrows

LEMMA LogIsCounted ==
    ASSUME Shape
    PROVE  Len(log) \in Nat
  BY DEF Shape

LEMMA CoverStays ==
    ASSUME Shape, HeardInOrder, Covered, LogGrows, UNCHANGED cursor, Held \subseteq Held',
           \A n \in Len(log) + 1..Len(log') : n \in Held'
    PROVE  Covered'
<1> SUFFICES ASSUME NEW o \in Observers, NEW n \in cursor[o] + 1..Len(log')
             PROVE  n \in Held'
  BY DEF Covered
<1>1. Len(log) \in Nat /\ Len(log') \in Nat /\ cursor[o] \in Nat /\ n \in Nat
  BY DEF Shape, HeardInOrder, LogGrows
<1>2. CASE n <= Len(log)
  <2>1. n \in cursor[o] + 1..Len(log)
    BY <1>1, <1>2
  <2> QED BY <2>1 DEF Covered
<1>3. CASE ~(n <= Len(log))
  <2>1. n \in Len(log) + 1..Len(log')
    BY <1>1, <1>3
  <2> QED BY <2>1
<1> QED BY <1>2, <1>3

\* A thread that was not delivering captures a batch.
LEMMA CaptureIsHeld ==
    ASSUME Shape, DeliversTheLog, LocksAreHeld, NEW t \in Threads, NEW b, NEW place,
           pc[t] # "delivering", Deliver(t, b, place), UNCHANGED <<buffered, retry, todo>>
    PROVE  Held \subseteq Held' /\ Events(b) \subseteq Held'
<1>1. facts[t] = NoBatch /\ Events(NoBatch) = {}
  BY NoBatchIsEmpty DEF LocksAreHeld
<1>2. facts'[t] = b /\ \A u \in Threads : u # t => facts'[u] = facts[u]
  BY DEF Deliver, DeliversTheLog
<1>3. ASSUME NEW n \in Held PROVE n \in Held'
  <2>1. CASE \E u \in Threads : n \in Events(facts[u])
    <3>1. PICK u \in Threads : n \in Events(facts[u])
      BY <2>1
    <3>2. u # t
      BY <1>1, <3>1
    <3>3. n \in Events(facts'[u])
      BY <1>2, <3>1, <3>2
    <3> QED BY <3>3, InHeldNext
  <2>2. CASE ~(\E u \in Threads : n \in Events(facts[u]))
    BY <2>2, InHeld, InHeldNext
  <2> QED BY <2>1, <2>2
<1>4. Events(b) \subseteq Held'
  BY <1>2, InHeldNext
<1> QED BY <1>3, <1>4

\* All of the invariant but Covers, after a thread has captured a batch.
LEMMA Capture ==
    ASSUME IInv, LogGrows, NEW t \in Threads, NEW b \in Of(Len(log')),
           NEW place \in {"idle", "operating"}, pc[t] # "delivering", Deliver(t, b, place),
           catching' \in {catching, t}, complete' \in BOOLEAN, valid' \in BOOLEAN,
           UNCHANGED <<dispatcher, observers, page, waiter, hinted>>
    PROVE  (Shape /\ DeliversTheLog /\ HeardInOrder /\ LocksAreHeld /\ PageIsGapless
            /\ WaiterWillBeTold)'
<1>1. /\ Len(log) \in Nat /\ Len(log') \in Nat /\ Len(log) <= Len(log')
      /\ Of(Len(log)) \subseteq Of(Len(log')) /\ Handing(Len(log)) \subseteq Handing(Len(log'))
  <2>1. Len(log) \in Nat /\ Len(log') \in Nat /\ Len(log) <= Len(log')
    BY DEF IInv, Shape, LogGrows
  <2> QED BY <2>1, OfGrows
<1>2. Shape'
  <2>1. /\ pc' \in [Threads -> {"idle", "scanning", "operating", "delivering"}]
        /\ next' \in [Threads -> {"idle", "operating"}]
    BY DEF IInv, Shape, Deliver
  <2> QED BY <2>1 DEF IInv, Shape, LogGrows, dispatcher
<1>3. DeliversTheLog'
  <2>1. facts' \in [Threads -> Of(Len(log'))]
    BY <1>1 DEF IInv, DeliversTheLog, Deliver
  <2>2. todo' \in Seq(Handing(Len(log')))
    BY <1>1 DEF IInv, DeliversTheLog, dispatcher
  <2>3. expected' \in 1..Len(log') + 1 /\ buffered' \subseteq 1..Len(log')
    BY <1>1 DEF IInv, DeliversTheLog, dispatcher
  <2>4. retry' \subseteq Of(Len(log'))
    BY <1>1 DEF IInv, DeliversTheLog, dispatcher
  <2> QED BY <2>1, <2>2, <2>3, <2>4 DEF DeliversTheLog
<1>4. HeardInOrder'
  BY <1>1 DEF IInv, HeardInOrder, observers
<1>5. LocksAreHeld'
  <2>1. /\ pc'[t] = "delivering" /\ facts'[t] = b
        /\ \A u \in Threads : u # t => pc'[u] = pc[u] /\ facts'[u] = facts[u]
    BY DEF IInv, Shape, DeliversTheLog, Deliver
  <2>2. \A u \in Threads : pc'[u] # "delivering" => facts'[u] = NoBatch
    BY <2>1 DEF IInv, LocksAreHeld
  <2>3. publisher' # None => pc'[publisher'] = "delivering" /\ facts'[publisher'] = NoBatch
    BY <2>1 DEF IInv, LocksAreHeld, Shape, dispatcher
  <2>4. catching' # None => pc'[catching'] \in {"scanning", "delivering"}
    BY <2>1 DEF IInv, LocksAreHeld, Shape
  <2>5. publisher' = None => todo' = <<>>
    BY DEF IInv, LocksAreHeld, dispatcher
  <2> QED BY <2>2, <2>3, <2>4, <2>5 DEF LocksAreHeld
<1>6. PageIsGapless'
  BY DEF IInv, PageIsGapless, observers
<1>7. WaiterWillBeTold'
  <2> SUFFICES ASSUME waiter \in {"checking", "asleep"}, ~hinted,
                      NEW n \in 1..Len(log'), WorkAt(n)'
               PROVE  n > Len(heard["host-wake"])
    BY DEF WaiterWillBeTold, observers
  <2>1. Len(heard["host-wake"]) \in Nat /\ Len(heard["host-wake"]) <= Len(log)
    BY DEF IInv, HeardInOrder, Observers
  <2>2. CASE n <= Len(log)
    <3>1. n \in 1..Len(log)
      BY <1>1, <2>2
    <3>2. \A m \in n..Len(log) : m \in 1..Len(log) /\ m \in n..Len(log') /\ log'[m] = log[m]
      BY <1>1, <3>1 DEF LogGrows
    <3>3. WorkAt(n)
      <4>1. log[n] = "work"
        BY <3>1 DEF WorkAt, LogGrows
      <4>2. ASSUME NEW m \in n + 1..Len(log) PROVE log[m] = "plain"
        <5>1. m \in n..Len(log) /\ m \in n + 1..Len(log')
          BY <1>1, <3>1
        <5> QED BY <3>2, <5>1 DEF WorkAt
      <4> QED BY <4>1, <4>2 DEF WorkAt
    <3> QED BY <3>1, <3>3 DEF IInv, WaiterWillBeTold
  <2>3. CASE ~(n <= Len(log))
    BY <1>1, <2>1, <2>3
  <2> QED BY <2>2, <2>3
<1> QED BY <1>2, <1>3, <1>4, <1>5, <1>6, <1>7

-----------------------------------------------------------------------------
(* The operations.                                                         *)

LEMMA CaptureCovers ==
    ASSUME IInv, Covered, LogGrows, NEW t \in Threads, NEW b, NEW place,
           pc[t] # "delivering", Deliver(t, b, place), UNCHANGED <<dispatcher, cursor>>,
           Len(log) + 1..Len(log') \subseteq Events(b)
    PROVE  Covered'
<1>1. Held \subseteq Held' /\ Events(b) \subseteq Held'
  BY CaptureIsHeld DEF IInv, dispatcher
<1>2. \A n \in Len(log) + 1..Len(log') : n \in Held'
  BY <1>1
<1> QED BY <1>1, <1>2, CoverStays DEF IInv

LEMMA BeginKeeps ==
    ASSUME IInv, NEW t \in Threads, Begin(t)
    PROVE  IInv'
<1>1. LogGrows /\ Len(log') = Len(log) /\ Len(log) \in Nat
  BY LogStays, LogIsCounted DEF Begin, IInv
<1>2. CASE complete /\ Deliver(t, NoBatch, "operating") /\ UNCHANGED <<complete, valid>>
  <2>1. NoBatch \in Of(Len(log'))
    BY <1>1, NoBatchIsEmpty
  <2>2. (Shape /\ DeliversTheLog /\ HeardInOrder /\ LocksAreHeld /\ PageIsGapless
         /\ WaiterWillBeTold)'
    BY <1>1, <1>2, <2>1, Capture DEF Begin, IInv, Shape
  <2>3. Covered'
    <3>1. Covered
      BY <1>2 DEF IInv, Covers
    <3>2. Len(log) + 1..Len(log') = {}
      BY <1>1
    <3> QED BY <1>1, <1>2, <3>1, <3>2, CaptureCovers DEF Begin, observers
  <2> QED BY <2>2, <2>3 DEF IInv, Covers
<1>3. CASE /\ complete' = FALSE /\ valid' = TRUE
           /\ pc' = [pc EXCEPT ![t] = "scanning"] /\ UNCHANGED <<next, facts>>
  <2>1. pc'[t] = "scanning" /\ \A u \in Threads : u # t => pc'[u] = pc[u]
    BY <1>3 DEF IInv, Shape
  <2>2. pc[t] = "idle" /\ catching' = t
    BY DEF Begin
  <2>3. Shape'
    BY <1>3, <2>2 DEF IInv, Shape, Begin, disk, dispatcher
  <2>4. DeliversTheLog'
    BY <1>1, <1>3 DEF IInv, DeliversTheLog, Begin, dispatcher, disk
  <2>5. HeardInOrder'
    BY <1>1 DEF IInv, HeardInOrder, Begin, observers
  <2>6. LocksAreHeld'
    <3>1. \A u \in Threads : pc'[u] # "delivering" => facts'[u] = NoBatch
      BY <1>3, <2>1, <2>2 DEF IInv, LocksAreHeld
    <3>2. publisher' # None => pc'[publisher'] = "delivering" /\ facts'[publisher'] = NoBatch
      BY <1>3, <2>1, <2>2 DEF IInv, LocksAreHeld, Shape, Begin, dispatcher
    <3> QED BY <2>1, <2>2, <3>1, <3>2 DEF IInv, LocksAreHeld, Begin, dispatcher
  <2>7. Covers'
    BY <1>3, <2>1, <2>2 DEF Covers
  <2>8. PageIsGapless' /\ WaiterWillBeTold'
    BY DEF IInv, PageIsGapless, WaiterWillBeTold, WorkAt, Begin, observers, disk
  <2> QED BY <2>3, <2>4, <2>5, <2>6, <2>7, <2>8 DEF IInv
<1> QED BY <1>2, <1>3 DEF Begin

LEMMA ScanKeeps ==
    ASSUME IInv, NEW t \in Threads, Scan(t)
    PROVE  IInv'
<1>1. LogGrows /\ Len(log') = Len(log) /\ Len(log) \in Nat /\ Len(log) <= MaxEvents
  BY LogStays, LogIsCounted DEF Scan, IInv, Shape
<1>2. CASE Deliver(t, Batch(1, Len(log)), "operating") /\ UNCHANGED <<valid, faults>>
  <2>1. Batch(1, Len(log)) \in Of(Len(log')) /\ Events(Batch(1, Len(log))) = 1..Len(log)
    <3>1. 1 \in 1..MaxEvents /\ Len(log) \in 0..Len(log')
      BY <1>1, BoundAssumption
    <3> QED BY <1>1, <3>1, BatchIsOf DEF Events
  <2>2. (Shape /\ DeliversTheLog /\ HeardInOrder /\ LocksAreHeld /\ PageIsGapless
         /\ WaiterWillBeTold)'
    BY <1>1, <1>2, <2>1, Capture DEF Scan, IInv, Shape
  <2>3. Covered'
    <3>1. 1..Len(log) \subseteq Held'
      BY <1>2, <2>1, CaptureIsHeld DEF IInv, Scan, dispatcher
    <3> SUFFICES ASSUME NEW o \in Observers, NEW n \in cursor[o] + 1..Len(log)
                 PROVE  n \in Held'
      BY <1>1 DEF Covered, Scan, observers
    <3>2. cursor[o] \in Nat
      BY <1>1 DEF IInv, HeardInOrder
    <3>3. n \in 1..Len(log)
      BY <1>1, <3>2
    <3> QED BY <3>1, <3>3
  <2> QED BY <2>2, <2>3 DEF IInv, Covers
<1>3. CASE Fault /\ Deliver(t, NoBatch, "idle") /\ valid' = FALSE
  <2>1. NoBatch \in Of(Len(log'))
    BY <1>1, NoBatchIsEmpty
  <2>2. (Shape /\ DeliversTheLog /\ HeardInOrder /\ LocksAreHeld /\ PageIsGapless
         /\ WaiterWillBeTold)'
    BY <1>1, <1>3, <2>1, Capture DEF Scan, IInv, Shape
  <2>3. complete => Covered'
    <3> SUFFICES ASSUME complete PROVE Covered'
      OBVIOUS
    <3>1. Covered
      BY DEF IInv, Covers
    <3>2. Len(log) + 1..Len(log') = {}
      BY <1>1
    <3> QED BY <1>1, <1>3, <3>1, <3>2, CaptureCovers DEF Scan, observers
  <2> QED BY <1>3, <2>2, <2>3 DEF IInv, Covers, Scan
<1> QED BY <1>2, <1>3 DEF Scan

\* An operation is not the catch-up: what that covers it goes on covering.
LEMMA OperationCovers ==
    ASSUME IInv, LogGrows, NEW t \in Threads, NEW b, NEW place,
           pc[t] = "operating", Deliver(t, b, place),
           UNCHANGED <<catchUp, dispatcher, observers>>,
           Len(log) + 1..Len(log') \subseteq Events(b)
    PROVE  Covers'
<1>1. \A u \in Threads : u # t => pc'[u] = pc[u]
  BY DEF IInv, Shape, Deliver
<1>2. catching # None => catching \in Threads /\ catching # t
  BY DEF IInv, Shape, LocksAreHeld
<1>3. SUFFICES ASSUME complete \/ (valid /\ catching # None /\ pc[catching] = "delivering")
               PROVE  Covered'
  BY <1>1, <1>2 DEF Covers, catchUp
<1>4. Covered
  BY <1>3 DEF IInv, Covers
<1> QED BY <1>4, CaptureCovers DEF observers

LEMMA CommittedGrows ==
    ASSUME IInv, NEW tx \in Transactions, Committed(tx)
    PROVE  /\ LogGrows /\ Len(log) \in Nat /\ Len(log') = Len(log) + Len(tx)
           /\ Len(tx) \in 1..2
           /\ Batch(Len(log) + 1, Len(log) + Len(tx)) \in Of(Len(log'))
           /\ Events(Batch(Len(log) + 1, Len(log) + Len(tx))) = Len(log) + 1..Len(log')
<1>1. tx \in Seq(Kinds) /\ Len(tx) \in 1..2
  <2>1. /\ <<"work">> \in Seq(Kinds) /\ <<"result">> \in Seq(Kinds)
        /\ <<"plain">> \in Seq(Kinds) /\ <<"plain", "work">> \in Seq(Kinds)
    <3>1. "work" \in Kinds /\ "result" \in Kinds /\ "plain" \in Kinds
      BY DEF Kinds
    <3> QED BY <3>1
  <2>2. /\ Len(<<"work">>) \in 1..2 /\ Len(<<"result">>) \in 1..2
        /\ Len(<<"plain">>) \in 1..2 /\ Len(<<"plain", "work">>) \in 1..2
    OBVIOUS
  <2> QED BY <2>1, <2>2, Zenon DEF Transactions
<1>2. Len(log) \in Nat /\ log \in Seq(Kinds)
  BY DEF IInv, Shape
<1>3. /\ log' \in Seq(Kinds) /\ Len(log') = Len(log) + Len(tx)
      /\ \A i \in 1..Len(log) : log'[i] = log[i]
  BY <1>1, <1>2 DEF Committed
<1>4. LogGrows
  <2>1. Len(log') \in Nat /\ Len(log) <= Len(log') /\ Len(log) + Len(tx) \in 1..Len(log')
    <3>1. \A k \in Nat, j \in 1..2 : k + j \in Nat /\ k <= k + j /\ k + j \in 1..(k + j)
      OBVIOUS
    <3> QED BY <1>1, <1>2, <1>3, <3>1
  <2>2. ends' \subseteq 1..Len(log')
    <3>1. ends \subseteq 1..Len(log)
      BY DEF IInv, Shape
    <3>2. ends \subseteq 1..Len(log')
      BY <1>2, <2>1, <3>1
    <3>3. ends' = ends \cup {Len(log) + Len(tx)}
      BY DEF Committed
    <3> QED BY <2>1, <3>2, <3>3
  <2>3. Len(log') <= MaxEvents
    BY <1>3 DEF Committed
  <2> QED BY <1>3, <2>1, <2>2, <2>3 DEF LogGrows
<1>5. Len(log) + 1 \in 1..MaxEvents /\ Len(log) + Len(tx) \in 0..Len(log')
  <2>1. Len(log) + Len(tx) <= MaxEvents
    BY DEF Committed
  <2>2. \A k \in Nat, j \in 1..2 :
            k + j <= MaxEvents => k + 1 \in 1..MaxEvents /\ k + j \in 0..(k + j)
    BY BoundAssumption
  <2> QED BY <1>1, <1>2, <1>3, <2>1, <2>2
<1> QED BY <1>1, <1>2, <1>3, <1>4, <1>5, BatchIsOf DEF Events

LEMMA CommitKeeps ==
    ASSUME IInv, NEW t \in Threads, Commit(t)
    PROVE  IInv'
<1> PICK tx \in Transactions :
        LET own == Batch(Len(log) + 1, Len(log) + Len(tx))
        IN /\ Committed(tx)
           /\ \/ Deliver(t, own, "idle") /\ UNCHANGED <<complete, valid, faults>>
              \/ /\ Fault /\ Invalidate
                 /\ Deliver(t, own, "idle") \/ Deliver(t, NoBatch, "idle")
  BY DEF Commit
<1> DEFINE own == Batch(Len(log) + 1, Len(log) + Len(tx))
<1>1. /\ LogGrows /\ own \in Of(Len(log')) /\ NoBatch \in Of(Len(log'))
      /\ Events(own) = Len(log) + 1..Len(log')
  BY CommittedGrows, NoBatchIsEmpty DEF LogGrows
<1>2. pc[t] = "operating" /\ UNCHANGED <<catching, dispatcher, observers, page, waiter, hinted>>
  BY DEF Commit
<1>3. PICK b \in {own, NoBatch} : Deliver(t, b, "idle")
  OBVIOUS
<1>4. (Shape /\ DeliversTheLog /\ HeardInOrder /\ LocksAreHeld /\ PageIsGapless
       /\ WaiterWillBeTold)'
  <2>1. complete' \in BOOLEAN /\ valid' \in BOOLEAN
    BY DEF Invalidate, IInv, Shape
  <2> HIDE DEF own
  <2> QED BY <1>1, <1>2, <1>3, <2>1, Capture
<1>5. Covers'
  <2>1. CASE Deliver(t, own, "idle") /\ UNCHANGED <<complete, valid, faults>>
    <3> HIDE DEF own
    <3> QED BY <1>1, <1>2, <2>1, OperationCovers DEF catchUp
  <2>2. CASE Invalidate
    BY <2>2 DEF Invalidate, Covers
  <2> QED BY <2>1, <2>2
<1> QED BY <1>4, <1>5 DEF IInv

LEMMA FailToCommitKeeps ==
    ASSUME IInv, NEW t \in Threads, FailToCommit(t)
    PROVE  IInv'
<1>1. LogGrows /\ NoBatch \in Of(Len(log'))
  BY LogStays, LogIsCounted, NoBatchIsEmpty DEF FailToCommit, IInv
<1>2. (Shape /\ DeliversTheLog /\ HeardInOrder /\ LocksAreHeld /\ PageIsGapless
       /\ WaiterWillBeTold)'
  BY <1>1, Capture DEF FailToCommit, Invalidate
<1>3. Covers'
  BY DEF FailToCommit, Invalidate, Covers
<1> QED BY <1>2, <1>3 DEF IInv

LEMMA RepeatKeeps ==
    ASSUME IInv, NEW t \in Threads, Repeat(t)
    PROVE  IInv'
<1>1. LogGrows /\ Len(log') = Len(log) /\ Len(log) \in Nat /\ Len(log) <= MaxEvents
  BY LogStays, LogIsCounted DEF Repeat, IInv, Shape
<1>2. \E b \in Of(Len(log')) : Deliver(t, b, "idle")
  <2>1. CASE Deliver(t, NoBatch, "idle")
    BY <1>1, <2>1, NoBatchIsEmpty
  <2>2. ASSUME NEW to \in ends,
               LET before == {n \in ends \cup {0} : n < to}
                   from == 1 + CHOOSE n \in before : \A m \in before : m <= n
               IN Deliver(t, Batch(from, to), "idle")
        PROVE  \E b \in Of(Len(log')) : Deliver(t, b, "idle")
    <3> DEFINE before == {n \in ends \cup {0} : n < to}
               last == CHOOSE n \in before : \A m \in before : m <= n
    <3>1. to \in 1..Len(log) /\ before \in SUBSET (0..Len(log)) /\ 0 \in before
      <4>1. ends \subseteq 1..Len(log)
        BY DEF IInv, Shape
      <4>2. to \in 1..Len(log)
        BY <4>1
      <4>3. \A n \in before : n \in 0..Len(log)
        BY <1>1, <4>1
      <4>4. 0 < to
        BY <1>1, <4>2
      <4> QED BY <4>2, <4>3, <4>4
    <3>2. \E n \in before : \A m \in before : m <= n
      <4> HIDE DEF before
      <4> QED BY <1>1, <3>1, GreatestExists
    <3>3. last \in before
      BY <3>2
    <3>4. 1 + last \in 1..MaxEvents /\ to \in 0..Len(log')
      <4>1. last < to /\ last \in 0..Len(log)
        BY <3>1, <3>3
      <4> HIDE DEF last
      <4> QED BY <1>1, <3>1, <4>1, BoundAssumption
    <3>5. Batch(1 + last, to) \in Of(Len(log'))
      BY <1>1, <3>4, BatchIsOf
    <3> QED BY <2>2, <3>5
  <2> QED BY <2>1, <2>2 DEF Repeat
<1>3. PICK b \in Of(Len(log')) : Deliver(t, b, "idle")
  BY <1>2
<1>4. /\ pc[t] = "operating"
      /\ UNCHANGED <<disk, catchUp, dispatcher, observers, page, waiter, hinted, faults>>
  BY DEF Repeat
<1>5. (Shape /\ DeliversTheLog /\ HeardInOrder /\ LocksAreHeld /\ PageIsGapless
       /\ WaiterWillBeTold)'
  BY <1>1, <1>3, <1>4, Capture DEF catchUp, IInv, Shape
<1>6. Covers'
  <2>1. Len(log) + 1..Len(log') \subseteq Events(b)
    BY <1>1
  <2> QED BY <1>1, <1>3, <1>4, <2>1, OperationCovers
<1> QED BY <1>5, <1>6 DEF IInv

-----------------------------------------------------------------------------
(* The dispatcher.                                                         *)

\* What is complete from expected on ends somewhere.
LEMMA GapExists ==
    ASSUME NEW from \in 1..MaxEvents + 1, NEW all \in SUBSET (1..MaxEvents)
    PROVE  \E n \in from - 1..MaxEvents : from..n \subseteq all /\ n + 1 \notin all
<1> DEFINE Gaps == {n \in from..MaxEvents + 1 : n \notin all}
<1>1. MaxEvents \in Nat /\ from \in Nat /\ 1 <= from /\ from <= MaxEvents + 1
  BY BoundAssumption
<1>2. Gaps \in SUBSET Nat /\ Gaps # {}
  <2>1. MaxEvents + 1 \notin all /\ MaxEvents + 1 \in from..MaxEvents + 1
    BY <1>1
  <2> QED BY <1>1, <2>1
<1>3. PICK gap \in Gaps : \A m \in Gaps : gap <= m
  <2> HIDE DEF Gaps
  <2> QED BY <1>2, LeastExists
<1>4. gap \in Nat /\ from <= gap /\ gap <= MaxEvents + 1 /\ gap \notin all
  BY <1>1, <1>3
<1>5. ASSUME NEW m \in from..gap - 1 PROVE m \in all
  <2>1. m \in from..MaxEvents + 1 /\ ~(gap <= m)
    BY <1>1, <1>4
  <2> QED BY <1>3, <2>1
<1>6. gap - 1 \in from - 1..MaxEvents /\ gap - 1 + 1 = gap
  BY <1>1, <1>4
<1> QED BY <1>4, <1>5, <1>6

LEMMA Appended ==
    ASSUME NEW S, NEW x \in Seq(S), NEW y \in Seq(S)
    PROVE  /\ x \o y \in Seq(S)
           /\ Range(x) \subseteq Range(x \o y) /\ Range(y) \subseteq Range(x \o y)
<1>1. x \o y \in Seq(S)
  OBVIOUS
<1>2. ASSUME NEW e \in Range(x) PROVE e \in Range(x \o y)
  <2>1. PICK i \in 1..Len(x) : e = x[i]
    BY DEF Range
  <2>2. i \in DOMAIN (x \o y) /\ (x \o y)[i] = e
    BY <2>1
  <2> QED BY <2>2, Zenon DEF Range
<1>3. ASSUME NEW e \in Range(y) PROVE e \in Range(x \o y)
  <2>1. PICK i \in 1..Len(y) : e = y[i]
    BY DEF Range
  <2>2. Len(x) + i \in DOMAIN (x \o y) /\ (x \o y)[Len(x) + i] = e
    BY <2>1
  <2> QED BY <2>2, Zenon DEF Range
<1> QED BY <1>1, <1>2, <1>3

LEMMA PublishKeeps ==
    ASSUME IInv, NEW t \in Threads, Publish(t)
    PROVE  IInv'
<1> DEFINE k == Len(log)
           own == Events(facts[t])
           all == buffered \cup {n \in own : n >= expected}
           upto == CHOOSE n \in expected - 1..MaxEvents :
                       expected..n \subseteq all /\ n + 1 \notin all
           old == Batch(facts[t].from,
                        IF facts[t].to < expected THEN facts[t].to ELSE expected - 1)
           ready == Batch(expected, upto)
           olds == IF Events(old) = {} THEN <<>> ELSE <<Handed(old, FALSE)>>
           readies == IF Events(ready) = {} THEN <<>> ELSE <<Handed(ready, FALSE)>>
<1>1. PICK again \in SetToSeqs({Handed(b, TRUE) : b \in retry}) :
          todo' = again \o olds \o readies
  BY DEF Publish
<1>2. /\ pc[t] = "delivering" /\ publisher = None /\ publisher' = t
      /\ buffered' = all \ Events(ready) /\ expected' = upto + 1
      /\ facts' = [facts EXCEPT ![t] = NoBatch]
      /\ UNCHANGED <<disk, pc, next, catchUp, retry, observers, page, waiter, hinted, faults>>
  BY DEF Publish
<1>3. /\ k \in Nat /\ k <= MaxEvents /\ Len(log') = k
      /\ expected \in Nat /\ expected \in 1..k + 1 /\ buffered \subseteq 1..k
      /\ retry \subseteq Of(k) /\ facts[t] \in Of(k)
  BY <1>2 DEF IInv, Shape, DeliversTheLog, disk
<1>4. /\ facts[t].from \in Nat /\ facts[t].from \in 1..MaxEvents
      /\ facts[t].to \in Nat /\ facts[t].to \in 0..k
  BY <1>3, BatchFields
<1>5. all \subseteq 1..k
  <2>1. ASSUME NEW n \in own PROVE n \in 1..k
    BY <1>3, <1>4 DEF Events
  <2> QED BY <1>3, <2>1
<1>6. /\ upto \in expected - 1..MaxEvents /\ expected..upto \subseteq all
      /\ upto + 1 \notin all
  <2>1. expected \in 1..MaxEvents + 1 /\ all \in SUBSET (1..MaxEvents)
    BY <1>3, <1>5, BoundAssumption
  <2>2. \E n \in expected - 1..MaxEvents : expected..n \subseteq all /\ n + 1 \notin all
    <3> HIDE DEF all
    <3> QED BY <2>1, GapExists
  <2> HIDE DEF all
  <2> QED BY <2>2
<1>7. upto \in Nat /\ upto \in 0..k
  <2>1. upto \in Nat /\ upto >= expected - 1
    BY <1>3, <1>6, BoundAssumption
  <2>2. CASE upto = expected - 1
    <3>1. expected - 1 \in Nat /\ expected - 1 \in 0..k
      BY <1>3
    <3> HIDE DEF upto, k
    <3> QED BY <2>2, <3>1
  <2>3. CASE upto # expected - 1
    <3>1. upto \in expected..upto
      BY <1>3, <2>1, <2>3
    <3>2. upto \in 1..k
      BY <1>5, <1>6, <3>1
    <3> QED BY <1>3, <3>2
  <2> QED BY <2>2, <2>3
<1>8. /\ Events(ready) = expected..upto
      /\ Events(old) = facts[t].from..IF facts[t].to < expected THEN facts[t].to
                                      ELSE expected - 1
  BY DEF Events, Batch
<1>9. ready \in Of(k) \/ Events(ready) = {}
  <2>1. CASE expected <= MaxEvents
    <3>1. expected \in 1..MaxEvents
      BY <1>3, <2>1
    <3> HIDE DEF upto
    <3> QED BY <1>3, <1>7, <3>1, BatchIsOf
  <2>2. CASE ~(expected <= MaxEvents)
    <3> HIDE DEF upto
    <3> QED BY <1>3, <1>7, <1>8, <2>2, BoundAssumption
  <2> QED BY <2>1, <2>2
<1>10. old \in Of(k)
  <2>1. (IF facts[t].to < expected THEN facts[t].to ELSE expected - 1) \in 0..k
    BY <1>3, <1>4
  <2> QED BY <1>3, <1>4, <2>1, BatchIsOf
<1> HIDE DEF upto, old, ready
<1>11. olds \in Seq(Handing(k)) /\ readies \in Seq(Handing(k))
  <2>1. Handed(old, FALSE) \in Handing(k)
    BY <1>10 DEF Handed, Handing
  <2>2. Events(ready) # {} => Handed(ready, FALSE) \in Handing(k)
    BY <1>9 DEF Handed, Handing
  <2>3. \A S : <<>> \in Seq(S) /\ \A h \in S : <<h>> \in Seq(S)
    OBVIOUS
  <2> QED BY <2>1, <2>2, <2>3, Zenon
<1>12. again \in Seq(Handing(k))
  BY <1>3, AgainIsRetried
<1> HIDE DEF olds, readies
<1>13. /\ todo' \in Seq(Handing(k))
       /\ Range(olds) \subseteq Range(todo') /\ Range(readies) \subseteq Range(todo')
  <2>1. again \o olds \in Seq(Handing(k)) /\ Range(olds) \subseteq Range(again \o olds)
    BY <1>11, <1>12, Appended, Zenon
  <2>2. /\ again \o olds \o readies \in Seq(Handing(k))
        /\ Range(again \o olds) \subseteq Range(again \o olds \o readies)
        /\ Range(readies) \subseteq Range(again \o olds \o readies)
    BY <1>11, <2>1, Appended, Zenon
  <2> QED BY <1>1, <2>1, <2>2, Zenon
<1>14. \A n \in Events(old) \cup Events(ready) :
           \E i \in DOMAIN todo' : n \in Events(todo'[i].batch)
  <2>1. \A h : h \in Range(<<h>>)
    BY DEF Range
  <2>2. ASSUME NEW n \in Events(old)
        PROVE  \E i \in DOMAIN todo' : n \in Events(todo'[i].batch)
    <3>1. olds = <<Handed(old, FALSE)>>
      BY <2>2 DEF olds
    <3>2. Handed(old, FALSE) \in Range(todo')
      BY <1>13, <2>1, <3>1
    <3>3. PICK j \in DOMAIN todo' : todo'[j] = Handed(old, FALSE)
      BY <3>2 DEF Range
    <3> QED BY <3>3 DEF Handed
  <2>3. ASSUME NEW n \in Events(ready)
        PROVE  \E i \in DOMAIN todo' : n \in Events(todo'[i].batch)
    <3>1. readies = <<Handed(ready, FALSE)>>
      BY <2>3 DEF readies
    <3>2. Handed(ready, FALSE) \in Range(todo')
      BY <1>13, <2>1, <3>1
    <3>3. PICK j \in DOMAIN todo' : todo'[j] = Handed(ready, FALSE)
      BY <3>2 DEF Range
    <3> QED BY <3>3 DEF Handed
  <2> QED BY <2>2, <2>3
<1>15. facts'[t] = NoBatch /\ \A u \in Threads : u # t => facts'[u] = facts[u]
  BY <1>2 DEF IInv, DeliversTheLog
<1>16. Held \subseteq Held'
  <2> SUFFICES ASSUME NEW n \in Held PROVE n \in Held'
    OBVIOUS
  <2>1. CASE n \in all
    <3>1. CASE n \in Events(ready)
      BY <1>14, <3>1, InHeldNext
    <3>2. CASE n \notin Events(ready)
      BY <1>2, <2>1, <3>2, InHeldNext
    <3> QED BY <3>1, <3>2
  <2>2. CASE n \in own /\ n \notin all
    <3>1. n \in Events(old)
      <4>1. n \in facts[t].from..facts[t].to /\ ~(n >= expected)
        BY <2>2 DEF Events
      <4> QED BY <1>3, <1>4, <1>8, <4>1
    <3> QED BY <1>14, <3>1, InHeldNext
  <2>3. CASE \E u \in Threads : u # t /\ n \in Events(facts[u])
    BY <1>15, <2>3, InHeldNext
  <2>4. CASE \E b \in retry : n \in Events(b)
    BY <1>2, <2>4, InHeldNext
  <2>5. todo = <<>>
    BY <1>2 DEF IInv, LocksAreHeld
  <2>6. ~(\E i \in DOMAIN todo : n \in Events(todo[i].batch))
    BY <2>5
  <2> QED BY <2>1, <2>2, <2>3, <2>4, <2>6, InHeld
<1>17. Shape'
  BY <1>2 DEF IInv, Shape, disk, catchUp
<1>18. DeliversTheLog'
  <2>1. facts' \in [Threads -> Of(Len(log'))]
    BY <1>2, <1>3, NoBatchIsEmpty DEF IInv, DeliversTheLog
  <2>2. expected' \in 1..Len(log') + 1
    BY <1>2, <1>3, <1>7
  <2>3. buffered' \subseteq 1..Len(log')
    BY <1>2, <1>3, <1>5
  <2>4. retry' \subseteq Of(Len(log'))
    BY <1>2, <1>3
  <2> QED BY <1>3, <1>13, <2>1, <2>2, <2>3, <2>4 DEF DeliversTheLog
<1>19. HeardInOrder'
  BY <1>2, <1>3 DEF IInv, HeardInOrder, observers
<1>20. LocksAreHeld'
  <2>1. t # None
    BY ThreadAssumption
  <2> QED BY <1>2, <1>15, <2>1 DEF IInv, LocksAreHeld, catchUp
<1>21. Covers'
  <2>1. Covered => Covered'
    <3>1. LogGrows
      BY <1>2, LogStays DEF IInv
    <3>2. Len(log) + 1..Len(log') = {}
      BY <1>3
    <3> QED BY <1>2, <1>16, <3>1, <3>2, CoverStays DEF IInv, observers
  <2> QED BY <1>2, <2>1 DEF IInv, Covers, catchUp
<1>22. PageIsGapless' /\ WaiterWillBeTold'
  BY <1>2 DEF IInv, PageIsGapless, WaiterWillBeTold, WorkAt, observers, disk
<1> QED BY SMTT(30), <1>17, <1>18, <1>19, <1>20, <1>21, <1>22 DEF IInv

LEMMA LeaveKeeps ==
    ASSUME IInv, NEW t \in Threads, Leave(t)
    PROVE  IInv'
<1>1. /\ publisher = t /\ todo = <<>> /\ publisher' = None
      /\ pc' = [pc EXCEPT ![t] = next[t]]
      /\ UNCHANGED <<disk, next, facts, todo, expected, buffered, retry, observers, page,
                     waiter, hinted, faults>>
  BY DEF Leave
<1>2. t # None /\ pc[t] = "delivering" /\ facts[t] = NoBatch
  BY <1>1, ThreadAssumption DEF IInv, LocksAreHeld
<1>3. pc'[t] = next[t] /\ \A u \in Threads : u # t => pc'[u] = pc[u]
  BY <1>1 DEF IInv, Shape
<1>4. Shape'
  <2>1. pc' \in [Threads -> {"idle", "scanning", "operating", "delivering"}]
    BY <1>1 DEF IInv, Shape
  <2>2. /\ catching' \in Threads \cup {None} /\ complete' \in BOOLEAN /\ valid' \in BOOLEAN
    BY DEF Leave, catchUp, IInv, Shape
  <2> QED BY <1>1, <2>1, <2>2 DEF IInv, Shape, disk
<1>5. DeliversTheLog' /\ HeardInOrder'
  BY <1>1 DEF IInv, DeliversTheLog, HeardInOrder, disk, observers
<1>6. LocksAreHeld'
  <2>1. \A u \in Threads : pc'[u] # "delivering" => facts'[u] = NoBatch
    BY <1>1, <1>2, <1>3 DEF IInv, LocksAreHeld
  <2>2. catching' # None => pc'[catching'] \in {"scanning", "delivering"}
    <3>1. CASE catching = t
      BY <3>1 DEF Leave
    <3>2. CASE catching # t
      BY <1>3, <3>2 DEF Leave, catchUp, IInv, Shape, LocksAreHeld
    <3> QED BY <3>1, <3>2
  <2> QED BY <1>1, <2>1, <2>2 DEF LocksAreHeld
<1>7. Covers'
  <2>1. Covered <=> Covered'
    BY <1>1 DEF Covered, Held, disk, observers
  <2>2. CASE catching = t
    BY <1>2, <2>1, <2>2 DEF Leave, IInv, Covers
  <2>3. CASE catching # t
    BY <1>3, <2>1, <2>3 DEF Leave, catchUp, IInv, Shape, Covers
  <2> QED BY <2>2, <2>3
<1>8. PageIsGapless' /\ WaiterWillBeTold'
  BY <1>1 DEF IInv, PageIsGapless, WaiterWillBeTold, WorkAt, observers, disk
<1> QED BY <1>4, <1>5, <1>6, <1>7, <1>8 DEF IInv

-----------------------------------------------------------------------------
(* Pages, Hosts and restarts.                                              *)

LEMMA NumbersAre ==
    ASSUME NEW k \in Nat, NEW to \in Nat, k <= to
    PROVE  /\ Numbers(k + 1, to) \in Seq(Nat) /\ Len(Numbers(k + 1, to)) = to - k
           /\ \A i \in 1..to - k : Numbers(k + 1, to)[i] = k + i
<1>1. to - (k + 1) + 1 = to - k /\ to - k \in Nat
  OBVIOUS
<1>2. \A i \in 1..to - k : k + 1 + i - 1 = k + i /\ k + i \in Nat
  OBVIOUS
<1>3. Numbers(k + 1, to) = [i \in 1..to - k |-> k + i]
  BY SMTT(30), <1>1, <1>2 DEF Numbers
<1> QED BY <1>1, <1>2, <1>3

LEMMA TailIs ==
    ASSUME NEW s \in Seq(Nat), NEW n \in 1..Len(s)
    PROVE  /\ SubSeq(s, n + 1, Len(s)) \in Seq(Nat)
           /\ Len(SubSeq(s, n + 1, Len(s))) = Len(s) - n
           /\ \A i \in 1..Len(s) - n : SubSeq(s, n + 1, Len(s))[i] = s[n + i]
<1>1. Len(s) \in Nat /\ n \in Nat /\ n <= Len(s)
  OBVIOUS
<1>2. Len(s) - n \in Nat /\ Len(s) - (n + 1) + 1 = Len(s) - n
  BY <1>1
<1>3. \A i \in 1..Len(s) - n : n + i \in 1..Len(s) /\ n + 1 + i - 1 = n + i
  BY <1>1
<1>4. \A i \in (n + 1)..Len(s) : s[i] \in Nat
  BY <1>1
<1>5. n + 1 \in Int /\ Len(s) \in Int /\ n + 1 <= Len(s) + 1
  BY <1>1
<1>6. /\ SubSeq(s, n + 1, Len(s)) \in Seq(Nat)
      /\ Len(SubSeq(s, n + 1, Len(s))) =
             IF n + 1 <= Len(s) THEN Len(s) - (n + 1) + 1 ELSE 0
      /\ \A i \in 1..Len(s) - (n + 1) + 1 : SubSeq(s, n + 1, Len(s))[i] = s[n + 1 + i - 1]
  <2> DEFINE lo == n + 1
             hi == Len(s)
  <2>1. lo \in Int /\ hi \in Int /\ \A i \in lo .. hi : s[i] \in Nat
    BY <1>4, <1>5
  <2> HIDE DEF lo, hi
  <2>2. /\ SubSeq(s, lo, hi) \in Seq(Nat)
        /\ Len(SubSeq(s, lo, hi)) = IF lo <= hi THEN hi - lo + 1 ELSE 0
        /\ \A i \in 1 .. hi - lo + 1 : SubSeq(s, lo, hi)[i] = s[lo + i - 1]
    BY <2>1, SubSeqProperties, SMTT(30)
  <2> QED
    BY <2>2 DEF lo, hi
<1>7. (IF n + 1 <= Len(s) THEN Len(s) - (n + 1) + 1 ELSE 0) = Len(s) - n
  BY <1>1
<1> QED BY <1>2, <1>3, <1>6, <1>7

LEMMA LatestIsLength ==
    ASSUME HeardInOrder, NEW o \in Observers
    PROVE  Latest(heard[o]) = Len(heard[o]) /\ Len(heard[o]) \in Nat
  BY LatestOf DEF HeardInOrder

LEMMA PageKeeps ==
    ASSUME IInv, PageIsGapless',
           UNCHANGED <<disk, pc, next, facts, catchUp, dispatcher, observers, waiter, hinted>>
    PROVE  IInv'
<1>1. Shape' /\ DeliversTheLog' /\ HeardInOrder' /\ LocksAreHeld'
  BY DEF IInv, Shape, DeliversTheLog, HeardInOrder, LocksAreHeld, disk, catchUp, dispatcher,
         observers
<1>2. Covers'
  BY DEF IInv, Covers, Covered, Held, disk, catchUp, dispatcher, observers
<1>3. WaiterWillBeTold'
  BY DEF IInv, WaiterWillBeTold, WorkAt, disk, observers
<1> QED BY <1>1, <1>2, <1>3 DEF IInv

LEMMA NobodyIsGapless ==
    ASSUME NEW status \in {"away", "resync"}, page' = [Nobody EXCEPT !.status = status]
    PROVE  PageIsGapless'
<1>1. page' = [status |-> status, cursor |-> 0, queue |-> <<>>]
  BY DEF Nobody
<1>2. page' \in [status : {"away", "open", "resync"}, cursor : Nat, queue : Seq(Nat)]
  <2>1. \A q \in Seq(Nat) : [status |-> status, cursor |-> 0, queue |-> q]
            \in [status : {"away", "open", "resync"}, cursor : Nat, queue : Seq(Nat)]
    OBVIOUS
  <2>2. <<>> \in Seq(Nat)
    OBVIOUS
  <2> QED BY <1>1, <2>1, <2>2, Zenon
<1>3. page'.status # "open" /\ Len(page'.queue) = 0
  BY <1>1
<1> QED BY <1>2, <1>3, LimitAssumption DEF PageIsGapless

LEMMA SubscribeKeeps ==
    ASSUME IInv, NEW after \in 0..Len(log), Subscribe(after)
    PROVE  IInv'
<1> DEFINE far == Len(heard["browser-stream"])
<1>1. Through = far /\ far \in Nat /\ after \in Nat
  BY LatestIsLength DEF IInv, Through, Observers, Shape
<1>2. /\ after <= far /\ far - after <= QueueLimit
      /\ page' = [status |-> "open", cursor |-> after, queue |-> Numbers(after + 1, far)]
      /\ UNCHANGED <<disk, pc, next, facts, catchUp, dispatcher, observers, waiter, hinted>>
  BY <1>1 DEF Subscribe
<1>3. /\ Numbers(after + 1, far) \in Seq(Nat)
      /\ Len(Numbers(after + 1, far)) = far - after
      /\ \A i \in 1..far - after : Numbers(after + 1, far)[i] = after + i
  <2> HIDE DEF far
  <2> QED BY <1>1, <1>2, NumbersAre
<1>4. PageIsGapless'
  <2>1. page' \in [status : {"away", "open", "resync"}, cursor : Nat, queue : Seq(Nat)]
    BY <1>1, <1>2, <1>3
  <2>2. heard' = heard
    BY <1>2 DEF observers
  <2>3. page'.cursor = after /\ page'.queue = Numbers(after + 1, far)
    BY <1>2
  <2>4. after + (far - after) = far
    BY <1>1
  <2> QED BY <1>2, <1>3, <2>1, <2>2, <2>3, <2>4 DEF PageIsGapless
<1> QED BY <1>2, <1>4, PageKeeps

LEMMA ReadKeeps ==
    ASSUME IInv, NEW n \in DOMAIN page.queue, Read(n)
    PROVE  IInv'
<1> DEFINE queue == page.queue
           far == Len(heard["browser-stream"])
<1>1. /\ queue \in Seq(Nat) /\ Len(queue) \in Nat /\ Len(queue) <= QueueLimit
      /\ page.status = "open" /\ page.cursor \in Nat /\ page.cursor + Len(queue) = far
      /\ \A i \in 1..Len(queue) : queue[i] = page.cursor + i
  BY DEF Read, IInv, PageIsGapless
<1>2. n \in 1..Len(queue)
  BY <1>1
<1>3. /\ page' = [page EXCEPT !.queue = SubSeq(@, n + 1, Len(@)), !.cursor = page.queue[n]]
      /\ UNCHANGED <<disk, pc, next, facts, catchUp, dispatcher, observers, waiter, hinted>>
  BY DEF Read
<1> DEFINE rest == SubSeq(queue, n + 1, Len(queue))
<1>4. /\ rest \in Seq(Nat) /\ Len(rest) = Len(queue) - n
      /\ \A i \in 1..Len(queue) - n : rest[i] = queue[n + i]
  <2> HIDE DEF queue
  <2> QED BY <1>1, <1>2, TailIs
<1>5. /\ page' \in [status : {"away", "open", "resync"}, cursor : Nat, queue : Seq(Nat)]
      /\ page'.status = "open" /\ page'.cursor = page.cursor + n /\ page'.queue = rest
  <2>1. page \in [status : {"away", "open", "resync"}, cursor : Nat, queue : Seq(Nat)]
    BY DEF IInv, PageIsGapless
  <2>2. page.queue[n] = page.cursor + n /\ page.cursor + n \in Nat
    BY <1>1, <1>2
  <2> HIDE DEF rest, queue
  <2>3. page' = [page EXCEPT !.queue = rest, !.cursor = page.cursor + n]
    BY <1>3, <2>2 DEF rest, queue
  <2> QED BY <1>1, <1>4, <2>1, <2>2, <2>3
<1>6. PageIsGapless'
  <2>1. Len(rest) <= QueueLimit /\ page.cursor + n + Len(rest) = far
    <3> HIDE DEF rest, queue, far
    <3> QED BY <1>1, <1>2, <1>4, LimitAssumption
  <2>2. ASSUME NEW i \in 1..Len(rest) PROVE rest[i] = page.cursor + n + i
    <3>1. n + i \in 1..Len(queue) /\ page.cursor + (n + i) = page.cursor + n + i
      <4>1. \A k \in Nat : \A c \in Nat : \A m \in 1..k : \A j \in 1..k - m :
                m + j \in 1..k /\ c + (m + j) = c + m + j
        OBVIOUS
      <4>2. i \in 1..Len(queue) - n
        BY <1>4
      <4> HIDE DEF rest, queue
      <4> QED BY <1>1, <1>2, <4>1, <4>2
    <3>2. rest[i] = queue[n + i]
      BY <1>4
    <3> QED BY <1>1, <3>1, <3>2
  <2>3. heard' = heard
    BY <1>3 DEF observers
  <2> HIDE DEF rest
  <2> QED BY <1>5, <2>1, <2>2, <2>3 DEF PageIsGapless
<1> QED BY <1>3, <1>6, PageKeeps

LEMMA DisconnectKeeps ==
    ASSUME IInv, Disconnect
    PROVE  IInv'
<1>1. PageIsGapless'
  <2>1. page' = [Nobody EXCEPT !.status = "away"]
    BY DEF Disconnect, Nobody
  <2> QED BY <2>1, NobodyIsGapless
<1> QED BY <1>1, PageKeeps DEF Disconnect

\* A Host that has not looked yet, or was told since, waits for nothing.
LEMMA HostKeeps ==
    ASSUME IInv, NEW from, NEW to \in {"away", "reading", "checking", "asleep"},
           Waits(from, to), hinted' \in BOOLEAN,
           to \in {"checking", "asleep"} /\ ~hinted' =>
               \A n \in 1..Len(log) : WorkAt(n) => n > Len(heard["host-wake"])
    PROVE  IInv'
<1>1. /\ waiter' = to
      /\ UNCHANGED <<disk, pc, next, facts, catchUp, dispatcher, observers, page>>
  BY DEF Waits
<1>2. Shape' /\ DeliversTheLog' /\ HeardInOrder' /\ LocksAreHeld'
  BY <1>1 DEF IInv, Shape, DeliversTheLog, HeardInOrder, LocksAreHeld, disk, catchUp,
              dispatcher, observers
<1>3. Covers'
  BY <1>1 DEF IInv, Covers, Covered, Held, disk, catchUp, dispatcher, observers
<1>4. PageIsGapless'
  BY <1>1 DEF IInv, PageIsGapless, observers
<1>5. WaiterWillBeTold'
  BY <1>1 DEF WaiterWillBeTold, WorkAt, disk, observers
<1> QED BY <1>2, <1>3, <1>4, <1>5 DEF IInv

LEMMA WaitingKeeps ==
    ASSUME IInv, Look \/ ReadWork \/ Sleep \/ Wake
    PROVE  IInv'
<1>1. CASE Look
  BY <1>1, HostKeeps DEF Look
<1>2. CASE ReadWork
  <2>1. CASE WorkIsQueued
    BY <1>2, <2>1, HostKeeps DEF ReadWork, IInv, Shape
  <2>2. CASE ~WorkIsQueued
    <3>1. \A n \in 1..Len(log) : ~WorkAt(n)
      BY <2>2 DEF WorkIsQueued, IInv, Shape
    <3> QED BY <1>2, <2>2, <3>1, HostKeeps DEF ReadWork, IInv, Shape
  <2> QED BY <2>1, <2>2
<1>3. CASE Sleep
  <2>1. CASE hinted
    BY <1>3, <2>1, HostKeeps DEF Sleep
  <2>2. CASE ~hinted
    <3>1. waiter = "checking"
      BY <1>3 DEF Sleep, Waits
    <3> QED BY <1>3, <2>2, <3>1, HostKeeps DEF Sleep, IInv, WaiterWillBeTold
  <2> QED BY <2>1, <2>2
<1>4. CASE Wake
  BY <1>4, HostKeeps DEF Wake
<1> QED BY <1>1, <1>2, <1>3, <1>4

\* What a new process knows.
LEMMA FreshIsGood ==
    ASSUME log' \in Seq(Kinds), Len(log') <= MaxEvents, ends' \subseteq 1..Len(log'),
           pc' = [t \in Threads |-> "idle"], next' = [t \in Threads |-> "idle"],
           facts' = [t \in Threads |-> NoBatch],
           catching' = None, complete' = FALSE, valid' = FALSE,
           publisher' = None, todo' = <<>>, expected' = 1, buffered' = {}, retry' = {},
           cursor' = [o \in Observers |-> 0], heard' = [o \in Observers |-> <<>>],
           page' = Nobody, waiter' = "away", hinted' = FALSE
    PROVE  IInv'
<1>1. Len(log') \in Nat
  OBVIOUS
<1>2. Shape'
  BY DEF Shape
<1>3. DeliversTheLog'
  <2>1. NoBatch \in Of(Len(log'))
    BY <1>1, NoBatchIsEmpty
  <2>2. todo' \in Seq(Handing(Len(log')))
    OBVIOUS
  <2> QED BY <1>1, <2>1, <2>2 DEF DeliversTheLog
<1>4. HeardInOrder'
  <2>1. \A o \in Observers : Len(heard'[o]) = 0
    OBVIOUS
  <2>2. cursor' \in [Observers -> 0..Len(log')] /\ heard' \in [Observers -> Seq(Nat)]
    BY <1>1
  <2> QED BY <1>1, <2>1, <2>2 DEF HeardInOrder
<1>5. LocksAreHeld' /\ Covers' /\ WaiterWillBeTold'
  BY DEF LocksAreHeld, Covers, WaiterWillBeTold
<1>6. PageIsGapless'
  <2>1. page' = [Nobody EXCEPT !.status = "away"]
    BY DEF Nobody
  <2> QED BY <2>1, NobodyIsGapless
<1> QED BY <1>2, <1>3, <1>4, <1>5, <1>6 DEF IInv

LEMMA RestartKeeps ==
    ASSUME IInv, Restart
    PROVE  IInv'
<1>1. log' \in Seq(Kinds) /\ Len(log') <= MaxEvents /\ ends' \subseteq 1..Len(log')
  BY DEF Restart, disk, IInv, Shape
<1> QED BY <1>1, FreshIsGood DEF Restart

-----------------------------------------------------------------------------
(* The hub hands a batch to the observers.                                 *)

LEMMA NumbersEmpty ==
    ASSUME NEW k \in Nat, NEW to \in Nat, to < k
    PROVE  Numbers(k + 1, to) = <<>>
<1>1. 1..(to - (k + 1) + 1) = {}
  OBVIOUS
<1> QED BY <1>1 DEF Numbers

\* What an observer is given follows what it has heard.
LEMMA TakenFollows ==
    ASSUME HeardInOrder, Len(log) \in Nat, NEW o \in Observers, NEW b \in Of(Len(log))
    PROVE  /\ Taken(o, b) \in Seq(Nat)
           /\ Len(heard[o]) + Len(Taken(o, b)) <= Len(log)
           /\ \A i \in 1..Len(Taken(o, b)) : Taken(o, b)[i] = Len(heard[o]) + i
<1> DEFINE n == Len(heard[o])
<1>1. n \in Nat /\ Latest(heard[o]) = n /\ n <= Len(log)
  BY LatestIsLength DEF HeardInOrder
<1>2. b.to \in Nat /\ b.to <= Len(log)
  BY BatchFields
<1>3. Taken(o, b) = <<>> \/ Taken(o, b) = Numbers(n + 1, b.to)
  BY <1>1 DEF Taken, Gap
<1>4. CASE Taken(o, b) = <<>>
  <2>1. Taken(o, b) \in Seq(Nat) /\ Len(Taken(o, b)) = 0
    BY <1>4
  <2> HIDE DEF n
  <2>2. n + Len(Taken(o, b)) <= Len(log) /\ 1..Len(Taken(o, b)) = {}
    BY <1>1, <2>1
  <2> QED BY <2>1, <2>2 DEF n
<1>5. CASE Taken(o, b) = Numbers(n + 1, b.to) /\ n <= b.to
  <2> HIDE DEF n
  <2>1. /\ Numbers(n + 1, b.to) \in Seq(Nat) /\ Len(Numbers(n + 1, b.to)) = b.to - n
        /\ \A i \in 1..b.to - n : Numbers(n + 1, b.to)[i] = n + i
    BY <1>1, <1>2, <1>5, NumbersAre
  <2>2. n + (b.to - n) <= Len(log)
    BY <1>1, <1>2
  <2> QED BY <1>5, <2>1, <2>2 DEF n
<1>6. CASE Taken(o, b) = Numbers(n + 1, b.to) /\ b.to < n
  <2> HIDE DEF n
  <2> QED BY <1>1, <1>2, <1>4, <1>6, NumbersEmpty
<1> QED
  <2> HIDE DEF n
  <2> QED BY <1>1, <1>2, <1>3, <1>4, <1>5, <1>6

\* A sequence that counts from k on, after one that counts to k.
LEMMA CountsOn ==
    ASSUME NEW x \in Seq(Nat), NEW y \in Seq(Nat), NEW c \in Nat,
           \A i \in 1..Len(x) : x[i] = c + i,
           \A i \in 1..Len(y) : y[i] = c + Len(x) + i
    PROVE  /\ x \o y \in Seq(Nat) /\ Len(x \o y) = Len(x) + Len(y)
           /\ \A i \in 1..Len(x \o y) : (x \o y)[i] = c + i
<1>1. x \o y \in Seq(Nat) /\ Len(x \o y) = Len(x) + Len(y)
  OBVIOUS
<1>2. ASSUME NEW i \in 1..Len(x) + Len(y) PROVE (x \o y)[i] = c + i
  <2>1. CASE i <= Len(x)
    BY <2>1
  <2>2. CASE ~(i <= Len(x))
    <3>1. (x \o y)[i] = y[i - Len(x)]
      BY <2>2
    <3>2. i - Len(x) \in 1..Len(y)
      BY <2>2
    <3>3. c + Len(x) + (i - Len(x)) = c + i
      OBVIOUS
    <3> QED BY <3>1, <3>2, <3>3
  <2> QED BY <2>1, <2>2
<1> QED BY <1>1, <1>2

LEMMA HandKeeps ==
    ASSUME IInv, NEW t \in Threads, Hand(t)
    PROVE  IInv'
<1> DEFINE k == Len(log)
           h == Head(todo)
           b == h.batch
           asked == {o \in Observers : Unheard(o, b) <= b.to}
           refuse == {o \in asked : Gap(o, b)}
<1>1. PICK broken \in SUBSET (asked \ refuse), takers \in SUBSET (asked \ refuse) :
          /\ Take(takers, b)
          /\ cursor' = [o \in Observers |->
                          IF o \in asked \ (refuse \cup broken) THEN b.to ELSE cursor[o]]
          /\ retry' = Retried(h, refuse \cup broken)
  BY DEF Hand
<1>2. /\ publisher = t /\ todo # <<>> /\ todo' = Tail(todo)
      /\ UNCHANGED <<disk, pc, next, facts, catchUp, publisher, expected, buffered, waiter>>
  BY DEF Hand
<1> DEFINE failed == refuse \cup broken
           shown == [o \in Observers |-> IF o \in takers THEN Taken(o, b) ELSE <<>>]
<1>3. k \in Nat /\ k <= MaxEvents /\ Len(log') = k
  BY <1>2 DEF IInv, Shape, disk
<1>4. /\ h \in Handing(k) /\ todo' \in Seq(Handing(k))
      /\ \A i \in DOMAIN todo : todo[i] = h \/ \E j \in DOMAIN todo' : todo'[j] = todo[i]
  <2> DEFINE X == Handing(k)
  <2>1. todo \in Seq(X) /\ todo # <<>>
    BY <1>2 DEF IInv, DeliversTheLog
  <2> HIDE DEF X
  <2>2. /\ h \in X /\ todo' \in Seq(X) /\ Len(todo') = Len(todo) - 1 /\ h = todo[1]
        /\ \A i \in 1..Len(todo') : todo'[i] = todo[i + 1]
    BY <1>2, <2>1
  <2>3. ASSUME NEW i \in DOMAIN todo
        PROVE  todo[i] = h \/ \E j \in DOMAIN todo' : todo'[j] = todo[i]
    <3>1. CASE i = 1
      BY <2>2, <3>1
    <3>2. CASE i # 1
      <4>1. i - 1 \in 1..Len(todo') /\ i - 1 + 1 = i
        BY <2>1, <2>2, <3>2
      <4>2. todo'[i - 1] = todo[i] /\ i - 1 \in DOMAIN todo'
        BY <2>2, <4>1
      <4> QED BY <4>2
    <3> QED BY <3>1, <3>2
  <2> QED BY <2>2, <2>3 DEF X
<1>5. b \in Of(k)
  BY <1>4 DEF Handing
<1>6. b.from \in Nat /\ b.to \in Nat /\ b.to <= k
  BY <1>3, <1>5, BatchFields
<1> HIDE DEF h, b
<1>7. \A o \in Observers : cursor[o] \in Nat /\ cursor[o] \in 0..k
  BY <1>3 DEF IInv, HeardInOrder
<1>8. /\ shown \in [Observers -> Seq(Nat)]
      /\ \A o \in Observers :
           /\ Len(heard[o]) + Len(shown[o]) <= k
           /\ \A i \in 1..Len(shown[o]) : shown[o][i] = Len(heard[o]) + i
  <2> SUFFICES ASSUME NEW o \in Observers
               PROVE  /\ shown[o] \in Seq(Nat)
                      /\ Len(heard[o]) + Len(shown[o]) <= k
                      /\ \A i \in 1..Len(shown[o]) : shown[o][i] = Len(heard[o]) + i
    OBVIOUS
  <2>1. CASE o \in takers
    <3>1. shown[o] = Taken(o, b)
      BY <2>1
    <3> HIDE DEF shown
    <3> QED BY <1>3, <1>5, <3>1, TakenFollows DEF IInv
  <2>2. CASE o \notin takers
    <3>1. shown[o] = <<>> /\ shown[o] \in Seq(Nat) /\ Len(shown[o]) = 0
      BY <2>2
    <3>2. Len(heard[o]) \in Nat /\ Len(heard[o]) <= k
      BY DEF IInv, HeardInOrder
    <3> HIDE DEF shown
    <3> QED BY <1>3, <3>1, <3>2
  <2> QED BY <2>1, <2>2
<1>9. /\ heard' = [o \in Observers |-> heard[o] \o shown[o]]
      /\ page' = IF shown["browser-stream"] = <<>> THEN page
                 ELSE Pushed(page, shown["browser-stream"])
      /\ hinted' = (hinted \/ (waiter # "away" /\ Hint(shown["host-wake"])))
  BY <1>1 DEF Take
<1> HIDE DEF shown
<1>10. \A o \in Observers :
          /\ heard'[o] \in Seq(Nat) /\ Len(heard'[o]) = Len(heard[o]) + Len(shown[o])
          /\ \A i \in 1..Len(heard'[o]) : heard'[o][i] = i
  <2> SUFFICES ASSUME NEW o \in Observers
               PROVE  /\ heard'[o] \in Seq(Nat) /\ Len(heard'[o]) = Len(heard[o]) + Len(shown[o])
                      /\ \A i \in 1..Len(heard'[o]) : heard'[o][i] = i
    OBVIOUS
  <2>1. heard'[o] = heard[o] \o shown[o]
    BY <1>9
  <2>2. /\ heard[o] \in Seq(Nat) /\ shown[o] \in Seq(Nat)
        /\ \A i \in 1..Len(heard[o]) : heard[o][i] = i
        /\ \A i \in 1..Len(shown[o]) : shown[o][i] = Len(heard[o]) + i
    BY <1>8 DEF IInv, HeardInOrder
  <2> DEFINE x == heard[o]
             y == shown[o]
  <2>3. x \in Seq(Nat) /\ y \in Seq(Nat)
    BY <2>2
  <2>4. (\A i \in 1..Len(x) : x[i] = 0 + i) /\ (\A i \in 1..Len(y) : y[i] = 0 + Len(x) + i)
    BY <2>2
  <2> HIDE DEF x, y
  <2>5. /\ x \o y \in Seq(Nat) /\ Len(x \o y) = Len(x) + Len(y)
        /\ \A i \in 1..Len(x \o y) : (x \o y)[i] = 0 + i
    BY <2>3, <2>4, CountsOn
  <2>6. heard'[o] = x \o y
    BY <2>1 DEF x, y
  <2> DEFINE z == x \o y
  <2>7. \A i \in 1..Len(z) : z[i] = i
    BY <2>5
  <2> HIDE DEF z
  <2> QED BY <2>5, <2>6, <2>7 DEF x, y, z
<1>11. HeardInOrder'
  <2>1. heard' \in [Observers -> Seq(Nat)]
    BY <1>9, <1>10
  <2>2. cursor' \in [Observers -> 0..k]
    BY <1>1, <1>3, <1>6, <1>7
  <2>3. \A o \in Observers : Len(heard'[o]) <= k
    BY <1>8, <1>10
  <2> QED BY <1>3, <1>10, <2>1, <2>2, <2>3 DEF HeardInOrder
<1>12. Shape'
  BY <1>2, <1>9 DEF IInv, Shape, disk, catchUp
<1>13. retry' \subseteq retry \cup {b}
  BY <1>1 DEF Retried, b
<1>14. DeliversTheLog'
  BY <1>2, <1>3, <1>4, <1>5, <1>13 DEF IInv, DeliversTheLog
<1>15. LocksAreHeld'
  BY <1>2, ThreadAssumption DEF IInv, LocksAreHeld, catchUp
<1>16. \A n : n \in Held /\ n \notin Events(b) => n \in Held'
  <2> SUFFICES ASSUME NEW n, n \in Held, n \notin Events(b) PROVE n \in Held'
    OBVIOUS
  <2>1. CASE n \in buffered \/ \E u \in Threads : n \in Events(facts[u])
    BY <1>2, <2>1, InHeldNext
  <2>2. CASE \E c \in retry : n \in Events(c)
    <3>1. PICK c \in retry : n \in Events(c)
      BY <2>2
    <3>2. c \in retry'
      BY <1>1, <3>1 DEF Retried, b
    <3> QED BY <3>1, <3>2, InHeldNext
  <2>3. CASE \E i \in DOMAIN todo : n \in Events(todo[i].batch)
    <3>1. PICK i \in DOMAIN todo : n \in Events(todo[i].batch)
      BY <2>3
    <3>2. todo[i] # h
      BY <3>1 DEF b
    <3>3. PICK j \in DOMAIN todo' : todo'[j] = todo[i]
      BY <1>4, <3>2
    <3> QED BY <3>1, <3>3, InHeldNext
  <2> QED BY <2>1, <2>2, <2>3, InHeld
<1>17. failed # {} => \A n \in Events(b) : n \in Held'
  <2> SUFFICES ASSUME failed # {}, NEW n \in Events(b) PROVE n \in Held'
    OBVIOUS
  <2>1. b \in retry'
    BY <1>1 DEF Retried, b
  <2> QED BY <2>1, InHeldNext
\* Who was not asked, or did not fail, has nothing of the batch before it.
<1>18. \A o \in Observers :
          /\ cursor'[o] \in Nat /\ cursor[o] <= cursor'[o]
          /\ failed = {} => \A n \in cursor'[o] + 1..k : n \notin Events(b)
  <2> SUFFICES ASSUME NEW o \in Observers
               PROVE  /\ cursor'[o] \in Nat /\ cursor[o] <= cursor'[o]
                      /\ failed = {} => \A n \in cursor'[o] + 1..k : n \notin Events(b)
    OBVIOUS
  <2>1. CASE o \in asked
    <3>1. Unheard(o, b) <= b.to /\ cursor[o] < Unheard(o, b) /\ Unheard(o, b) \in Nat
      BY <1>6, <1>7, <2>1 DEF Unheard
    <3>2. cursor'[o] \in {b.to, cursor[o]} /\ (failed = {} => cursor'[o] = b.to)
      BY <1>1, <2>1
    <3>3. \A n \in b.to + 1..k : n \notin Events(b)
      BY <1>3, <1>6 DEF Events
    <3> QED BY <1>6, <1>7, <3>1, <3>2, <3>3
  <2>2. CASE o \notin asked
    <3>1. cursor'[o] = cursor[o]
      BY <1>1, <2>2
    <3>2. b.to < Unheard(o, b)
      BY <1>6, <1>7, <2>2 DEF Unheard
    <3>3. \A n \in cursor[o] + 1..k : n \notin Events(b)
      BY <1>3, <1>6, <1>7, <3>2 DEF Events, Unheard
    <3> QED BY <1>7, <3>1, <3>3
  <2> QED BY <2>1, <2>2
<1>19. Covered => Covered'
  <2> SUFFICES ASSUME Covered, NEW o \in Observers, NEW n \in cursor'[o] + 1..k
               PROVE  n \in Held'
    BY <1>3 DEF Covered
  <2>1. n \in Held
    <3>1. n \in cursor[o] + 1..k
      BY <1>3, <1>7, <1>18
    <3> QED BY <3>1 DEF Covered
  <2>2. CASE n \in Events(b)
    BY <1>17, <1>18, <2>2
  <2>3. CASE n \notin Events(b)
    BY <1>16, <2>1, <2>3
  <2> QED BY <2>2, <2>3
<1>20. Covers'
  BY <1>2, <1>19 DEF IInv, Covers, catchUp
<1>21. PageIsGapless'
  <2> DEFINE o == "browser-stream"
             s == shown[o]
             queue == page.queue
             far == Len(heard[o])
  <2>1. o \in Observers
    BY DEF Observers
  <2>2. /\ s \in Seq(Nat) /\ Len(s) \in Nat /\ far \in Nat
        /\ \A i \in 1..Len(s) : s[i] = far + i
        /\ Len(heard'[o]) = far + Len(s)
    BY <1>8, <1>10, <2>1 DEF IInv, HeardInOrder
  <2>3. /\ page \in [status : {"away", "open", "resync"}, cursor : Nat, queue : Seq(Nat)]
        /\ Len(queue) <= QueueLimit
        /\ page.status = "open" =>
            page.cursor + Len(queue) = far /\ \A i \in 1..Len(queue) : queue[i] = page.cursor + i
    BY DEF IInv, PageIsGapless
  <2>4. page' = IF s = <<>> THEN page ELSE Pushed(page, s)
    BY <1>9
  <2> HIDE DEF s, o
  <2>5. CASE page' = page /\ (page.status # "open" \/ s = <<>>)
    <3>1. page.status = "open" => Len(heard'[o]) = far
      BY <2>2, <2>5
    <3> QED BY <2>3, <2>5, <3>1 DEF PageIsGapless, o
  <2>6. CASE page' = [Nobody EXCEPT !.status = "resync"]
    BY <2>6, NobodyIsGapless
  <2>7. CASE /\ page.status = "open" /\ page' = [page EXCEPT !.queue = @ \o s]
             /\ Len(page.queue) + Len(s) <= QueueLimit
    <3>1. /\ queue \in Seq(Nat) /\ page.cursor \in Nat
          /\ page.cursor + Len(queue) = far
          /\ \A i \in 1..Len(queue) : queue[i] = page.cursor + i
          /\ \A i \in 1..Len(s) : s[i] = page.cursor + Len(queue) + i
      BY <2>2, <2>3, <2>7
    <3> DEFINE q == queue \o s
               c == page.cursor
    <3>2. page' = [page EXCEPT !.queue = q]
      BY <2>7
    <3>3. /\ q \in Seq(Nat) /\ Len(q) = Len(queue) + Len(s)
          /\ \A i \in 1..Len(q) : q[i] = c + i
      <4> HIDE DEF queue, c
      <4>1. /\ queue \o s \in Seq(Nat) /\ Len(queue \o s) = Len(queue) + Len(s)
            /\ \A i \in 1..Len(queue \o s) : (queue \o s)[i] = c + i
        BY <2>2, <3>1, CountsOn DEF c
      <4> QED BY <4>1
    <3> HIDE DEF q, c
    <3>4. /\ page' \in [status : {"away", "open", "resync"}, cursor : Nat, queue : Seq(Nat)]
          /\ page'.queue = q /\ page'.cursor = page.cursor /\ page'.status = "open"
      BY <2>3, <2>7, <3>2, <3>3
    <3>5. Len(q) <= QueueLimit /\ page.cursor + Len(q) = Len(heard'[o])
      <4>1. page.cursor + (Len(queue) + Len(s)) = far + Len(s)
        <5>1. Len(queue) \in Nat /\ Len(s) \in Nat
          BY <2>2, <3>1
        <5>2. \A x \in Nat : \A y \in Nat : \A z \in Nat : x + (y + z) = (x + y) + z
          OBVIOUS
        <5> HIDE DEF queue, far
        <5> QED BY <3>1, <5>1, <5>2
      <4> QED BY <2>2, <2>7, <3>3, <4>1
    <3> QED BY <3>3, <3>4, <3>5 DEF PageIsGapless, o, c
  <2>8. ~(Len(page.queue) + Len(s) > QueueLimit) => Len(page.queue) + Len(s) <= QueueLimit
    <3>1. Len(page.queue) \in Nat
      BY <2>3
    <3> QED BY <2>2, <3>1, LimitAssumption
  <2>9. \/ page' = page /\ (page.status # "open" \/ s = <<>>)
        \/ page' = [Nobody EXCEPT !.status = "resync"]
        \/ /\ page.status = "open" /\ page' = [page EXCEPT !.queue = @ \o s]
           /\ Len(page.queue) + Len(s) <= QueueLimit
    BY <2>4, <2>8, Zenon DEF Pushed
  <2> QED BY <2>5, <2>6, <2>7, <2>9
<1>22. WaiterWillBeTold'
  <2> DEFINE o == "host-wake"
             s == shown[o]
             far == Len(heard[o])
  <2>1. o \in Observers
    BY DEF Observers
  <2>2. /\ s \in Seq(Nat) /\ Len(s) \in Nat /\ far \in Nat
        /\ \A i \in 1..Len(s) : s[i] = far + i
        /\ Len(heard'[o]) = far + Len(s)
    BY <1>8, <1>10, <2>1 DEF IInv, HeardInOrder
  <2> SUFFICES ASSUME waiter \in {"checking", "asleep"}, ~hinted',
                      NEW n \in 1..Len(log), WorkAt(n)
               PROVE  n > Len(heard'[o])
    BY <1>2 DEF WaiterWillBeTold, WorkAt, disk
  <2>3. ~hinted /\ ~Hint(s)
    BY <1>9
  <2>4. n > far
    BY <2>3 DEF IInv, WaiterWillBeTold
  <2>5. log[n] = "work"
    BY DEF WorkAt
  <2> HIDE DEF s, o
  <2>6. CASE n <= far + Len(s)
    <3> DEFINE i == n - far
    <3>1. i \in 1..Len(s) /\ far + i = n
      BY <1>3, <2>2, <2>4, <2>6
    <3> HIDE DEF i
    <3>2. s[i] = n /\ i \in DOMAIN s
      BY <2>2, <3>1
    <3>3. Hint(s)
      BY <2>5, <3>2 DEF Hint
    <3> QED BY <2>3, <3>3
  <2>7. CASE ~(n <= far + Len(s))
    BY <1>3, <2>2, <2>7
  <2> QED BY <2>6, <2>7
<1> QED BY <1>11, <1>12, <1>14, <1>15, <1>20, <1>21, <1>22 DEF IInv

-----------------------------------------------------------------------------
(* The invariant, and what it gives.                                       *)

LEMMA InitGood == Init => IInv
<1> SUFFICES ASSUME Init PROVE IInv
  OBVIOUS
<1>1. Len(log) = 0 /\ log \in Seq(Kinds)
  BY DEF Init
<1>2. Shape
  <2>1. Len(log) <= MaxEvents /\ ends \subseteq 1..Len(log)
    BY <1>1, BoundAssumption DEF Init
  <2> QED BY <1>1, <2>1 DEF Init, Shape
<1>3. DeliversTheLog
  <2>1. NoBatch \in Of(Len(log))
    BY <1>1, NoBatchIsEmpty
  <2>2. todo \in Seq(Handing(Len(log)))
    BY DEF Init
  <2> QED BY <1>1, <2>1, <2>2 DEF Init, DeliversTheLog
<1>4. HeardInOrder
  <2>1. \A o \in Observers : Len(heard[o]) = 0
    BY DEF Init
  <2>2. cursor \in [Observers -> 0..Len(log)] /\ heard \in [Observers -> Seq(Nat)]
    BY <1>1 DEF Init
  <2> QED BY <1>1, <2>1, <2>2 DEF HeardInOrder
<1>5. LocksAreHeld /\ Covers /\ WaiterWillBeTold
  BY DEF Init, LocksAreHeld, Covers, WaiterWillBeTold
<1>6. PageIsGapless
  <2>1. \A q \in Seq(Nat) : [status |-> "away", cursor |-> 0, queue |-> q]
            \in [status : {"away", "open", "resync"}, cursor : Nat, queue : Seq(Nat)]
    OBVIOUS
  <2>2. <<>> \in Seq(Nat)
    OBVIOUS
  <2>3. page = [status |-> "away", cursor |-> 0, queue |-> <<>>]
    BY DEF Init, Nobody
  <2>4. page \in [status : {"away", "open", "resync"}, cursor : Nat, queue : Seq(Nat)]
    BY <2>1, <2>2, <2>3, Zenon
  <2>5. page.status # "open" /\ Len(page.queue) = 0
    BY <2>3
  <2> QED BY <2>4, <2>5, LimitAssumption DEF PageIsGapless
<1> QED BY <1>2, <1>3, <1>4, <1>5, <1>6 DEF IInv

LEMMA StepGood == IInv /\ [Next]_vars => IInv'
<1> SUFFICES ASSUME IInv, [Next]_vars PROVE IInv'
  OBVIOUS
<1>1. ASSUME NEW t \in Threads,
             Begin(t) \/ Publish(t) \/ Deliveries(t) \/ FailToCommit(t)
      PROVE  IInv'
  BY <1>1, BeginKeeps, PublishKeeps, ScanKeeps, CommitKeeps, RepeatKeeps, HandKeeps,
     LeaveKeeps, FailToCommitKeeps DEF Deliveries
<1>2. ASSUME NEW after \in 0..Len(log), Subscribe(after) PROVE IInv'
  BY <1>2, SubscribeKeeps
<1>3. ASSUME NEW n \in DOMAIN page.queue, Read(n) PROVE IInv'
  BY <1>3, ReadKeeps
<1>4. CASE Disconnect
  BY <1>4, DisconnectKeeps
<1>5. CASE Look \/ ReadWork \/ Sleep \/ Wake
  BY <1>5, WaitingKeeps
<1>6. CASE Restart
  BY <1>6, RestartKeeps
<1>7. CASE UNCHANGED vars
  <2>1. Shape' /\ DeliversTheLog' /\ HeardInOrder' /\ LocksAreHeld'
    BY <1>7 DEF vars, IInv, Shape, DeliversTheLog, HeardInOrder, LocksAreHeld, disk, catchUp,
                dispatcher, observers
  <2>2. Covers'
    BY <1>7 DEF vars, IInv, Covers, Covered, Held, disk, catchUp, dispatcher, observers
  <2>3. PageIsGapless' /\ WaiterWillBeTold'
    BY <1>7 DEF vars, IInv, PageIsGapless, WaiterWillBeTold, WorkAt, disk, observers
  <2> QED BY <2>1, <2>2, <2>3 DEF IInv
<1> QED BY <1>1, <1>2, <1>3, <1>4, <1>5, <1>6, <1>7, Zenon DEF Next

LEMMA InvHolds == FairSpec => []IInv
  BY InitGood, StepGood, PTL DEF FairSpec

\* Once the disk is taken for delivered, whatever some observer was not shown is
\* still held by an operation, the dispatcher or its retries: no failed scan, no
\* failed commit, no gap and no observer that fails makes the process forget an
\* event (coordinator._durable_catch_up, dispatch.publish_facts, _remember_retry).
THEOREM NothingIsLost == FairSpec => []NothingIsForgotten
<1>1. IInv => NothingIsForgotten
  BY DEF IInv, Covers, Covered, NothingIsForgotten
<1> QED BY <1>1, InvHolds, PTL

LEMMA InvIsTyped ==
    ASSUME IInv
    PROVE  TypeOK
<1>1. Len(log) \in Nat /\ Len(log) <= MaxEvents /\ Of(Len(log)) \subseteq Batches
  BY OfIsBatches DEF IInv, Shape
<1>2. log \in Seq(Kinds) /\ ends \subseteq DOMAIN log
  BY DEF IInv, Shape
<1>3. \A i \in DOMAIN todo : todo[i].batch \in Batches
  <2> SUFFICES ASSUME NEW i \in DOMAIN todo PROVE todo[i].batch \in Batches
    OBVIOUS
  <2>1. todo[i] \in Handing(Len(log))
    BY DEF IInv, DeliversTheLog
  <2> QED BY <1>1, <2>1 DEF Handing
<1>4. facts \in [Threads -> Batches] /\ retry \subseteq Batches
  BY <1>1 DEF IInv, DeliversTheLog
<1>5. expected \in 1..MaxEvents + 1 /\ buffered \subseteq 1..MaxEvents
  <2>1. expected \in 1..Len(log) + 1 /\ buffered \subseteq 1..Len(log)
    BY DEF IInv, DeliversTheLog
  <2>2. 1..Len(log) + 1 \subseteq 1..MaxEvents + 1 /\ 1..Len(log) \subseteq 1..MaxEvents
    BY <1>1, BoundAssumption
  <2> QED BY <2>1, <2>2
<1>6. cursor \in [Observers -> 0..MaxEvents]
  <2>1. 0..Len(log) \subseteq 0..MaxEvents
    BY <1>1, BoundAssumption
  <2> QED BY <2>1 DEF IInv, HeardInOrder
<1>7. page.status \in {"away", "open", "resync"} /\ Len(page.queue) <= QueueLimit
  BY DEF IInv, PageIsGapless
<1> QED BY <1>2, <1>3, <1>4, <1>5, <1>6, <1>7 DEF IInv, Shape, TypeOK

\* A connected page can read exactly the events after its cursor, whatever was
\* replayed, repeated or refused on the way, for a queue of any size: an overflow
\* closes the subscription and never shortens it (public_stream.on_batch, subscribe).
THEOREM SubscriptionsHaveNoGap == FairSpec => []SubscriptionIsGapless
<1>1. ASSUME IInv, page.status = "open"
      PROVE  page.queue = Numbers(page.cursor + 1, Through)
  <2> DEFINE far == Len(heard["browser-stream"])
             queue == page.queue
             c == page.cursor
  <2>1. /\ queue \in Seq(Nat) /\ c \in Nat /\ c + Len(queue) = far
        /\ \A i \in 1..Len(queue) : queue[i] = c + i
    BY <1>1 DEF IInv, PageIsGapless
  <2>2. Through = far /\ far \in Nat
    BY <1>1, LatestIsLength DEF IInv, Through, Observers
  <2> HIDE DEF far, queue, c
  <2>3. Len(queue) \in Nat /\ far - c = Len(queue) /\ c <= far
    BY <2>1, <2>2
  <2>4. /\ Numbers(c + 1, far) \in Seq(Nat) /\ Len(Numbers(c + 1, far)) = far - c
        /\ \A i \in 1..far - c : Numbers(c + 1, far)[i] = c + i
    BY <2>1, <2>2, <2>3, NumbersAre
  <2>5. queue = Numbers(c + 1, far)
    <3> DEFINE s == Numbers(c + 1, far)
    <3>1. s \in Seq(Nat) /\ Len(s) = Len(queue) /\ \A i \in 1..Len(queue) : s[i] = queue[i]
      BY <2>1, <2>3, <2>4
    <3> HIDE DEF s
    <3>2. queue = s
      BY <2>1, <3>1, SeqEqual
    <3> QED BY <3>2 DEF s
  <2> QED BY <2>2, <2>5 DEF queue, c
<1>2. IInv => SubscriptionIsGapless
  BY <1>1, InvIsTyped DEF SubscriptionIsGapless
<1> QED BY <1>2, InvHolds, PTL

\* A Host that falls asleep while there is work has not been told of it and will
\* be: between the count of the hints, the look at the log and the sleep no hint is
\* missed (host_control.wait, work_wake.on_batch).
THEOREM NoWorkIsSleptThrough == FairSpec => []SleeperWillBeTold
<1>1. IInv => Latest(heard["host-wake"]) = Len(heard["host-wake"])
  BY LatestIsLength DEF IInv, Observers
<1>2. IInv => SleeperWillBeTold
  BY <1>1 DEF IInv, Shape, WaiterWillBeTold, SleeperWillBeTold
<1> QED BY <1>2, InvHolds, PTL

-----------------------------------------------------------------------------
(* The steps of Feed.                                                      *)

\* What an observer has heard is the log up to there.
LEMMA HeardIsFirst ==
    ASSUME NEW s \in Seq(Nat), \A i \in 1..Len(s) : s[i] = i
    PROVE  s = Shown!First(Len(s))
<1> DEFINE f == Shown!First(Len(s))
<1>1. f \in Seq(Nat) /\ Len(f) = Len(s) /\ \A i \in 1..Len(s) : s[i] = f[i]
  BY DEF Shown!First
<1> HIDE DEF f
<1>2. s = f
  BY <1>1, SeqEqual
<1> QED BY <1>2 DEF f

LEMMA HandShows ==
    ASSUME IInv, IInv', NEW t \in Threads, Hand(t)
    PROVE  Shown!Show
<1>1. Len(log) \in Nat /\ Len(log') = Len(log)
  BY DEF Hand, disk, IInv, Shape
<1>2. PICK takers, b : b \in Of(Len(log)) /\ Take(takers, b)
  <2>1. Head(todo).batch \in Of(Len(log))
    <3> DEFINE X == Handing(Len(log))
    <3>1. todo \in Seq(X) /\ todo # <<>>
      BY DEF Hand, IInv, DeliversTheLog
    <3> HIDE DEF X
    <3>2. Head(todo) \in X
      BY <3>1
    <3> QED BY <3>2 DEF X, Handing
  <2> QED BY <2>1 DEF Hand
<1> DEFINE upto == [o \in Observers |-> Len(heard'[o])]
<1>3. \A o \in Observers :
          /\ heard[o] \in Seq(Nat) /\ heard'[o] \in Seq(Nat)
          /\ Len(heard'[o]) \in 0..Len(log)
          /\ \A i \in 1..Len(heard'[o]) : heard'[o][i] = i
  BY <1>1 DEF IInv, HeardInOrder
<1>4. ASSUME NEW o \in Observers PROVE upto[o] >= Len(heard[o])
  <2>1. PICK s : heard'[o] = heard[o] \o s /\ (s = <<>> \/ s = Taken(o, b))
    BY <1>2 DEF Take
  <2>2. s \in Seq(Nat)
    <3>1. Taken(o, b) \in Seq(Nat)
      <4>1. HeardInOrder
        BY DEF IInv
      <4> QED BY <1>1, <1>2, <4>1, TakenFollows
    <3>2. <<>> \in Seq(Nat)
      OBVIOUS
    <3> QED BY <2>1, <3>1, <3>2, Zenon
  <2>3. Len(heard[o] \o s) = Len(heard[o]) + Len(s) /\ Len(s) \in Nat /\ Len(heard[o]) \in Nat
    BY <1>3, <2>2
  <2> QED BY <2>1, <2>3
<1>5. heard' = [o \in Observers |-> Shown!First(upto[o])]
  <2>1. heard' \in [Observers -> Seq(Nat)]
    BY DEF IInv, HeardInOrder
  <2>2. \A o \in Observers : heard'[o] = Shown!First(upto[o])
    BY <1>3, HeardIsFirst
  <2> QED BY <2>1, <2>2, Zenon
<1>6. upto \in [Observers -> 0..Len(log)]
  BY <1>3
<1> HIDE DEF upto
<1> QED BY <1>1, <1>4, <1>5, <1>6 DEF Shown!Show

LEMMA CommitGrows ==
    ASSUME IInv, NEW t \in Threads, Commit(t)
    PROVE  \E n \in 1..2 : Shown!Grow(n)
<1>1. PICK tx \in Transactions : Committed(tx)
  BY DEF Commit
<1>2. Len(log') = Len(log) + Len(tx) /\ Len(tx) \in 1..2
  BY <1>1, CommittedGrows
<1>3. heard' = heard
  BY DEF Commit, observers
<1> QED BY <1>2, <1>3 DEF Shown!Grow

LEMMA StepShows ==
    ASSUME IInv, IInv', [Next]_vars
    PROVE  [Shown!Next]_(Shown!feed)
<1> DEFINE Same == UNCHANGED <<log, heard>>
<1>1. Same => [Shown!Next]_(Shown!feed)
  BY DEF Shown!feed
<1>2. ASSUME NEW t \in Threads, Begin(t) \/ Publish(t) \/ FailToCommit(t) \/ Scan(t)
                                \/ Repeat(t) \/ Leave(t)
      PROVE  Same
  <2>1. CASE Begin(t)
    BY <2>1 DEF Begin, disk, observers
  <2>2. CASE Publish(t)
    BY <2>2, Zenon DEF Publish, disk, observers
  <2>3. CASE FailToCommit(t) \/ Scan(t) \/ Repeat(t) \/ Leave(t)
    BY <2>3 DEF FailToCommit, Scan, Repeat, Leave, disk, observers
  <2> QED BY <1>2, <2>1, <2>2, <2>3
<1>3. ASSUME NEW t \in Threads, Commit(t) PROVE Shown!Next
  BY <1>3, CommitGrows DEF Shown!Next
<1>4. ASSUME NEW t \in Threads, Hand(t) PROVE Shown!Next
  BY <1>4, HandShows DEF Shown!Next
<1>5. ASSUME NEW after \in 0..Len(log), Subscribe(after) PROVE Same
  BY <1>5 DEF Subscribe, disk, observers
<1>6. ASSUME NEW n \in DOMAIN page.queue, Read(n) PROVE Same
  BY <1>6 DEF Read, disk, observers
<1>7. CASE Disconnect \/ Look \/ ReadWork \/ Sleep \/ Wake
  BY <1>1, <1>7 DEF Disconnect, Look, ReadWork, Sleep, Wake, Waits, disk, observers
<1>8. CASE Restart
  BY <1>8 DEF Restart, disk, Shown!Next, Shown!Restart
<1>9. CASE UNCHANGED vars
  BY <1>1, <1>9 DEF vars, disk, observers
<1> HIDE DEF Same
<1> QED BY <1>1, <1>2, <1>3, <1>4, <1>5, <1>6, <1>7, <1>8, <1>9, Zenon DEF Next, Deliveries

\* The safety part of IsFeed: whatever fails, is repeated or arrives late, every
\* observer of the running process is shown the log from its first event on, in
\* order, nothing twice and nothing left out (observer._publish_serial,
\* _unseen_contiguous).
THEOREM ObserversFollowTheFeed == FairSpec => Shown!Init /\ [][Shown!Next]_(Shown!feed)
<1>1. Init => Shown!Init
  <2>1. Len(<<>>) = 0
    OBVIOUS
  <2> QED BY <2>1 DEF Init, Shown!Init
<1>2. IInv /\ IInv' /\ [Next]_vars => [Shown!Next]_(Shown!feed)
  BY StepShows
<1> QED BY <1>1, <1>2, InvHolds, PTL DEF FairSpec

===============================================================================
