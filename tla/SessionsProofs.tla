----------------------------- MODULE SessionsProofs -----------------------------
(***************************************************************************)
(* The registry first: what it decides it also accepts when it is          *)
(* replayed, and a transaction it accepts leaves a registry it can load.   *)
(* Then the Sessions: whatever operations are interrupted, and wherever,   *)
(* the registry can be loaded, recovery accepts what is on the disk of     *)
(* every earlier Session, and one Session at most has work for a Host.     *)
(***************************************************************************)
EXTENDS Sessions, TLAPS


AnyCommand ==
    [type : {"create"}, target : Sessions]
    \cup [type : {"begin"}, source : Sessions, target : Sessions]
    \cup [type : {"complete"}, handoff : Handoff, last : Nat]

Events ==
    [type : {"DialogueCreated"}, target : Sessions, generation : Nat]
    \cup [type : {"DeactivationStarted"}, handoff : Handoff, generation : Nat]
    \cup [type : {"Deactivated"}, handoff : Handoff, last : Nat, generation : Nat]
    \cup [type : {"Activated"}, target : Sessions, kind : Kinds, generation : Nat]

\* The four kinds of transaction.
Creation(r, t) == <<DialogueCreated(t, r.generation), Activated(t, Fence(r), "initial")>>
NewFence(r, h) == <<DialogueCreated(h.target, r.generation), DeactivationStarted(h)>>
OldFence(h) == <<DeactivationStarted(h)>>
Completion(h, last) == <<Deactivated(h, last), Activated(h.target, h.generation, "handoff")>>

LEMMA NoHandoffIsNone == NoHandoff \notin Handoff
  BY NoneIsNoSession DEF NoHandoff, Handoff

LEMMA Typed ==
    ASSUME NEW r \in Registries
    PROVE  /\ r.generation \in Nat /\ Fence(r) \in Nat
           /\ r.current \in Sessions \cup {None}
           /\ r.pending \in Handoff \cup {NoHandoff}
           /\ r.status \in [Sessions -> Statuses]
           /\ r.activated \in [Sessions -> Nat]
           /\ r.deactivated \in [Sessions -> Nat]
           /\ r.proof \in [Sessions -> Nat]
  BY DEF Registries, Fence

\* What decide answers to CreateAndActivateDialogue passes validate_transaction.
LEMMA CreateIsValid ==
    ASSUME NEW r \in Registries, NEW t \in Sessions, DecideCreate(r, t) # <<>>
    PROVE  ValidTransaction(r, DecideCreate(r, t))
<1> DEFINE events == <<DialogueCreated(t, r.generation), Activated(t, Fence(r), "initial")>>
<1>1. r.current = None /\ r.pending = NoHandoff /\ ~ Known(r, t) /\ DecideCreate(r, t) = events
  BY DEF DecideCreate
<1>2. events[1].type = "DialogueCreated" /\ events[1].target = t /\ events[1].generation = r.generation
  BY DEF DialogueCreated
<1>3. /\ events[2].type = "Activated" /\ events[2].target = t
      /\ events[2].generation = Fence(r) /\ events[2].kind = "initial"
  BY DEF Activated
<1>4. Len(events) = 2 /\ DOMAIN events = 1 .. 2
  OBVIOUS
<1> HIDE DEF events
<1>5. ValidGeneration(r, events[1]) /\ ValidGeneration(r, events[2])
  BY <1>2, <1>3 DEF ValidGeneration
<1>6. [i \in DOMAIN events |-> events[i].type] = <<"DialogueCreated", "Activated">>
  BY <1>2, <1>3, <1>4
<1>7. ValidShape(r, events)
  BY <1>1, <1>2, <1>3, <1>4, <1>6 DEF ValidShape
<1> QED
  BY <1>1, <1>4, <1>5, <1>7 DEF ValidTransaction

\* The same of BeginHandoff, to a new Session or to one that was prepared.
LEMMA BeginIsValid ==
    ASSUME NEW r \in Registries, NEW source \in Sessions, NEW t \in Sessions,
           DecideBegin(r, source, t) # <<>>
    PROVE  ValidTransaction(r, DecideBegin(r, source, t))
<1> DEFINE h == [source |-> source, target |-> t, generation |-> Fence(r)]
           start == DeactivationStarted(h)
           create == DialogueCreated(t, r.generation)
<1>1. /\ r.pending = NoHandoff /\ r.current = source /\ r.status[source] = "active"
      /\ r.status[t] \in {"unknown", "created"}
      /\ r.status[t] = "unknown" => DecideBegin(r, source, t) = <<create, start>>
      /\ r.status[t] = "created" => DecideBegin(r, source, t) = <<start>>
  BY Typed DEF DecideBegin, Statuses
<1>2. /\ start.type = "DeactivationStarted" /\ start.handoff = h
      /\ start.generation = Fence(r)
  BY DEF DeactivationStarted
<1>3. create.type = "DialogueCreated" /\ create.target = t /\ create.generation = r.generation
  BY DEF DialogueCreated
<1>4. ValidGeneration(r, start) /\ ValidGeneration(r, create)
  BY <1>2, <1>3 DEF ValidGeneration
<1>5. MayBegin(r, h)
  BY <1>1 DEF MayBegin
<1>6. h.target = t
  OBVIOUS
<1> HIDE DEF start, create, h
<1>7. CASE r.status[t] = "unknown"
  <2> DEFINE events == <<create, start>>
  <2>1. Len(events) = 2 /\ DOMAIN events = 1 .. 2 /\ events[1] = create /\ events[2] = start
    OBVIOUS
  <2> HIDE DEF events
  <2>2. [i \in DOMAIN events |-> events[i].type] = <<"DialogueCreated", "DeactivationStarted">>
    BY <1>2, <1>3, <2>1
  <2>3. ValidShape(r, events)
    BY <1>2, <1>3, <1>5, <1>6, <1>7, <2>1, <2>2 DEF ValidShape, Known
  <2> QED
    BY <1>1, <1>4, <1>7, <2>1, <2>3 DEF ValidTransaction, events
<1>8. CASE r.status[t] = "created"
  <2> DEFINE events == <<start>>
  <2>1. Len(events) = 1 /\ DOMAIN events = 1 .. 1 /\ events[1] = start
    OBVIOUS
  <2> HIDE DEF events
  <2>2. [i \in DOMAIN events |-> events[i].type] = <<"DeactivationStarted">>
    BY <1>2, <2>1
  <2>3. ValidShape(r, events)
    BY <1>2, <1>5, <1>6, <1>8, <2>1, <2>2 DEF ValidShape
  <2> QED
    BY <1>1, <1>4, <1>8, <2>1, <2>3 DEF ValidTransaction, events
<1> QED
  BY <1>1, <1>7, <1>8

\* The same of CompleteHandoff; the pending handoff has the registry's generation, as _validate_state
\* demands.
LEMMA CompleteIsValid ==
    ASSUME NEW r \in Registries, ValidState(r), NEW h \in Handoff, NEW last \in Nat,
           DecideComplete(r, h, last) # <<>>
    PROVE  ValidTransaction(r, DecideComplete(r, h, last))
<1> DEFINE end == Deactivated(h, last)
           start == Activated(h.target, h.generation, "handoff")
           events == <<end, start>>
<1>1. r.pending # NoHandoff /\ h = r.pending /\ DecideComplete(r, h, last) = events
  BY DEF DecideComplete
<1>2. h.generation = r.generation
  BY <1>1 DEF ValidState
<1>3. end.type = "Deactivated" /\ end.handoff = h /\ end.generation = h.generation
  BY DEF Deactivated
<1>4. /\ start.type = "Activated" /\ start.target = h.target /\ start.kind = "handoff"
      /\ start.generation = h.generation
  BY DEF Activated
<1>5. ValidGeneration(r, end) /\ ValidGeneration(r, start)
  BY <1>2, <1>3, <1>4 DEF ValidGeneration
<1> HIDE DEF end, start
<1>6. Len(events) = 2 /\ DOMAIN events = 1 .. 2 /\ events[1] = end /\ events[2] = start
  OBVIOUS
<1> HIDE DEF events
<1>7. [i \in DOMAIN events |-> events[i].type] = <<"Deactivated", "Activated">>
  BY <1>3, <1>4, <1>6
<1>8. ValidShape(r, events)
  BY <1>1, <1>3, <1>4, <1>6, <1>7 DEF ValidShape
<1> QED
  BY <1>1, <1>5, <1>6, <1>8 DEF ValidTransaction

\* Whatever decide accepts in a registry that can be loaded, validate_transaction accepts when the log
\* is replayed: no commit makes the learner's registry unreadable.
THEOREM DecisionsAreValid ==
    ASSUME NEW r \in Registries, ValidState(r), NEW c \in AnyCommand, Decide(r, c) # <<>>
    PROVE  ValidTransaction(r, Decide(r, c))
<1>1. CASE c \in [type : {"create"}, target : Sessions]
  BY <1>1, CreateIsValid DEF Decide
<1>2. CASE c \in [type : {"begin"}, source : Sessions, target : Sessions]
  BY <1>2, BeginIsValid DEF Decide
<1>3. CASE c \in [type : {"complete"}, handoff : Handoff, last : Nat]
  BY <1>3, CompleteIsValid DEF Decide
<1> QED
  BY <1>1, <1>2, <1>3 DEF AnyCommand

-----------------------------------------------------------------------------
\* The four shapes of a valid transaction, with what each demands of the registry.
LEMMA Shapes ==
    ASSUME NEW r \in Registries, NEW events \in Seq(Events), ValidTransaction(r, events)
    PROVE  \/ \E t \in Sessions :
                /\ r.current = None /\ r.pending = NoHandoff /\ ~ Known(r, t)
                /\ events = Creation(r, t)
           \/ \E h \in Handoff : MayBegin(r, h) /\ ~ Known(r, h.target) /\ events = NewFence(r, h)
           \/ \E h \in Handoff :
                MayBegin(r, h) /\ r.status[h.target] = "created" /\ events = OldFence(h)
           \/ \E last \in Nat : r.pending # NoHandoff /\ events = Completion(r.pending, last)
<1> DEFINE types == [i \in DOMAIN events |-> events[i].type]
           first == events[1]
           last == events[Len(events)]
<1>1. /\ ValidShape(r, events)
      /\ \A i \in DOMAIN events : ValidGeneration(r, events[i]) /\ events[i] \in Events
  BY DEF ValidTransaction
<1>2. DOMAIN types = DOMAIN events /\ DOMAIN events = 1 .. Len(events) /\ Len(events) \in Nat
  OBVIOUS
<1>3. \A i \in DOMAIN events : types[i] = events[i].type
  OBVIOUS
<1>4. \A e \in Events :
        /\ e.type = "DialogueCreated" => e.target \in Sessions /\ e = DialogueCreated(e.target, e.generation)
        /\ e.type = "DeactivationStarted" =>
              e.handoff \in Handoff /\ e = [type |-> "DeactivationStarted", handoff |-> e.handoff, generation |-> e.generation]
        /\ e.type = "Deactivated" =>
              /\ e.last \in Nat
              /\ e = [type |-> "Deactivated", handoff |-> e.handoff, last |-> e.last, generation |-> e.generation]
        /\ e.type = "Activated" => e = Activated(e.target, e.generation, e.kind)
  BY DEF Events, DialogueCreated, Activated
<1>5. CASE types = <<"DialogueCreated", "Activated">>
  <2>1. Len(events) = 2 /\ first.type = "DialogueCreated" /\ last.type = "Activated"
    BY <1>2, <1>3, <1>5
  <2>2. /\ last.kind = "initial" /\ last.target = first.target /\ last.generation = Fence(r)
        /\ r.current = None /\ r.pending = NoHandoff /\ ~ Known(r, first.target)
    BY <1>1, <1>5 DEF ValidShape
  <2>3. first.generation = r.generation
    BY <1>1, <1>2, <2>1 DEF ValidGeneration
  <2>4. events = <<first, last>>
    BY <2>1
  <2> QED
    BY <1>1, <1>2, <1>4, <2>1, <2>2, <2>3, <2>4 DEF Creation
<1>6. CASE types = <<"DialogueCreated", "DeactivationStarted">>
  <2>1. Len(events) = 2 /\ first.type = "DialogueCreated" /\ last.type = "DeactivationStarted"
    BY <1>2, <1>3, <1>6
  <2>2. /\ first.target = last.handoff.target /\ ~ Known(r, first.target)
        /\ MayBegin(r, last.handoff)
    BY <1>1, <1>6 DEF ValidShape
  <2>3. first.generation = r.generation /\ last.generation = last.handoff.generation
    BY <1>1, <1>2, <2>1, <2>2 DEF ValidGeneration, MayBegin
  <2>4. events = <<first, last>>
    BY <2>1
  <2>5. last = DeactivationStarted(last.handoff) /\ last.handoff \in Handoff
    BY <1>1, <1>2, <1>4, <2>1, <2>3 DEF DeactivationStarted
  <2> QED
    BY <1>1, <1>2, <1>4, <2>1, <2>2, <2>3, <2>4, <2>5 DEF NewFence
<1>7. CASE types = <<"DeactivationStarted">>
  <2>1. Len(events) = 1 /\ first.type = "DeactivationStarted"
    BY <1>2, <1>3, <1>7
  <2>2. r.status[first.handoff.target] = "created" /\ MayBegin(r, first.handoff)
    BY <1>1, <1>7 DEF ValidShape
  <2>3. first.generation = first.handoff.generation
    BY <1>1, <1>2, <2>1, <2>2 DEF ValidGeneration, MayBegin
  <2>4. events = <<first>>
    BY <2>1
  <2>5. first = DeactivationStarted(first.handoff) /\ first.handoff \in Handoff
    BY <1>1, <1>2, <1>4, <2>1, <2>3 DEF DeactivationStarted
  <2> QED
    BY <2>2, <2>4, <2>5 DEF OldFence
<1>8. CASE types = <<"Deactivated", "Activated">>
  <2>1. Len(events) = 2 /\ first.type = "Deactivated" /\ last.type = "Activated"
    BY <1>2, <1>3, <1>8
  <2>2. /\ r.pending # NoHandoff /\ first.handoff = r.pending
        /\ last.kind = "handoff" /\ last.target = r.pending.target
        /\ last.generation = r.pending.generation
    BY <1>1, <1>8 DEF ValidShape
  <2>3. first.generation = r.generation /\ last.generation = r.generation
    BY <1>1, <1>2, <2>1, <2>2 DEF ValidGeneration
  <2>4. events = <<first, last>>
    BY <2>1
  <2>5. first = Deactivated(r.pending, first.last) /\ first.last \in Nat
    BY <1>1, <1>2, <1>4, <2>1, <2>2, <2>3 DEF Deactivated
  <2>6. last = Activated(r.pending.target, r.pending.generation, "handoff")
    BY <1>1, <1>2, <1>4, <2>1, <2>2
  <2> QED
    BY <2>2, <2>4, <2>5, <2>6 DEF Completion
<1> QED
  BY <1>1, <1>5, <1>6, <1>7, <1>8 DEF ValidShape

LEMMA RegistrationRule ==
    ASSUME NEW r \in Registries, NEW s \in Sessions
    PROVE  ValidRegistration(r, s) <=>
            /\ r.status[s] \in {"unknown", "created"} => r.activated[s] = 0 /\ r.deactivated[s] = 0
            /\ r.status[s] = "active" =>
                  r.activated[s] > 0 /\ r.activated[s] <= r.generation /\ r.deactivated[s] = 0
            /\ r.status[s] = "deactivating" =>
                  r.activated[s] > 0 /\ r.activated[s] < r.generation /\ r.deactivated[s] = 0
            /\ r.status[s] = "deactivated" =>
                  /\ r.activated[s] > 0 /\ r.activated[s] < r.deactivated[s]
                  /\ r.deactivated[s] <= r.generation
<1>1. r.status[s] \in Statuses /\ r.activated[s] \in Nat /\ r.deactivated[s] \in Nat /\ r.generation \in Nat
  BY Typed
<1>2. CASE r.status[s] \in {"unknown", "created"}
  BY <1>1, <1>2 DEF ValidRegistration
<1>3. CASE r.status[s] = "active"
  BY <1>1, <1>3 DEF ValidRegistration
<1>4. CASE r.status[s] = "deactivating"
  BY <1>1, <1>4 DEF ValidRegistration
<1>5. CASE r.status[s] = "deactivated"
  BY <1>1, <1>5 DEF ValidRegistration
<1> QED
  BY <1>1, <1>2, <1>3, <1>4, <1>5 DEF Statuses

\* The registry after each kind of transaction.
AfterCreation(r, t, q) ==
    /\ q \in Registries
    /\ q.generation = Fence(r) /\ q.current = t /\ q.pending = NoHandoff
    /\ q.status = [r.status EXCEPT ![t] = "active"]
    /\ q.activated = [r.activated EXCEPT ![t] = Fence(r)]
    /\ q.deactivated = r.deactivated /\ q.proof = r.proof

AfterFence(r, h, q) ==
    /\ q \in Registries
    /\ q.generation = h.generation /\ q.current = r.current /\ q.pending = h
    /\ q.status = [[r.status EXCEPT ![h.target] = "created"] EXCEPT ![h.source] = "deactivating"]
    /\ q.activated = r.activated /\ q.deactivated = r.deactivated /\ q.proof = r.proof

AfterCompletion(r, h, last, q) ==
    /\ q \in Registries
    /\ q.generation = h.generation /\ q.current = h.target /\ q.pending = NoHandoff
    /\ q.status = [[r.status EXCEPT ![h.source] = "deactivated"] EXCEPT ![h.target] = "active"]
    /\ q.activated = [r.activated EXCEPT ![h.target] = h.generation]
    /\ q.deactivated = [r.deactivated EXCEPT ![h.source] = h.generation]
    /\ q.proof = [r.proof EXCEPT ![h.source] = last]

LEMMA CreationEffect ==
    ASSUME NEW r \in Registries, NEW t \in Sessions
    PROVE  AfterCreation(r, t, Reduced(r, Creation(r, t)))
<1> DEFINE a == Applied(r, DialogueCreated(t, r.generation))
           q == Reduced(r, Creation(r, t))
<1>1. q = Applied(a, Activated(t, Fence(r), "initial"))
  BY DEF Reduced, Creation
<1>2. a \in Registries /\ a = [r EXCEPT !.status[t] = "created"]
  BY DEF Applied, DialogueCreated, Registries, Statuses
<1> HIDE DEF a, q
<1>3. q = [a EXCEPT !.generation = Fence(r), !.current = t, !.pending = NoHandoff,
                    !.status[t] = "active", !.activated[t] = Fence(r)]
  BY <1>1 DEF Applied, Activated
<1>4. AfterCreation(r, t, q)
  BY <1>2, <1>3, Typed DEF Registries, Statuses, AfterCreation
<1> QED
  BY <1>4 DEF q

LEMMA FenceEffect ==
    ASSUME NEW r \in Registries, NEW h \in Handoff
    PROVE  /\ AfterFence(r, h, Reduced(r, NewFence(r, h)))
           /\ r.status[h.target] = "created" => AfterFence(r, h, Reduced(r, OldFence(h)))
<1>1. h.source \in Sessions /\ h.target \in Sessions /\ h.generation \in Nat
  BY DEF Handoff
<1>2. ASSUME NEW a \in Registries, a = [r EXCEPT !.status[h.target] = "created"]
      PROVE  AfterFence(r, h, Applied(a, DeactivationStarted(h)))
  <2> DEFINE q == Applied(a, DeactivationStarted(h))
  <2>1. q = [a EXCEPT !.generation = h.generation, !.pending = h, !.status[h.source] = "deactivating"]
    BY DEF Applied, DeactivationStarted
  <2> HIDE DEF q
  <2>2. AfterFence(r, h, q)
    BY <1>1, <1>2, <2>1, Typed DEF Registries, Statuses, AfterFence
  <2> QED
    BY <2>2 DEF q
<1>3. AfterFence(r, h, Reduced(r, NewFence(r, h)))
  <2> DEFINE a == Applied(r, DialogueCreated(h.target, r.generation))
  <2>1. Reduced(r, NewFence(r, h)) = Applied(a, DeactivationStarted(h))
    BY DEF Reduced, NewFence
  <2>2. a = [r EXCEPT !.status[h.target] = "created"]
    BY DEF Applied, DialogueCreated
  <2> HIDE DEF a
  <2>3. a \in Registries
    BY <1>1, <2>2, Typed DEF Registries, Statuses
  <2> QED
    BY <1>2, <2>1, <2>2, <2>3
<1>4. r.status[h.target] = "created" => AfterFence(r, h, Reduced(r, OldFence(h)))
  <2>1. Reduced(r, OldFence(h)) = Applied(r, DeactivationStarted(h))
    BY DEF Reduced, OldFence
  <2>2. r.status[h.target] = "created" => r = [r EXCEPT !.status[h.target] = "created"]
    BY Typed DEF Registries
  <2> QED
    BY <1>2, <2>1, <2>2
<1> QED
  BY <1>3, <1>4

LEMMA CompletionEffect ==
    ASSUME NEW r \in Registries, NEW h \in Handoff, NEW last \in Nat
    PROVE  AfterCompletion(r, h, last, Reduced(r, Completion(h, last)))
<1> DEFINE a == Applied(r, Deactivated(h, last))
           q == Reduced(r, Completion(h, last))
<1>1. h.source \in Sessions /\ h.target \in Sessions /\ h.generation \in Nat
  BY DEF Handoff
<1>2. q = Applied(a, Activated(h.target, h.generation, "handoff"))
  BY DEF Reduced, Completion
<1>3. a = [r EXCEPT !.current = None, !.status[h.source] = "deactivated",
                    !.deactivated[h.source] = h.generation, !.proof[h.source] = last]
  BY DEF Applied, Deactivated
<1> HIDE DEF a, q
<1>4. /\ a.current = None /\ a.generation = r.generation /\ a.pending = r.pending
      /\ a.status = [r.status EXCEPT ![h.source] = "deactivated"] /\ a.activated = r.activated
      /\ a.deactivated = [r.deactivated EXCEPT ![h.source] = h.generation]
      /\ a.proof = [r.proof EXCEPT ![h.source] = last]
  BY <1>3 DEF Registries
<1>5. a \in Registries
  <2>1. /\ a.status \in [Sessions -> Statuses] /\ a.activated \in [Sessions -> Nat]
        /\ a.deactivated \in [Sessions -> Nat] /\ a.proof \in [Sessions -> Nat]
    BY <1>1, <1>4, Typed DEF Statuses
  <2>2. a = [r EXCEPT !.current = a.current, !.status = a.status,
                      !.deactivated = a.deactivated, !.proof = a.proof]
    BY <1>3, <1>4 DEF Registries
  <2> QED
    BY <1>4, <2>1, <2>2 DEF Registries
<1>6. q = [a EXCEPT !.generation = h.generation, !.current = h.target, !.pending = NoHandoff,
                    !.status[h.target] = "active", !.activated[h.target] = h.generation]
  BY <1>2 DEF Applied, Activated
<1>7. /\ q.generation = h.generation /\ q.current = h.target /\ q.pending = NoHandoff
      /\ q.status = [a.status EXCEPT ![h.target] = "active"]
      /\ q.activated = [a.activated EXCEPT ![h.target] = h.generation]
      /\ q.deactivated = a.deactivated /\ q.proof = a.proof
  BY <1>5, <1>6 DEF Registries
<1>8. q \in Registries
  <2>1. q.status \in [Sessions -> Statuses] /\ q.activated \in [Sessions -> Nat]
    BY <1>1, <1>5, <1>7, Typed DEF Statuses
  <2>2. q = [a EXCEPT !.generation = q.generation, !.current = q.current, !.pending = q.pending,
                      !.status = q.status, !.activated = q.activated]
    BY <1>5, <1>6, <1>7 DEF Registries
  <2> QED
    BY <1>1, <1>5, <1>7, <2>1, <2>2 DEF Registries
<1>9. AfterCompletion(r, h, last, q)
  BY <1>4, <1>7, <1>8 DEF AfterCompletion
<1> QED
  BY <1>9 DEF q

\* The first Session becomes current.
LEMMA CreationKeepsTheRegistry ==
    ASSUME NEW r \in Registries, ValidState(r), NEW t \in Sessions,
           r.current = None, r.pending = NoHandoff, ~ Known(r, t),
           NEW q, AfterCreation(r, t, q)
    PROVE  q \in Registries /\ ValidState(q)
<1>3. /\ q \in Registries
      /\ q.generation = Fence(r) /\ q.current = t /\ q.pending = NoHandoff
      /\ q.status = [r.status EXCEPT ![t] = "active"]
      /\ q.activated = [r.activated EXCEPT ![t] = Fence(r)]
      /\ q.deactivated = r.deactivated
  BY DEF AfterCreation
<1>4. /\ \A s \in Sessions : ValidRegistration(r, s) /\ r.status[s] # "deactivating" /\ r.status[s] # "active"
      /\ r.generation = 0
  BY NoHandoffIsNone DEF ValidState
<1>5. \A s \in Sessions : ValidRegistration(q, s)
  <2> TAKE s \in Sessions
  <2>1. ValidRegistration(r, s) /\ r.status[s] \in Statuses /\ r.generation \in Nat
    BY <1>4, Typed
  <2>2. CASE s = t
    <3>1. q.status[s] = "active" /\ q.activated[s] = r.generation + 1 /\ q.deactivated[s] = r.deactivated[s]
      BY <1>3, <2>2, Typed DEF Fence
    <3>2. r.deactivated[s] = 0
      BY <2>1, <2>2, RegistrationRule DEF Known
    <3>3. q.generation = r.generation + 1
      BY <1>3 DEF Fence
    <3>4. q.activated[s] > 0 /\ q.activated[s] <= q.generation /\ q.deactivated[s] = 0
      BY <2>1, <3>1, <3>2, <3>3
    <3>5. q \in Registries
      BY <1>3
    <3> QED
      BY <3>1, <3>4, <3>5, RegistrationRule
  <2>3. CASE s # t
    <3>1. /\ q.status[s] = r.status[s] /\ q.activated[s] = r.activated[s]
          /\ q.deactivated[s] = r.deactivated[s]
      BY <1>3, <2>3, Typed
    <3> QED
      BY <1>3, <1>4, <2>1, <3>1, Typed, RegistrationRule DEF Fence
  <2> QED
    BY <2>2, <2>3
<1> QED
  BY <1>3, <1>4, <1>5, Typed, NoneIsNoSession DEF ValidState

\* A handoff begins: its source is fenced, its target waits.
LEMMA FenceKeepsTheRegistry ==
    ASSUME NEW r \in Registries, ValidState(r), NEW h \in Handoff, MayBegin(r, h),
           ~ Known(r, h.target) \/ r.status[h.target] = "created",
           NEW q, AfterFence(r, h, q)
    PROVE  q \in Registries /\ ValidState(q)
<1>1. /\ h.source \in Sessions /\ h.target \in Sessions /\ h.generation \in Nat
      /\ h.source # h.target /\ h.generation = Fence(r) /\ h # NoHandoff
      /\ r.pending = NoHandoff /\ r.current = h.source /\ r.status[h.source] = "active"
  BY NoHandoffIsNone DEF Handoff, MayBegin, Known
<1>2. /\ q \in Registries
      /\ q.generation = Fence(r) /\ q.current = r.current /\ q.pending = h
      /\ q.status = [[r.status EXCEPT ![h.target] = "created"] EXCEPT ![h.source] = "deactivating"]
      /\ q.activated = r.activated /\ q.deactivated = r.deactivated
  BY <1>1 DEF AfterFence
<1>3. /\ \A s \in Sessions : ValidRegistration(r, s) /\ r.status[s] # "deactivating"
      /\ \A s \in Sessions : r.status[s] = "active" => s = h.source
      /\ r.activated[h.source] = r.generation
  BY <1>1, NoneIsNoSession DEF ValidState
<1>4. \A s \in Sessions : ValidRegistration(q, s)
  <2> TAKE s \in Sessions
  <2>1. ValidRegistration(r, s) /\ r.status[s] \in Statuses /\ r.generation \in Nat
    BY <1>3, Typed
  <2>2. q.activated[s] = r.activated[s] /\ q.deactivated[s] = r.deactivated[s] /\ q.generation = r.generation + 1
    BY <1>2 DEF Fence
  <2>3. CASE s = h.source
    <3>1. q.status[s] = "deactivating" /\ r.status[s] = "active" /\ r.activated[s] = r.generation
      BY <1>1, <1>2, <1>3, <2>3, Typed
    <3> QED
      BY <1>2, <2>1, <2>2, <3>1, Typed, RegistrationRule
  <2>4. CASE s = h.target
    <3>1. q.status[s] = "created" /\ r.status[s] \in {"unknown", "created"}
      BY <1>1, <1>2, <2>1, <2>4, Typed DEF Known
    <3> QED
      BY <1>2, <2>1, <2>2, <3>1, Typed, RegistrationRule
  <2>5. CASE s # h.source /\ s # h.target
    <3>1. q.status[s] = r.status[s] /\ r.status[s] # "active"
      BY <1>1, <1>2, <1>3, <2>5, Typed
    <3> QED
      BY <1>2, <1>3, <2>1, <2>2, <3>1, Typed, RegistrationRule
  <2> QED
    BY <2>3, <2>4, <2>5
<1> QED
  BY <1>1, <1>2, <1>3, <1>4, Typed DEF ValidState

\* A handoff completes: its source ended, its target is current.
LEMMA CompletionKeepsTheRegistry ==
    ASSUME NEW r \in Registries, ValidState(r), NEW h \in Handoff, h = r.pending, NEW last \in Nat,
           NEW q, AfterCompletion(r, h, last, q)
    PROVE  q \in Registries /\ ValidState(q)
<1>2. /\ h \in Handoff /\ h.source \in Sessions /\ h.target \in Sessions /\ h.generation \in Nat
      /\ r.current = h.source /\ h.generation = r.generation
      /\ r.status[h.source] = "deactivating" /\ r.status[h.target] = "created"
      /\ \A s \in Sessions : /\ ValidRegistration(r, s) /\ r.status[s] # "active"
                             /\ r.status[s] = "deactivating" => s = h.source
  BY Typed, NoHandoffIsNone DEF ValidState, Handoff
<1>4. /\ q \in Registries
      /\ q.generation = r.generation /\ q.current = h.target /\ q.pending = NoHandoff
      /\ q.status = [[r.status EXCEPT ![h.source] = "deactivated"] EXCEPT ![h.target] = "active"]
      /\ q.activated = [r.activated EXCEPT ![h.target] = r.generation]
      /\ q.deactivated = [r.deactivated EXCEPT ![h.source] = r.generation]
  BY <1>2 DEF AfterCompletion
<1>5. \A s \in Sessions : ValidRegistration(q, s)
  <2> TAKE s \in Sessions
  <2>1. ValidRegistration(r, s) /\ r.status[s] \in Statuses /\ r.generation \in Nat
    BY <1>2, Typed
  <2>2. CASE s = h.source
    <3>1. /\ q.status[s] = "deactivated" /\ q.activated[s] = r.activated[s]
          /\ q.deactivated[s] = r.generation /\ r.status[s] = "deactivating"
      BY <1>2, <1>4, <2>2, Typed
    <3> QED
      BY <1>4, <2>1, <3>1, Typed, RegistrationRule
  <2>3. CASE s = h.target
    <3>1. /\ q.status[s] = "active" /\ q.activated[s] = r.generation
          /\ q.deactivated[s] = r.deactivated[s] /\ r.status[s] = "created"
      BY <1>2, <1>4, <2>3, Typed
    <3>2. r.activated[h.source] < r.generation /\ r.activated[h.source] > 0
      BY <1>2, Typed, RegistrationRule
    <3> QED
      BY <1>2, <1>4, <2>1, <3>1, <3>2, Typed, RegistrationRule
  <2>4. CASE s # h.source /\ s # h.target
    <3>1. /\ q.status[s] = r.status[s] /\ q.activated[s] = r.activated[s]
          /\ q.deactivated[s] = r.deactivated[s]
      BY <1>2, <1>4, <2>4, Typed
    <3> QED
      BY <1>4, <2>1, <3>1, Typed, RegistrationRule
  <2> QED
    BY <2>2, <2>3, <2>4
<1> QED
  BY <1>2, <1>4, <1>5, Typed, NoneIsNoSession DEF ValidState

\* What validate_transaction accepts leaves a registry _validate_state accepts: the learner's registry
\* can be loaded again, whatever process decided the transaction.
THEOREM ValidTransactionsKeepTheRegistry ==
    ASSUME NEW r \in Registries, ValidState(r),
           NEW events \in Seq(Events), ValidTransaction(r, events)
    PROVE  Reduced(r, events) \in Registries /\ ValidState(Reduced(r, events))
<1>1. CASE \E t \in Sessions :
            /\ r.current = None /\ r.pending = NoHandoff /\ ~ Known(r, t)
            /\ events = Creation(r, t)
  BY <1>1, CreationKeepsTheRegistry, CreationEffect
<1>2. CASE \E h \in Handoff : MayBegin(r, h) /\ ~ Known(r, h.target) /\ events = NewFence(r, h)
  BY <1>2, FenceKeepsTheRegistry, FenceEffect
<1>3. CASE \E h \in Handoff :
            MayBegin(r, h) /\ r.status[h.target] = "created" /\ events = OldFence(h)
  BY <1>3, FenceKeepsTheRegistry, FenceEffect
<1>4. CASE \E last \in Nat : r.pending # NoHandoff /\ events = Completion(r.pending, last)
  <2>1. r.pending \in Handoff
    BY <1>4, Typed
  <2> QED
    BY <1>4, <2>1, CompletionKeepsTheRegistry, CompletionEffect
<1> QED
  BY <1>1, <1>2, <1>3, <1>4, Shapes

-----------------------------------------------------------------------------
\* Which transaction decide answers with, and what it demands of the registry.
LEMMA CreateDecision ==
    ASSUME NEW r \in Registries, NEW t \in Sessions, DecideCreate(r, t) # <<>>
    PROVE  /\ DecideCreate(r, t) = Creation(r, t)
           /\ r.current = None /\ r.pending = NoHandoff /\ ~ Known(r, t)
  BY DEF DecideCreate, Creation

LEMMA BeginDecision ==
    ASSUME NEW r \in Registries, NEW source \in Sessions, NEW t \in Sessions,
           DecideBegin(r, source, t) # <<>>
    PROVE  LET h == [source |-> source, target |-> t, generation |-> Fence(r)] IN
           /\ h \in Handoff /\ MayBegin(r, h)
           /\ \/ ~ Known(r, t) /\ DecideBegin(r, source, t) = NewFence(r, h)
              \/ r.status[t] = "created" /\ DecideBegin(r, source, t) = OldFence(h)
<1> DEFINE h == [source |-> source, target |-> t, generation |-> Fence(r)]
<1>1. /\ r.pending = NoHandoff /\ r.current = source /\ r.status[source] = "active"
      /\ r.status[t] \in {"unknown", "created"}
      /\ r.status[t] = "unknown" => DecideBegin(r, source, t) = NewFence(r, h)
      /\ r.status[t] = "created" => DecideBegin(r, source, t) = OldFence(h)
  BY Typed DEF DecideBegin, Statuses, NewFence, OldFence
<1>2. h \in Handoff /\ MayBegin(r, h)
  BY <1>1, Typed DEF Handoff, MayBegin
<1> QED
  BY <1>1, <1>2 DEF Known

LEMMA CompleteDecision ==
    ASSUME NEW r \in Registries, NEW h, NEW last \in Nat, DecideComplete(r, h, last) # <<>>
    PROVE  /\ DecideComplete(r, h, last) = Completion(h, last)
           /\ h = r.pending /\ h \in Handoff
  BY Typed DEF DecideComplete, Completion

-----------------------------------------------------------------------------
(* The Sessions *)

\* Who acts: an operation that prepares or registers a Session was asked for one, and a write is
\* under way only in the Session it may go to.
OperationIsUnderway ==
    /\ op.kind \in {"resolve", "finish", "execute"} => op.session \in Sessions
    /\ pc \in {"persisting", "preparing", "creating", "beginning"} => op.kind = "resolve"
    /\ pc \in {"preparing", "creating", "beginning"} => config[op.session]
    /\ pc \in {"creating", "beginning"} => log[op.session].exists
    /\ pc = "beginning" => current \in Sessions
    /\ pc = "quiescing" => pending # NoHandoff
    /\ pc = "bootstrapping" => current \in Sessions
    /\ pc = "writing" => op.session \in Sessions /\ MayWrite(op.session)

\* What the registry says of a Session and what its log holds.
LogFollowsRegistry(s) ==
    /\ Registered(s) => config[s] /\ log[s].exists
    /\ status[s] \in {"unknown", "created"} => log[s].sequence = 0
    /\ status[s] = "deactivated" => log[s].sequence = registry.proof[s] /\ log[s].sequence > 0
    /\ log[s].sequence > 0 => log[s].generation \in {activated[s], activated[s] + 1}
    /\ log[s].phase = "busy" => s = current

\* A fence is one generation after the activation of the Session it stops.
FenceFollowsActivation == pending # NoHandoff => activated[pending.source] + 1 = generation

Inv ==
    /\ TypeOK
    /\ RegistryIsCoherent
    /\ FenceFollowsActivation
    /\ \A s \in Sessions : LogFollowsRegistry(s)
    /\ OperationIsUnderway

LEMMA FieldsOfTheRegistry ==
    /\ generation = registry.generation /\ current = registry.current /\ pending = registry.pending
    /\ status = registry.status /\ activated = registry.activated
  BY DEF generation, current, pending, status, activated

LEMMA LogTyped ==
    ASSUME TypeOK, NEW s \in Sessions
    PROVE  /\ log[s] \in Log /\ log[s].sequence \in Nat /\ log[s].generation \in Nat
           /\ log[s].phase \in {"new", "busy", "idle"} /\ log[s].exists \in BOOLEAN
  BY DEF TypeOK, Log

LEMMA RegistryTyped ==
    ASSUME TypeOK
    PROVE  /\ generation \in Nat /\ current \in Sessions \cup {None}
           /\ pending \in Handoff \cup {NoHandoff}
           /\ status \in [Sessions -> Statuses] /\ activated \in [Sessions -> Nat]
           /\ registry.proof \in [Sessions -> Nat]
  BY Typed, FieldsOfTheRegistry DEF TypeOK

LEMMA Initially == Init => Inv
<1> SUFFICES ASSUME Init PROVE Inv
  OBVIOUS
<1> USE FieldsOfTheRegistry
<1>1. registry = Empty /\ pc = "idle" /\ op = NoOperation
  BY DEF Init
<1>2. registry \in Registries
  BY <1>1 DEF Registries, Empty, Statuses
<1>3. TypeOK
  BY <1>1, <1>2 DEF Init, TypeOK, Log, NoLog, Places, Operation, NoOperation, Operations
<1>4. \A s \in Sessions : registry.status[s] = "unknown" /\ registry.activated[s] = 0 /\ registry.deactivated[s] = 0
  BY <1>1 DEF Empty
<1>5. registry.current = None /\ registry.pending = NoHandoff /\ registry.generation = 0
  BY <1>1 DEF Empty
<1>6. RegistryIsCoherent
  <2>1. \A s \in Sessions : ValidRegistration(registry, s)
    BY <1>2, <1>4, RegistrationRule
  <2> QED
    BY <1>4, <1>5, <2>1 DEF RegistryIsCoherent, ValidState
<1>7. FenceFollowsActivation
  BY <1>5 DEF FenceFollowsActivation
<1>8. \A s \in Sessions : LogFollowsRegistry(s)
  BY <1>4 DEF Init, LogFollowsRegistry, Registered, Known, NoLog
<1>9. OperationIsUnderway
  BY <1>1 DEF OperationIsUnderway, NoOperation
<1> QED
  BY <1>3, <1>6, <1>7, <1>8, <1>9 DEF Inv

-----------------------------------------------------------------------------
(* Steps that leave the registry as it is.                                 *)

LEMMA RegistryUnchanged ==
    ASSUME UNCHANGED registry
    PROVE  /\ UNCHANGED <<generation, current, pending, status, activated>>
           /\ UNCHANGED RegistryIsCoherent /\ UNCHANGED FenceFollowsActivation
           /\ \A s \in Sessions : UNCHANGED Registered(s) /\ (MayWrite(s) <=> MayWrite(s)')
  BY DEF generation, current, pending, status, activated, RegistryIsCoherent, FenceFollowsActivation,
         Registered, MayWrite

\* Nothing durable happens.
LEMMA QuietStep ==
    ASSUME Inv, UNCHANGED <<registry, config, log>>, torn' \subseteq Sessions,
           pc' \in Places, op' \in Operation, OperationIsUnderway'
    PROVE  Inv'
<1>1. TypeOK'
  BY DEF Inv, TypeOK
<1>2. \A s \in Sessions : LogFollowsRegistry(s)'
  BY RegistryUnchanged DEF Inv, LogFollowsRegistry
<1> QED
  BY <1>1, <1>2, RegistryUnchanged DEF Inv

\* One event is appended to the log of a Session the registry has activated.
LEMMA AppendStep ==
    ASSUME Inv, UNCHANGED <<registry, config>>, torn' \subseteq Sessions,
           NEW t \in Sessions, NEW l \in Log, log' = [log EXCEPT ![t] = l],
           l.exists = log[t].exists, l.sequence = log[t].sequence + 1,
           l.generation \in {activated[t], activated[t] + 1},
           status[t] \in {"active", "deactivating"}, l.phase = "busy" => t = current,
           pc' \in Places, op' \in Operation, OperationIsUnderway'
    PROVE  Inv'
<1>1. TypeOK'
  BY DEF Inv, TypeOK
<1>2. \A s \in Sessions : LogFollowsRegistry(s)'
  <2> TAKE s \in Sessions
  <2>1. CASE s = t
    BY <2>1, RegistryUnchanged DEF Inv, TypeOK, LogFollowsRegistry
  <2>2. CASE s # t
    BY <2>2, RegistryUnchanged DEF Inv, TypeOK, LogFollowsRegistry
  <2> QED
    BY <2>1, <2>2
<1> QED
  BY <1>1, <1>2, RegistryUnchanged DEF Inv

LEMMA TornKept == ASSUME Inv, UNCHANGED torn PROVE torn' \subseteq Sessions
  BY DEF Inv, TypeOK

\* A commit that goes through changes the log, one that is interrupted may.
LEMMA Committing ==
    ASSUME Inv, NEW s \in Sessions, NEW after, Commit(s, after) \/ Interrupted(s, after)
    PROVE  /\ log' = log \/ log' = [log EXCEPT ![s] = after]
           /\ torn' \subseteq Sessions
  BY DEF Commit, Interrupted, Inv, TypeOK

LEMMA Appending ==
    ASSUME NEW l \in Log, NEW g \in Nat, NEW p \in {"new", "busy", "idle"}
    PROVE  /\ Appended(l, g, p) \in Log /\ Appended(l, g, p).exists = l.exists
           /\ Appended(l, g, p).sequence = l.sequence + 1
           /\ Appended(l, g, p).generation = g /\ Appended(l, g, p).phase = p
<1> DEFINE a == Appended(l, g, p)
           b == [l EXCEPT !.sequence = l.sequence + 1]
           c == [b EXCEPT !.generation = g]
<1>1. a = [l EXCEPT !.sequence = l.sequence + 1, !.generation = g, !.phase = p]
  BY DEF Appended
<1>2. b \in Log
  BY DEF Log
<1> HIDE DEF b
<1>3. c \in Log
  BY <1>2 DEF Log
<1>6. a = [c EXCEPT !.phase = p]
  BY <1>1 DEF b
<1> HIDE DEF a, c
<1>7. a \in Log
  BY <1>3, <1>6 DEF Log
<1>4. a.sequence = l.sequence + 1 /\ a.generation = g /\ a.phase = p
  BY <1>1 DEF Log
<1>5. a.exists = l.exists
  BY <1>1, Zenon DEF Log
<1> QED
  BY <1>4, <1>5, <1>7 DEF a

\* The Session that may be written to is the current one, and its log is its own.
LEMMA Writable ==
    ASSUME Inv, NEW s, MayWrite(s), s \in Sessions \cup {None}
    PROVE  s \in Sessions => status[s] = "active" /\ s = current /\ activated[s] = generation
  BY DEF MayWrite

LEMMA ResolveStep == ASSUME Inv, NEW s \in Sessions, Resolve(s) PROVE Inv'
<1>1. op' \in Operation /\ op'.kind \in {"resolve", "finish"} /\ op'.session = s
  BY DEF Resolve, Operation, Operations
<1>2. pc' \in {"quiescing", "persisting", "bootstrapping"} /\ (pc' = "persisting" => op'.kind = "resolve")
  BY DEF Resolve, Preparation
<1>3. /\ pc' = "quiescing" => pending # NoHandoff
      /\ pc' = "bootstrapping" => current \in Sessions
  BY RegistryTyped DEF Resolve, Preparation, Inv
<1>4. UNCHANGED registry
  BY DEF Resolve
<1>5. OperationIsUnderway'
  BY <1>1, <1>2, <1>3, <1>4, RegistryUnchanged DEF OperationIsUnderway
<1>6. pc' \in Places
  BY <1>2 DEF Places
<1> QED
  BY <1>1, <1>5, <1>6, QuietStep, TornKept DEF Resolve

LEMMA ExecuteStep == ASSUME Inv, NEW s \in Sessions, Execute(s) PROVE Inv'
<1>1. op' \in Operation /\ op'.kind = "execute" /\ op'.session = s
  BY DEF Execute, Operation, Operations
<1>2. /\ UNCHANGED registry
      /\ \/ pc' = "quiescing" /\ pending # NoHandoff
         \/ pc' = "bootstrapping" /\ current \in Sessions
  BY DEF Execute, MayWrite
<1>3. OperationIsUnderway' /\ pc' \in Places
  BY <1>1, <1>2, RegistryUnchanged DEF OperationIsUnderway, Places
<1> QED
  BY <1>1, <1>3, QuietStep, TornKept DEF Execute

LEMMA RecoverStep == ASSUME Inv, Recover PROVE Inv'
<1>1. op' \in Operation /\ op'.kind = "recover" /\ pc' = "auditing"
  BY DEF Recover, Operation, Operations
<1>2. OperationIsUnderway' /\ pc' \in Places
  BY <1>1 DEF OperationIsUnderway, Places
<1> QED
  BY <1>1, <1>2, QuietStep, TornKept DEF Recover

LEMMA ReturnStep == ASSUME Inv, Return PROVE OperationIsUnderway' /\ pc' \in Places /\ op' \in Operation
  BY DEF Return, NoOperation, Operation, Operations, OperationIsUnderway, Places

LEMMA AbortStep == ASSUME Inv, Abort PROVE Inv'
  BY ReturnStep, QuietStep, TornKept DEF Abort

LEMMA AuditStep == ASSUME Inv, Audit PROVE Inv'
<1>1. CASE Return
  BY <1>1, ReturnStep, QuietStep, TornKept DEF Audit
<1>2. CASE ~ Return
  <2>1. /\ UNCHANGED registry /\ op' = op
        /\ \/ pc' = "quiescing" /\ pending # NoHandoff
           \/ pc' = "bootstrapping" /\ current # None
    BY <1>2 DEF Audit, Goto
  <2>2. pc' = "bootstrapping" => current \in Sessions
    BY <2>1, RegistryTyped DEF Inv
  <2>3. OperationIsUnderway' /\ pc' \in Places /\ op' \in Operation
    BY <2>1, <2>2, RegistryUnchanged DEF Inv, TypeOK, OperationIsUnderway, Places
  <2> QED
    BY <2>3, QuietStep, TornKept DEF Audit
<1> QED
  BY <1>1, <1>2

LEMMA PersistConfigStep == ASSUME Inv, PersistConfig PROVE Inv'
<1>1. op.session \in Sessions /\ op.kind = "resolve" /\ op' = op /\ pc' = "preparing"
  BY DEF PersistConfig, Goto, Inv, OperationIsUnderway
<1>2. config' = [config EXCEPT ![op.session] = TRUE] /\ UNCHANGED <<registry, log, torn>>
  BY DEF PersistConfig
<1>3. TypeOK'
  BY <1>1, <1>2 DEF Inv, TypeOK, Places
<1>4. \A s \in Sessions : LogFollowsRegistry(s)'
  BY <1>2, RegistryUnchanged DEF Inv, TypeOK, LogFollowsRegistry
<1>5. OperationIsUnderway'
  BY <1>1, <1>2 DEF OperationIsUnderway, Inv, TypeOK
<1> QED
  BY <1>2, <1>3, <1>4, <1>5, RegistryUnchanged DEF Inv

LEMMA PrepareLogStep == ASSUME Inv, PrepareLog PROVE Inv'
<1>1. op.session \in Sessions /\ op.kind = "resolve" /\ config[op.session]
  BY DEF PrepareLog, Inv, OperationIsUnderway
<1>2. log' = [log EXCEPT ![op.session].exists = TRUE] /\ UNCHANGED <<registry, config>>
  BY DEF PrepareLog
<1>3. \/ Return
      \/ /\ op' = op
         /\ \/ pc' = "creating"
            \/ pc' = "beginning" /\ current # None
  BY DEF PrepareLog, Goto, Registering
<1>4. log' \in [Sessions -> Log]
  BY <1>1, <1>2 DEF Inv, TypeOK, Log
<1>5. \A s \in Sessions :
        /\ log[s].exists => log'[s].exists
        /\ log'[s].sequence = log[s].sequence /\ log'[s].generation = log[s].generation
        /\ log'[s].phase = log[s].phase
  BY <1>1, <1>2 DEF Inv, TypeOK, Log
<1>6. \A s \in Sessions : LogFollowsRegistry(s)'
  BY <1>2, <1>5, RegistryUnchanged DEF Inv, LogFollowsRegistry
<1>10. torn' \subseteq Sessions
  BY DEF PrepareLog, Inv, TypeOK
<1>7. log'[op.session].exists
  BY <1>1, <1>2 DEF Inv, TypeOK, Log
<1>8. TypeOK'
  BY <1>2, <1>3, <1>4, <1>10, ReturnStep DEF Inv, TypeOK, Places
<1>9. OperationIsUnderway'
  <2>1. CASE Return
    BY <2>1, ReturnStep
  <2>2. CASE op' = op /\ (pc' = "creating" \/ (pc' = "beginning" /\ current # None))
    BY <1>1, <1>2, <1>7, <2>2, RegistryUnchanged, RegistryTyped DEF Inv, OperationIsUnderway
  <2> QED
    BY <1>3, <2>1, <2>2
<1> QED
  BY <1>2, <1>6, <1>8, <1>9, RegistryUnchanged DEF Inv

-----------------------------------------------------------------------------
(* Steps that append to the log of a Session.                              *)

\* The source of a pending handoff.
LEMMA PendingSource ==
    ASSUME Inv, pending # NoHandoff
    PROVE  /\ pending.source \in Sessions /\ pending.target \in Sessions
           /\ pending.source = current /\ status[pending.source] = "deactivating"
           /\ pending.generation = generation /\ generation = activated[pending.source] + 1
           /\ generation \in Nat
<1>1. pending \in Handoff
  BY RegistryTyped DEF Inv
<1>2. ValidState(registry)
  BY DEF Inv, RegistryIsCoherent
<1>3. /\ registry.current = registry.pending.source /\ registry.pending.generation = registry.generation
      /\ registry.pending.source \in {s \in Sessions : registry.status[s] = "deactivating"}
  BY <1>2, FieldsOfTheRegistry DEF ValidState
<1> QED
  BY <1>1, <1>3, FieldsOfTheRegistry, RegistryTyped DEF Inv, FenceFollowsActivation, Handoff

LEMMA QuiesceStep == ASSUME Inv, Quiesce PROVE Inv'
<1> DEFINE t == pending.source
           after == Quiesced(log[t])
           l == Appended(log[t], pending.generation, "idle")
<1>1. /\ UNCHANGED <<registry, config>> /\ pc = "quiescing"
      /\ \/ Commit(t, after) /\ Goto("completing")
         \/ Interrupted(t, after) /\ Return
  BY DEF Quiesce
<1>2. pending # NoHandoff
  BY <1>1 DEF Inv, OperationIsUnderway
<1>3. /\ t \in Sessions /\ status[t] = "deactivating"
      /\ pending.generation \in {activated[t], activated[t] + 1} /\ pending.generation \in Nat
  BY <1>2, PendingSource
<1>4. (log' = log \/ log' = [log EXCEPT ![t] = after]) /\ torn' \subseteq Sessions
  BY <1>1, <1>3, Committing
<1>5. OperationIsUnderway' /\ pc' \in Places /\ op' \in Operation
  <2>1. CASE Goto("completing")
    BY <2>1 DEF Goto, Inv, TypeOK, OperationIsUnderway, Places
  <2>2. CASE Return
    BY <2>2, ReturnStep
  <2> QED
    BY <1>1, <2>1, <2>2
<1>6. log' = log \/ log' = [log EXCEPT ![t] = l]
  BY <1>4 DEF Inv, TypeOK, Quiesced
<1>7. CASE log' = log
  BY <1>1, <1>4, <1>5, <1>7, QuietStep
<1>8. CASE log' = [log EXCEPT ![t] = l]
  <2>1. log[t] \in Log
    BY <1>3, LogTyped DEF Inv
  <2>2. /\ l \in Log /\ l.exists = log[t].exists /\ l.sequence = log[t].sequence + 1
        /\ l.generation = pending.generation /\ l.phase = "idle"
    BY <1>3, <2>1, Appending, ZenonT(60)
  <2> HIDE DEF t, l
  <2> QED
    BY <1>1, <1>3, <1>4, <1>5, <1>8, <2>2, AppendStep
<1> QED
  BY <1>6, <1>7, <1>8

LEMMA BootstrapStep == ASSUME Inv, Bootstrap PROVE Inv'
<1> DEFINE t == current
           after == Started(log[t])
           l == Appended(log[t], generation, "busy")
<1>1. /\ UNCHANGED <<registry, config>> /\ MayWrite(t) /\ pc = "bootstrapping"
      /\ Commit(t, after) \/ Interrupted(t, after)
  BY DEF Bootstrap
<1>2. \/ op.kind = "resolve" /\ Goto("persisting")
      \/ op.kind = "execute" /\ current = op.session /\ Goto("writing")
      \/ Return
  BY DEF Bootstrap, Preparation
<1>3. t \in Sessions
  BY <1>1 DEF Inv, OperationIsUnderway
<1>4. (log' = log \/ log' = [log EXCEPT ![t] = after]) /\ torn' \subseteq Sessions
  BY <1>1, <1>3, Committing
<1>5. OperationIsUnderway' /\ pc' \in Places /\ op' \in Operation
  <2>1. CASE op.kind = "resolve" /\ Goto("persisting")
    BY <2>1 DEF Goto, OperationIsUnderway, Inv, TypeOK, Places
  <2>2. CASE op.kind = "execute" /\ current = op.session /\ Goto("writing")
    <3>1. op.session \in Sessions /\ op' = op /\ pc' = "writing"
      BY <2>2 DEF Goto, OperationIsUnderway, Inv
    <3>2. MayWrite(op.session)'
      BY <1>1, <2>2, <3>1, RegistryUnchanged
    <3> QED
      BY <2>2, <3>1, <3>2 DEF OperationIsUnderway, Inv, TypeOK, Places
  <2>3. CASE Return
    BY <2>3, ReturnStep
  <2> QED
    BY <1>2, <2>1, <2>2, <2>3
<1>6. log' = log \/ log' = [log EXCEPT ![t] = l]
  BY <1>4 DEF Inv, TypeOK, Started
<1>7. CASE log' = log
  BY <1>1, <1>4, <1>5, <1>7, QuietStep
<1>8. CASE log' = [log EXCEPT ![t] = l]
  <2>1. status[t] = "active" /\ generation = activated[t] /\ generation \in Nat
    BY <1>1, <1>3, Writable, RegistryTyped DEF Inv
  <2>2. log[t] \in Log
    BY <1>3, LogTyped DEF Inv
  <2>3. /\ l \in Log /\ l.exists = log[t].exists /\ l.sequence = log[t].sequence + 1
        /\ l.generation = generation
    BY <2>1, <2>2, Appending, ZenonT(60)
  <2>4. t = current
    OBVIOUS
  <2> HIDE DEF t, l
  <2> QED
    BY <1>1, <1>3, <1>4, <1>5, <1>8, <2>1, <2>3, <2>4, AppendStep
<1> QED
  BY <1>6, <1>7, <1>8

LEMMA WriteStep ==
    ASSUME Inv, pc = "writing", NEW l \in Log, Write(l),
           l.exists = log[op.session].exists, l.sequence = log[op.session].sequence + 1,
           l.generation = generation
    PROVE  Inv'
<1>1. op.session \in Sessions /\ MayWrite(op.session)
  BY DEF Inv, OperationIsUnderway
<1>2. /\ status[op.session] = "active" /\ op.session = current
      /\ activated[op.session] = generation
  BY <1>1, Writable
<1>3. UNCHANGED <<registry, config>> /\ Return
  BY DEF Write
<1>4. /\ log' = log \/ log' = [log EXCEPT ![op.session] = l]
      /\ torn' \subseteq Sessions
  BY <1>1, Committing DEF Write
<1>5. CASE log' = log
  BY <1>3, <1>4, <1>5, QuietStep, ReturnStep
<1>6. CASE log' = [log EXCEPT ![op.session] = l]
  BY <1>1, <1>2, <1>3, <1>4, <1>6, AppendStep, ReturnStep
<1> QED
  BY <1>4, <1>5, <1>6

LEMMA ConverseStep == ASSUME Inv, NEW p \in {"busy", "idle"}, Converse(p) PROVE Inv'
<1> DEFINE l == Appended(log[op.session], generation, p)
<1>1. op.session \in Sessions
  BY DEF Converse, Inv, OperationIsUnderway
<1>2. log[op.session] \in Log /\ generation \in Nat
  BY <1>1, LogTyped, RegistryTyped DEF Inv
<1>3. /\ l \in Log /\ l.exists = log[op.session].exists /\ l.sequence = log[op.session].sequence + 1
      /\ l.generation = generation
  <2>1. CASE p = "busy"
    BY <1>2, <2>1, Appending, ZenonT(60)
  <2>2. CASE p = "idle"
    BY <1>2, <2>2, Appending, ZenonT(60)
  <2> QED
    BY <2>1, <2>2
<1>4. pc = "writing" /\ Write(l)
  BY DEF Converse
<1> HIDE DEF l
<1> QED
  BY <1>3, <1>4, WriteStep

LEMMA MoveExportStep ==
    ASSUME Inv, NEW from, NEW to \in {"requested", "completed"}, MoveExport(from, to)
    PROVE  Inv'
<1> DEFINE o == log[op.session]
           a == Appended(o, generation, o.phase)
           l == [a EXCEPT !.export = to]
<1>1. op.session \in Sessions
  BY DEF MoveExport, Inv, OperationIsUnderway
<1>2. o \in Log /\ generation \in Nat /\ o.phase \in {"new", "busy", "idle"}
  BY <1>1, LogTyped, RegistryTyped DEF Inv
<1>3. /\ a \in Log /\ a.exists = o.exists /\ a.sequence = o.sequence + 1
      /\ a.generation = generation
  <2> HIDE DEF o
  <2> QED
    BY <1>2, Appending, ZenonT(60)
<1>4. pc = "writing" /\ Write(l)
  BY DEF MoveExport
<1> HIDE DEF a
<1>5. l \in Log /\ l.exists = a.exists /\ l.sequence = a.sequence /\ l.generation = a.generation
  BY <1>3 DEF Log
<1> HIDE DEF l
<1> QED
  BY <1>3, <1>4, <1>5, WriteStep

LEMMA PublishStep == ASSUME Inv, NEW s \in Sessions, Publish(s) PROVE Inv'
<1>1. status[s] = "active" /\ s = current /\ activated[s] = generation /\ generation \in Nat /\ log[s] \in Log
  BY Writable, LogTyped, RegistryTyped DEF Publish, Inv
<1>2. PICK p \in {"busy", "idle"} :
        \/ Commit(s, Appended(log[s], generation, p))
        \/ Interrupted(s, Appended(log[s], generation, p))
  BY <1>1 DEF Publish
<1>6. log[s] \in Log /\ generation \in Nat
  BY <1>1
<1> DEFINE l == Appended(log[s], generation, p)
<1>3. /\ l \in Log /\ l.exists = log[s].exists /\ l.sequence = log[s].sequence + 1
      /\ l.generation = generation
  <2>1. CASE p = "busy"
    BY <1>6, <2>1, Appending, ZenonT(60)
  <2>2. CASE p = "idle"
    BY <1>6, <2>2, Appending, ZenonT(60)
  <2> QED
    BY <2>1, <2>2
<1>4. UNCHANGED <<registry, config, pc, op>> /\ pc = "idle"
  BY DEF Publish
<1>5. OperationIsUnderway' /\ pc' \in Places /\ op' \in Operation
  BY <1>4 DEF OperationIsUnderway, Inv, TypeOK
<1>7. (log' = log \/ log' = [log EXCEPT ![s] = l]) /\ torn' \subseteq Sessions
  BY <1>2, Committing
<1> HIDE DEF l
<1>8. CASE log' = log
  BY <1>4, <1>5, <1>7, <1>8, QuietStep
<1>9. CASE log' = [log EXCEPT ![s] = l]
  BY <1>1, <1>3, <1>4, <1>5, <1>7, <1>9, AppendStep
<1> QED
  BY <1>7, <1>8, <1>9

-----------------------------------------------------------------------------
(* Steps of the registry.                                                  *)

LEMMA Prepared ==
    ASSUME Inv, pc \in {"creating", "beginning"}
    PROVE  /\ op.session \in Sessions /\ config[op.session] /\ log[op.session].exists
           /\ op \in Operation
  BY DEF Inv, OperationIsUnderway, TypeOK

LEMMA CreateStep == ASSUME Inv, Create PROVE Inv'
<1> DEFINE t == op.session
<1>1. /\ Decide(registry, CreateAndActivateDialogue(t)) = DecideCreate(registry, t)
      /\ pc = "creating" /\ pc' = "bootstrapping" /\ op' = op /\ UNCHANGED <<config, log, torn>>
      /\ DecideCreate(registry, t) # <<>> /\ registry' = Reduced(registry, DecideCreate(registry, t))
  <2>1. Decide(registry, CreateAndActivateDialogue(t)) = DecideCreate(registry, t)
    BY DEF Decide, CreateAndActivateDialogue
  <2> QED
    BY <2>1 DEF Create, Register, Goto
<1>2. t \in Sessions /\ config[t] /\ log[t].exists /\ registry \in Registries /\ ValidState(registry)
  BY <1>1, Prepared DEF Inv, TypeOK, RegistryIsCoherent
<1>3. /\ DecideCreate(registry, t) = Creation(registry, t)
      /\ registry.current = None /\ registry.pending = NoHandoff /\ ~ Known(registry, t)
  BY <1>1, <1>2, CreateDecision
<1>4. AfterCreation(registry, t, registry')
  BY <1>1, <1>2, <1>3, CreationEffect
<1>5. registry' \in Registries /\ ValidState(registry')
  BY <1>2, <1>3, <1>4, CreationKeepsTheRegistry
<1> HIDE DEF t
<1>6. /\ current' = t /\ pending' = NoHandoff /\ status' = [status EXCEPT ![t] = "active"]
      /\ activated' = [activated EXCEPT ![t] = generation']
      /\ registry'.proof = registry.proof
  BY <1>4, FieldsOfTheRegistry DEF AfterCreation, generation, current, pending, status, activated
<1>7. /\ current = None /\ pending = NoHandoff /\ status[t] = "unknown"
  BY <1>3, FieldsOfTheRegistry DEF Known
<1>8. TypeOK'
  BY <1>1, <1>5 DEF Inv, TypeOK, Places
<1>9. RegistryIsCoherent'
  BY <1>2, <1>5, <1>6, <1>7, NoneIsNoSession, RegistryTyped DEF Inv, RegistryIsCoherent, NoHandoff
<1>10. FenceFollowsActivation'
  BY <1>6 DEF FenceFollowsActivation
<1>11. \A s \in Sessions : LogFollowsRegistry(s)'
  <2> TAKE s \in Sessions
  <2>1. LogFollowsRegistry(s) /\ log' = log /\ config' = config
    BY <1>1 DEF Inv
  <2>2. CASE s = t
    <3>1. status'[s] = "active" /\ log[s].sequence = 0 /\ s = current'
      BY <1>2, <1>6, <1>7, <2>1, <2>2, RegistryTyped DEF Inv, LogFollowsRegistry
    <3> QED
      BY <1>2, <2>1, <2>2, <3>1 DEF LogFollowsRegistry
  <2>3. CASE s # t
    <3>1. status'[s] = status[s] /\ activated'[s] = activated[s]
      BY <1>6, <2>3, RegistryTyped DEF Inv
    <3>2. log[s].phase # "busy"
      BY <1>7, <2>1, NoneIsNoSession DEF LogFollowsRegistry
    <3>3. Registered(s)' = Registered(s)
      BY <3>1 DEF Registered, Known, status
    <3> QED
      BY <1>6, <2>1, <3>1, <3>2, <3>3 DEF LogFollowsRegistry
  <2> QED
    BY <2>2, <2>3
<1>12. OperationIsUnderway'
  BY <1>1, <1>2, <1>6 DEF OperationIsUnderway, Inv
<1> QED
  BY <1>8, <1>9, <1>10, <1>11, <1>12 DEF Inv

LEMMA BeginStep == ASSUME Inv, Begin PROVE Inv'
<1> DEFINE t == op.session
           h == [source |-> current, target |-> t, generation |-> Fence(registry)]
<1>1. /\ pc = "beginning" /\ pc' = "quiescing" /\ op' = op /\ UNCHANGED <<config, log, torn>>
      /\ DecideBegin(registry, current, t) # <<>>
      /\ registry' = Reduced(registry, DecideBegin(registry, current, t))
  <2>1. Decide(registry, BeginHandoff(current, t)) = DecideBegin(registry, current, t)
    BY DEF Decide, BeginHandoff
  <2> QED
    BY <2>1 DEF Begin, Register, Goto
<1>2. /\ t \in Sessions /\ config[t] /\ log[t].exists
      /\ registry \in Registries /\ ValidState(registry)
  BY <1>1, Prepared DEF Inv, TypeOK, RegistryIsCoherent
<1>3. current \in Sessions
  BY <1>1 DEF Inv, OperationIsUnderway
<1>4. /\ h \in Handoff /\ MayBegin(registry, h)
      /\ \/ ~ Known(registry, t) /\ DecideBegin(registry, current, t) = NewFence(registry, h)
         \/ registry.status[t] = "created" /\ DecideBegin(registry, current, t) = OldFence(h)
  BY <1>1, <1>2, <1>3, BeginDecision
<1>5. h.source = current /\ h.target = t /\ h.generation = generation + 1
  BY FieldsOfTheRegistry DEF Fence
<1> HIDE DEF h
<1>6. AfterFence(registry, h, registry')
  BY <1>1, <1>2, <1>4, <1>5, FenceEffect
<1>7. registry' \in Registries /\ ValidState(registry')
  BY <1>2, <1>4, <1>5, <1>6, FenceKeepsTheRegistry
<1> HIDE DEF t
<1>8. /\ generation' = generation + 1 /\ current' = current /\ pending' = h /\ activated' = activated
      /\ status' = [[status EXCEPT ![t] = "created"] EXCEPT ![current] = "deactivating"]
      /\ registry'.proof = registry.proof
  BY <1>5, <1>6, FieldsOfTheRegistry DEF AfterFence, generation, current, pending, status, activated
<1>9. /\ pending = NoHandoff /\ status[current] = "active" /\ t # current /\ h # NoHandoff
      /\ status[t] \in {"unknown", "created"}
  BY <1>4, <1>5, FieldsOfTheRegistry, NoHandoffIsNone DEF MayBegin, Known
<1>10. activated[current] = generation
  BY <1>2, <1>3, <1>9, FieldsOfTheRegistry, NoneIsNoSession DEF ValidState
<1>11. TypeOK'
  BY <1>1, <1>7 DEF Inv, TypeOK, Places
<1>12. RegistryIsCoherent'
  <2>1. \A s \in Sessions : status[s] # "created"
    BY <1>9, NoneIsNoSession DEF Inv, RegistryIsCoherent, NoHandoff
  <2>2. \A s \in Sessions : status'[s] = "created" => s = t
    BY <1>2, <1>3, <1>8, <2>1, RegistryTyped DEF Inv
  <2> QED
    BY <1>5, <1>7, <1>8, <2>2 DEF RegistryIsCoherent
<1>13. FenceFollowsActivation'
  BY <1>5, <1>8, <1>10 DEF FenceFollowsActivation
<1>14. \A s \in Sessions : LogFollowsRegistry(s)'
  <2> TAKE s \in Sessions
  <2>1. LogFollowsRegistry(s) /\ log' = log /\ config' = config
    BY <1>1 DEF Inv
  <2>2. CASE s = t
    <3>1. status'[s] = "created" /\ log[s].sequence = 0
      BY <1>2, <1>3, <1>8, <1>9, <2>1, <2>2, RegistryTyped DEF Inv, LogFollowsRegistry
    <3> QED
      BY <1>2, <1>8, <2>1, <2>2, <3>1 DEF LogFollowsRegistry
  <2>3. CASE s = current
    <3>1. status'[s] = "deactivating" /\ Registered(s)
      BY <1>3, <1>8, <1>9, <2>3, RegistryTyped, FieldsOfTheRegistry DEF Inv, Registered, Known
    <3> QED
      BY <1>8, <2>1, <3>1 DEF LogFollowsRegistry
  <2>4. CASE s # t /\ s # current
    <3>1. status'[s] = status[s]
      BY <1>8, <2>4, RegistryTyped DEF Inv
    <3>2. Registered(s)' = Registered(s)
      BY <3>1 DEF Registered, Known, status
    <3> QED
      BY <1>8, <2>1, <3>1, <3>2 DEF LogFollowsRegistry
  <2> QED
    BY <2>2, <2>3, <2>4
<1>15. OperationIsUnderway'
  BY <1>1, <1>8, <1>9 DEF OperationIsUnderway, Inv
<1> QED
  BY <1>11, <1>12, <1>13, <1>14, <1>15 DEF Inv

LEMMA CompleteStep == ASSUME Inv, Complete PROVE Inv'
<1> DEFINE h == pending
           last == log[h.source].sequence
<1>1. /\ pc = "completing" /\ pc' = "bootstrapping" /\ op' = op /\ UNCHANGED <<config, log, torn>>
      /\ DecideComplete(registry, h, last) # <<>>
      /\ registry' = Reduced(registry, DecideComplete(registry, h, last))
      /\ log[h.source].phase = "idle" /\ last > 0
  <2>1. Decide(registry, CompleteHandoff(h, last)) = DecideComplete(registry, h, last)
    BY DEF Decide, CompleteHandoff
  <2> QED
    BY <2>1 DEF Complete, Provable, Register, Goto
<1>2. registry \in Registries /\ ValidState(registry) /\ h = registry.pending
  BY FieldsOfTheRegistry DEF Inv, TypeOK, RegistryIsCoherent
<1>3. h # NoHandoff
  BY <1>1, <1>2 DEF DecideComplete
<1>4. /\ h.source \in Sessions /\ h.target \in Sessions /\ h.source = current
      /\ status[h.source] = "deactivating" /\ h.generation = generation
      /\ generation = activated[h.source] + 1 /\ generation \in Nat
  BY <1>3, PendingSource
<1>5. last \in Nat
  BY <1>4, LogTyped DEF Inv
<1> HIDE DEF last
<1>6. DecideComplete(registry, h, last) = Completion(h, last) /\ h \in Handoff
  BY <1>1, <1>2, <1>5, CompleteDecision
<1>7. AfterCompletion(registry, h, last, registry')
  BY <1>1, <1>2, <1>5, <1>6, CompletionEffect
<1>8. registry' \in Registries /\ ValidState(registry')
  BY <1>2, <1>5, <1>6, <1>7, CompletionKeepsTheRegistry
<1>9. status[h.target] = "created" /\ h.target # h.source
  BY <1>2, <1>3, <1>4, FieldsOfTheRegistry DEF ValidState
<1> HIDE DEF h
<1>10. /\ generation' = generation /\ current' = h.target /\ pending' = NoHandoff
       /\ status' = [[status EXCEPT ![h.source] = "deactivated"] EXCEPT ![h.target] = "active"]
       /\ activated' = [activated EXCEPT ![h.target] = generation]
       /\ registry'.proof = [registry.proof EXCEPT ![h.source] = last]
  BY <1>4, <1>7, FieldsOfTheRegistry DEF AfterCompletion, generation, current, pending, status, activated
<1>11. TypeOK'
  BY <1>1, <1>8 DEF Inv, TypeOK, Places
<1>12. RegistryIsCoherent'
  <2>1. \A s \in Sessions : status[s] = "created" => s = h.target
    BY DEF Inv, RegistryIsCoherent, h
  <2>2. \A s \in Sessions : status'[s] # "created"
    BY <1>4, <1>10, <2>1, RegistryTyped DEF Inv
  <2> QED
    BY <1>8, <2>2 DEF RegistryIsCoherent
<1>13. FenceFollowsActivation'
  BY <1>10 DEF FenceFollowsActivation
<1>14. \A s \in Sessions : LogFollowsRegistry(s)'
  <2> TAKE s \in Sessions
  <2>1. LogFollowsRegistry(s) /\ log' = log /\ config' = config
    BY <1>1 DEF Inv
  <2>2. log[s].phase # "busy"
    BY <1>1, <1>4, <2>1 DEF LogFollowsRegistry
  <2>3. CASE s = h.target
    <3>1. status'[s] = "active" /\ log[s].sequence = 0 /\ Registered(s)
      BY <1>4, <1>9, <1>10, <2>1, <2>3, RegistryTyped, FieldsOfTheRegistry
      DEF Inv, LogFollowsRegistry, Registered, Known
    <3> QED
      BY <2>1, <2>2, <3>1 DEF LogFollowsRegistry
  <2>4. CASE s = h.source
    <3>1. /\ status'[s] = "deactivated" /\ activated'[s] = activated[s] /\ Registered(s)
          /\ registry'.proof[s] = log[s].sequence /\ log[s].sequence > 0
      BY <1>1, <1>4, <1>9, <1>10, <2>4, RegistryTyped, FieldsOfTheRegistry
      DEF Inv, Registered, Known, last
    <3> QED
      BY <2>1, <2>2, <3>1 DEF LogFollowsRegistry
  <2>5. CASE s # h.target /\ s # h.source
    <3>1. /\ status'[s] = status[s] /\ activated'[s] = activated[s]
          /\ registry'.proof[s] = registry.proof[s]
      BY <1>10, <2>5, RegistryTyped DEF Inv
    <3>2. Registered(s)' = Registered(s)
      BY <3>1 DEF Registered, Known, status
    <3> QED
      BY <2>1, <2>2, <3>1, <3>2 DEF LogFollowsRegistry
  <2> QED
    BY <2>3, <2>4, <2>5
<1>15. OperationIsUnderway'
  BY <1>1, <1>4, <1>10 DEF OperationIsUnderway, Inv
<1> QED
  BY <1>11, <1>12, <1>13, <1>14, <1>15 DEF Inv

LEMMA Invariance == Inv /\ [Next]_vars => Inv'
<1> SUFFICES ASSUME Inv, [Next]_vars PROVE Inv'
  OBVIOUS
<1>1. CASE UNCHANGED vars
  <2>1. UNCHANGED <<registry, config, log, torn, pc, op>>
    BY <1>1 DEF vars
  <2>2. OperationIsUnderway' /\ pc' \in Places /\ op' \in Operation
    BY <2>1, RegistryUnchanged DEF Inv, TypeOK, OperationIsUnderway
  <2> QED
    BY <2>1, <2>2, QuietStep, TornKept
<1>2. CASE \E s \in Sessions : Resolve(s) \/ Execute(s) \/ Publish(s)
  BY <1>2, ResolveStep, ExecuteStep, PublishStep
<1>3. CASE Recover \/ Audit \/ Abort
  BY <1>3, RecoverStep, AuditStep, AbortStep
<1>4. CASE PersistConfig \/ PrepareLog \/ Create \/ Begin \/ Quiesce \/ Complete \/ Bootstrap
  BY <1>4, PersistConfigStep, PrepareLogStep, CreateStep, BeginStep, QuiesceStep, CompleteStep, BootstrapStep
<1>5. CASE RequestExport \/ CompleteExport \/ \E phase \in {"busy", "idle"} : Converse(phase)
  BY <1>5, MoveExportStep, ConverseStep DEF RequestExport, CompleteExport
<1> QED
  BY <1>1, <1>2, <1>3, <1>4, <1>5 DEF Next, Carry

THEOREM Invariant == Spec => []Inv
  BY Initially, Invariance, PTL DEF Spec

-----------------------------------------------------------------------------
\* The registry, the configs, the logs and the operation in progress keep their shape, for any
\* Sessions and streams of any length.
THEOREM TypeCorrect == Spec => []TypeOK
  BY Invariant, PTL DEF Inv

\* Whatever operation is interrupted after whatever durable step (coordinator.py), the registry's log
\* replays to a state _validate_state accepts, and a Session is "created" only as the target of the
\* pending handoff.
THEOREM RegistryStaysCoherent == Spec => []RegistryIsCoherent
  BY Invariant, PTL DEF Inv

\* A torn log is the current Session's, and an operation that has opened that log found it whole.
TornIsCurrent ==
    /\ torn \subseteq {current}
    /\ pc \in {"persisting", "preparing", "creating", "beginning", "completing", "writing"} => torn = {}

\* A commit that goes through has opened the log of the current Session; one that is interrupted tears it.
LEMMA CommitTears ==
    ASSUME Inv, TornIsCurrent, UNCHANGED registry, NEW s, s = current, NEW after,
           \/ Commit(s, after)
           \/ Interrupted(s, after) /\ pc' = "idle"
    PROVE  TornIsCurrent'
<1>1. current' = current
  BY RegistryUnchanged
<1>2. CASE Commit(s, after)
  BY <1>1, <1>2 DEF Commit, TornIsCurrent
<1>3. CASE Interrupted(s, after) /\ pc' = "idle"
  BY <1>1, <1>3 DEF Interrupted, TornIsCurrent
<1> QED
  BY <1>2, <1>3

LEMMA TornStaysCurrent == Inv /\ TornIsCurrent /\ [Next]_vars => TornIsCurrent'
<1> SUFFICES ASSUME Inv, TornIsCurrent, [Next]_vars PROVE TornIsCurrent'
  OBVIOUS
<1>1. ASSUME UNCHANGED <<registry, torn>>, pc' \in {"idle", "auditing", "quiescing", "bootstrapping"} \cup {pc}
      PROVE  TornIsCurrent'
  BY <1>1, RegistryUnchanged DEF TornIsCurrent
<1>2. CASE UNCHANGED vars
  BY <1>1, <1>2 DEF vars
<1>3. ASSUME NEW s \in Sessions, Resolve(s) PROVE TornIsCurrent'
  <2>1. CASE pc' = "persisting"
    <3>1. current = None /\ UNCHANGED <<registry, torn>>
      BY <1>3, <2>1 DEF Resolve
    <3>2. torn = {}
      BY <3>1, NoneIsNoSession DEF TornIsCurrent, Inv, TypeOK
    <3> QED
      BY <3>1, <3>2, RegistryUnchanged DEF TornIsCurrent
  <2>2. CASE pc' # "persisting"
    BY <1>1, <1>3, <2>2 DEF Resolve, Preparation
  <2> QED
    BY <2>1, <2>2
<1>4. CASE Recover \/ Audit \/ Abort \/ \E s \in Sessions : Execute(s)
  BY <1>1, <1>4 DEF Recover, Audit, Abort, Execute, Goto, Return
<1>5. CASE PersistConfig
  BY <1>5, RegistryUnchanged DEF PersistConfig, Goto, TornIsCurrent
<1>6. CASE PrepareLog
  BY <1>6, RegistryUnchanged DEF PrepareLog, TornIsCurrent
<1>7. CASE Create \/ Complete
  <2>1. torn' = {} 
    BY <1>7 DEF Create, Complete, Provable, TornIsCurrent
  <2> QED
    BY <2>1 DEF TornIsCurrent
<1>8. CASE Begin
  <2>1. torn' = {}
    BY <1>8 DEF Begin, TornIsCurrent
  <2> QED
    BY <2>1 DEF TornIsCurrent
<1>9. CASE Quiesce
  <2>1. pending.source = current
    BY <1>9, PendingSource DEF Quiesce, Inv, OperationIsUnderway
  <2> QED
    BY <1>9, <2>1, CommitTears DEF Quiesce, Return
<1>10. CASE Bootstrap
  BY <1>10, CommitTears DEF Bootstrap, Return
<1>11. ASSUME NEW l, pc = "writing", Write(l) PROVE TornIsCurrent'
  <2>1. op.session = current
    BY <1>11, Writable DEF Inv, OperationIsUnderway
  <2> QED
    BY <1>11, <2>1, CommitTears DEF Write, Return
<1>12. CASE RequestExport \/ CompleteExport \/ \E phase \in {"busy", "idle"} : Converse(phase)
  BY <1>11, <1>12 DEF RequestExport, CompleteExport, MoveExport, Converse
<1>13. ASSUME NEW s \in Sessions, Publish(s) PROVE TornIsCurrent'
  <2>1. s = current /\ UNCHANGED <<registry, pc>> /\ pc = "idle"
    BY <1>13 DEF Publish, MayWrite
  <2>2. PICK p \in {"busy", "idle"} :
            \/ Commit(s, Appended(log[s], activated[s], p))
            \/ Interrupted(s, Appended(log[s], activated[s], p))
    BY <1>13 DEF Publish
  <2> QED
    BY <2>1, <2>2, CommitTears
<1> QED
  BY <1>2, <1>3, <1>4, <1>5, <1>6, <1>7, <1>8, <1>9, <1>10, <1>12, <1>13 DEF Next, Carry

LEMMA TornInvariant == Spec => [](Inv /\ TornIsCurrent)
<1>1. Init => TornIsCurrent
  BY DEF Init, TornIsCurrent
<1> QED
  BY <1>1, Invariant, TornStaysCurrent, PTL DEF Spec

LEMMA InvImpliesAuditable == Inv /\ TornIsCurrent => RecoveryRefusesOnlyTornLogs
<1> SUFFICES ASSUME Inv, TornIsCurrent, NEW s \in Sessions PROVE Auditable(s) \/ (s \in torn /\ s = current)
  BY DEF RecoveryRefusesOnlyTornLogs
<1> SUFFICES ASSUME Registered(s), s \notin torn PROVE Auditable(s)
  BY DEF Auditable, TornIsCurrent
<1>1. LogFollowsRegistry(s) /\ log[s].sequence \in Nat /\ status[s] \in Statuses
  BY LogTyped, RegistryTyped DEF Inv
<1>2. status[s] = "created" => pending.target = s
  BY DEF Inv, RegistryIsCoherent
<1>3. status[s] = "active" => current = s /\ activated[s] = generation
  BY FieldsOfTheRegistry DEF Inv, RegistryIsCoherent, ValidState
<1>4. status[s] = "deactivating" => pending.source = s
  BY FieldsOfTheRegistry DEF Inv, RegistryIsCoherent, ValidState
<1>5. status[s] # "unknown"
  BY FieldsOfTheRegistry DEF Registered, Known
<1> QED
  BY <1>1, <1>2, <1>3, <1>4, <1>5 DEF Auditable, LogFollowsRegistry, Statuses

\* Recovery's audit (_preflight_recovery_dialogues) accepts what an interruption between two commits
\* leaves on the disk, of every Session.  A death inside a publication, which an open without repairs
\* refuses from then on, can only have torn the log of the current Session: no earlier one is ever lost.
THEOREM OnlyTornLogsStopRecovery == Spec => []RecoveryRefusesOnlyTornLogs
  BY TornInvariant, InvImpliesAuditable, PTL

\* Between the fence and the target's start the source has given its work up: no two Sessions ever hold
\* work for a Host (decide_fenced_quiesce before complete_handoff).
THEOREM OneSessionAtATimeHasWork == Spec => []OneSessionHasWork
<1>1. Inv => OneSessionHasWork
  BY DEF Inv, LogFollowsRegistry, OneSessionHasWork
<1> QED
  BY <1>1, Invariant, PTL

-----------------------------------------------------------------------------
(* The Sessions behave as OneConversation.                                 *)

Open == IF current \in Ended THEN None ELSE current
Said == [s \in Sessions |-> log[s].sequence]

LEMMA EndedMeans ==
    ASSUME NEW s \in Sessions
    PROVE  s \in Ended <=>
            \/ status[s] = "deactivated"
            \/ status[s] = "deactivating" /\ log[s].phase = "idle"
  BY DEF Ended

LEMMA ActiveIsOpen ==
    ASSUME TypeOK, current \in Sessions, status[current] = "active"
    PROVE  Open = current /\ current \notin Ended /\ current # None
  BY EndedMeans, NoneIsNoSession DEF Open

\* A step that changes no status, no sequence and no phase cannot be seen.
LEMMA Unseen ==
    ASSUME UNCHANGED registry,
           \A s \in Sessions : log'[s].sequence = log[s].sequence /\ log'[s].phase = log[s].phase
    PROVE  UNCHANGED <<Open, Ended, Said>>
<1>1. Ended' = Ended
  BY RegistryUnchanged DEF Ended
<1>2. Said' = Said
  BY DEF Said
<1> QED
  BY <1>1, <1>2, RegistryUnchanged DEF Open

LEMMA SayIsSaid ==
    ASSUME Inv, UNCHANGED registry, NEW t \in Sessions, MayWrite(t),
           log'[t].sequence = log[t].sequence + 1,
           \A s \in Sessions : s # t => log'[s] = log[s]
    PROVE  Conversation!Say
<1>1. t = current /\ status[t] = "active"
  BY Writable
<1>2. Ended' = Ended
  BY <1>1, RegistryUnchanged DEF Ended
<1>3. Open = t /\ Open' = Open /\ Open # None
  BY <1>1, <1>2, ActiveIsOpen, RegistryUnchanged DEF Inv, Open
<1>4. Said' = [Said EXCEPT ![t] = Said[t] + 1]
  BY DEF Said
<1> QED
  BY <1>2, <1>3, <1>4 DEF Conversation!Say, Conversation!Grow, Open, Said

LEMMA AppendedIsSaid ==
    ASSUME Inv, UNCHANGED registry, NEW t \in Sessions, MayWrite(t),
           NEW l, l.sequence = log[t].sequence + 1, log' = [log EXCEPT ![t] = l]
    PROVE  Conversation!Say
  BY SayIsSaid DEF Inv, TypeOK

\* A commit says one thing, and an interrupted one at most that.
LEMMA CommittedIsSaid ==
    ASSUME Inv, UNCHANGED registry, NEW t \in Sessions, MayWrite(t),
           NEW l, l.sequence = log[t].sequence + 1, Commit(t, l) \/ Interrupted(t, l)
    PROVE  Conversation!Next \/ UNCHANGED Conversation!vars
<1>1. CASE log' = log
  BY <1>1, Unseen DEF Conversation!vars, Open, Said
<1>2. CASE log' = [log EXCEPT ![t] = l]
  BY <1>2, AppendedIsSaid DEF Conversation!Next
<1> QED
  BY <1>1, <1>2, Committing

LEMMA WriteIsSaid ==
    ASSUME Inv, pc = "writing", NEW l, l.sequence = log[op.session].sequence + 1, Write(l)
    PROVE  Conversation!Next \/ UNCHANGED Conversation!vars
<1>1. op.session \in Sessions /\ MayWrite(op.session)
  BY DEF Inv, OperationIsUnderway
<1> QED
  BY <1>1, CommittedIsSaid DEF Write

LEMMA CreateOpens == ASSUME Inv, Create PROVE Conversation!Next
<1> DEFINE t == op.session
<1>1. /\ Decide(registry, CreateAndActivateDialogue(t)) = DecideCreate(registry, t)
      /\ pc = "creating" /\ UNCHANGED log
      /\ DecideCreate(registry, t) # <<>> /\ registry' = Reduced(registry, DecideCreate(registry, t))
  BY DEF Create, Register, Decide, CreateAndActivateDialogue
<1>2. t \in Sessions /\ registry \in Registries
  BY <1>1, Prepared DEF Inv, TypeOK
<1>3. /\ DecideCreate(registry, t) = Creation(registry, t)
      /\ registry.current = None /\ ~ Known(registry, t)
  BY <1>1, <1>2, CreateDecision
<1>4. AfterCreation(registry, t, registry')
  BY <1>1, <1>2, <1>3, CreationEffect
<1> HIDE DEF t
<1>5. current' = t /\ status' = [status EXCEPT ![t] = "active"]
  BY <1>4, FieldsOfTheRegistry DEF AfterCreation, current, status
<1>6. current = None /\ status[t] = "unknown" /\ log[t].sequence = 0
  BY <1>2, <1>3, FieldsOfTheRegistry DEF Known, Inv, LogFollowsRegistry
<1>7. Ended' = Ended /\ t \notin Ended
  BY <1>1, <1>2, <1>5, <1>6, RegistryTyped DEF Ended, Inv
<1>8. Open = None /\ Open' = t /\ Said' = Said /\ Said[t] = 0
  BY <1>1, <1>2, <1>5, <1>6, <1>7 DEF Open, Said
<1>9. Conversation!Open(t)
  BY <1>7, <1>8 DEF Conversation!Open, Open, Said
<1> QED
  BY <1>2, <1>9 DEF Conversation!Next

LEMMA BeginCloses == ASSUME Inv, Begin PROVE Conversation!Next \/ UNCHANGED Conversation!vars
<1> DEFINE t == op.session
           h == [source |-> current, target |-> t, generation |-> Fence(registry)]
<1>1. /\ Decide(registry, BeginHandoff(current, t)) = DecideBegin(registry, current, t)
      /\ pc = "beginning" /\ UNCHANGED log
      /\ DecideBegin(registry, current, t) # <<>>
      /\ registry' = Reduced(registry, DecideBegin(registry, current, t))
  <2>1. Decide(registry, BeginHandoff(current, t)) = DecideBegin(registry, current, t)
    BY DEF Decide, BeginHandoff
  <2> QED
    BY <2>1 DEF Begin, Register
<1>2. t \in Sessions /\ registry \in Registries /\ current \in Sessions
  BY <1>1, Prepared DEF Inv, TypeOK, OperationIsUnderway
<1>3. /\ h \in Handoff /\ MayBegin(registry, h)
      /\ \/ ~ Known(registry, t) /\ DecideBegin(registry, current, t) = NewFence(registry, h)
         \/ registry.status[t] = "created" /\ DecideBegin(registry, current, t) = OldFence(h)
  BY <1>1, <1>2, BeginDecision
<1>4. h.source = current /\ h.target = t
  OBVIOUS
<1> HIDE DEF h
<1>5. AfterFence(registry, h, registry')
  BY <1>1, <1>2, <1>3, <1>4, FenceEffect
<1> HIDE DEF t
<1>6. /\ current' = current
      /\ status' = [[status EXCEPT ![t] = "created"] EXCEPT ![current] = "deactivating"]
  BY <1>4, <1>5, FieldsOfTheRegistry DEF AfterFence, current, status
<1>7. status[current] = "active" /\ status[t] \in {"unknown", "created"}
  BY <1>3, <1>4, FieldsOfTheRegistry DEF MayBegin, Known
<1>8. Open = current /\ current \notin Ended /\ current # None /\ Said' = Said
  BY <1>1, <1>2, <1>7, ActiveIsOpen DEF Inv, Said
<1>9. Ended' = IF log[current].phase = "idle" THEN Ended \cup {current} ELSE Ended
  BY <1>1, <1>2, <1>6, <1>7, RegistryTyped DEF Ended, Inv
<1>10. CASE log[current].phase = "idle"
  <2>1. Ended' = Ended \cup {Open} /\ Open' = None
    BY <1>6, <1>8, <1>9, <1>10 DEF Open
  <2> QED
    BY <1>8, <2>1 DEF Conversation!Next, Conversation!Close, Open, Said
<1>11. CASE log[current].phase # "idle"
  <2>1. Ended' = Ended /\ Open' = Open
    BY <1>6, <1>8, <1>9, <1>11 DEF Open
  <2> QED
    BY <1>8, <2>1 DEF Conversation!vars, Open, Said
<1> QED
  BY <1>10, <1>11

LEMMA QuiesceCloses == ASSUME Inv, Quiesce PROVE Conversation!Next \/ UNCHANGED Conversation!vars
<1> DEFINE t == pending.source
           l == Appended(log[t], pending.generation, "idle")
<1>1. pending # NoHandoff /\ UNCHANGED registry
  BY DEF Quiesce, Inv, OperationIsUnderway
<1>2. /\ t \in Sessions /\ t = current /\ status[t] = "deactivating"
      /\ pending.generation \in Nat
  BY <1>1, PendingSource
<1>3. log' = log \/ log' = [log EXCEPT ![t] = Quiesced(log[t])]
  BY <1>2, Committing DEF Quiesce
<1>4. CASE log' = log
  BY <1>1, <1>4, Unseen DEF Conversation!vars, Open, Said
<1>5. CASE log' # log
  <2>1. log[t].phase # "idle" /\ log' = [log EXCEPT ![t] = l]
    BY <1>3, <1>5 DEF Quiesced, Inv, TypeOK
  <2>2. log[t] \in Log
    BY <1>2, LogTyped DEF Inv
  <2>3. l.sequence = log[t].sequence + 1 /\ l.phase = "idle"
    BY <1>2, <2>2, Appending
  <2> HIDE DEF t, l
  <2>5. t \notin Ended /\ t # None
    BY <1>2, <2>1, EndedMeans, NoneIsNoSession
  <2>6. Ended' = Ended \cup {t}
    BY <1>1, <1>2, <2>1, <2>3, RegistryUnchanged DEF Ended, Inv, TypeOK
  <2>7. Open = t /\ Open' = None
    BY <1>1, <1>2, <2>5, <2>6, RegistryUnchanged DEF Open
  <2>8. Said' = [Said EXCEPT ![t] = Said[t] + 1]
    BY <1>2, <2>1, <2>3 DEF Said, Inv, TypeOK
  <2> QED
    BY <2>5, <2>6, <2>7, <2>8 DEF Conversation!Next, Conversation!Close, Conversation!Grow, Open, Said
<1> QED
  BY <1>4, <1>5

LEMMA CompleteOpens == ASSUME Inv, Complete PROVE Conversation!Next
<1> DEFINE h == pending
           last == log[h.source].sequence
<1>1. /\ UNCHANGED log
      /\ DecideComplete(registry, h, last) # <<>>
      /\ registry' = Reduced(registry, DecideComplete(registry, h, last))
      /\ log[h.source].phase = "idle"
  <2>1. Decide(registry, CompleteHandoff(h, last)) = DecideComplete(registry, h, last)
    BY DEF Decide, CompleteHandoff
  <2> QED
    BY <2>1 DEF Complete, Provable, Register
<1>2. registry \in Registries /\ ValidState(registry) /\ h = registry.pending
  BY FieldsOfTheRegistry DEF Inv, TypeOK, RegistryIsCoherent
<1>3. h # NoHandoff
  BY <1>1, <1>2 DEF DecideComplete
<1>4. /\ h.source \in Sessions /\ h.target \in Sessions /\ h.source = current
      /\ status[h.source] = "deactivating"
  BY <1>3, PendingSource
<1>5. last \in Nat
  BY <1>4, LogTyped DEF Inv
<1> HIDE DEF last
<1>6. DecideComplete(registry, h, last) = Completion(h, last) /\ h \in Handoff
  BY <1>1, <1>2, <1>5, CompleteDecision
<1>7. AfterCompletion(registry, h, last, registry')
  BY <1>1, <1>2, <1>5, <1>6, CompletionEffect
<1>8. status[h.target] = "created" /\ h.target # h.source
  BY <1>2, <1>3, <1>4, FieldsOfTheRegistry DEF ValidState
<1> HIDE DEF h
<1>9. /\ current' = h.target
      /\ status' = [[status EXCEPT ![h.source] = "deactivated"] EXCEPT ![h.target] = "active"]
  BY <1>7, FieldsOfTheRegistry DEF AfterCompletion, current, status
<1>10. Ended' = Ended /\ h.source \in Ended /\ h.target \notin Ended
  BY <1>1, <1>4, <1>8, <1>9, RegistryTyped DEF Ended, Inv
<1>11. log[h.target].sequence = 0
  BY <1>4, <1>8, FieldsOfTheRegistry DEF Inv, LogFollowsRegistry
<1>12. Open = None /\ Open' = h.target /\ Said' = Said /\ Said[h.target] = 0
  BY <1>1, <1>4, <1>9, <1>10, <1>11 DEF Open, Said
<1>13. Conversation!Open(h.target)
  BY <1>10, <1>12 DEF Conversation!Open, Open, Said
<1> QED
  BY <1>4, <1>13 DEF Conversation!Next

LEMMA BootstrapSays == ASSUME Inv, Bootstrap PROVE Conversation!Next \/ UNCHANGED Conversation!vars
<1> DEFINE t == current
           l == Appended(log[t], generation, "busy")
<1>1. /\ UNCHANGED registry /\ MayWrite(t) /\ t \in Sessions
      /\ Commit(t, Started(log[t])) \/ Interrupted(t, Started(log[t]))
  BY DEF Bootstrap, Inv, OperationIsUnderway
<1>2. CASE log[t].sequence > 0
  <2>1. log' = log
    BY <1>1, <1>2, Committing DEF Started, Inv, TypeOK
  <2> QED
    BY <1>1, <2>1, Unseen DEF Conversation!vars, Open, Said
<1>3. CASE ~ (log[t].sequence > 0)
  <2>1. log[t] \in Log /\ generation \in Nat
    BY <1>1, LogTyped, RegistryTyped DEF Inv
  <2>2. l.sequence = log[t].sequence + 1
    BY <2>1, Appending
  <2>3. Commit(t, l) \/ Interrupted(t, l)
    BY <1>1, <1>3 DEF Started
  <2> HIDE DEF t, l
  <2> QED
    BY <1>1, <2>2, <2>3, CommittedIsSaid
<1> QED
  BY <1>2, <1>3

LEMMA ConverseSays ==
    ASSUME Inv, NEW p \in {"busy", "idle"}, Converse(p)
    PROVE  Conversation!Next \/ UNCHANGED Conversation!vars
<1> DEFINE l == Appended(log[op.session], generation, p)
<1>1. log[op.session] \in Log /\ generation \in Nat /\ pc = "writing" /\ Write(l)
  BY LogTyped, RegistryTyped DEF Converse, Inv, OperationIsUnderway
<1>2. l.sequence = log[op.session].sequence + 1
  <2>1. CASE p = "busy"
    BY <1>1, <2>1, Appending
  <2>2. CASE p = "idle"
    BY <1>1, <2>2, Appending
  <2> QED
    BY <2>1, <2>2
<1> HIDE DEF l
<1> QED
  BY <1>1, <1>2, WriteIsSaid

LEMMA MoveExportSays ==
    ASSUME Inv, NEW from, NEW to \in {"requested", "completed"}, MoveExport(from, to)
    PROVE  Conversation!Next \/ UNCHANGED Conversation!vars
<1> DEFINE a == Appended(log[op.session], generation, log[op.session].phase)
           l == [a EXCEPT !.export = to]
<1>1. op.session \in Sessions
  BY DEF MoveExport, Inv, OperationIsUnderway
<1>2. log[op.session] \in Log /\ generation \in Nat /\ log[op.session].phase \in {"new", "busy", "idle"}
  BY <1>1, LogTyped, RegistryTyped DEF Inv
<1>3. a \in Log /\ a.sequence = log[op.session].sequence + 1
  BY <1>2, Appending
<1>4. pc = "writing" /\ Write(l)
  BY DEF MoveExport
<1> HIDE DEF a
<1>5. l.sequence = a.sequence
  BY <1>3 DEF Log
<1> HIDE DEF l
<1> QED
  BY <1>3, <1>4, <1>5, WriteIsSaid

LEMMA PublishSays ==
    ASSUME Inv, NEW s \in Sessions, Publish(s)
    PROVE  Conversation!Next \/ UNCHANGED Conversation!vars
<1>1. activated[s] = generation /\ MayWrite(s) /\ UNCHANGED registry
  BY Writable DEF Publish
<1>2. PICK p \in {"busy", "idle"} :
        \/ Commit(s, Appended(log[s], generation, p))
        \/ Interrupted(s, Appended(log[s], generation, p))
  BY <1>1 DEF Publish
<1>3. log[s] \in Log /\ generation \in Nat
  BY LogTyped, RegistryTyped DEF Inv
<1> DEFINE l == Appended(log[s], generation, p)
<1>4. l.sequence = log[s].sequence + 1
  <2>1. CASE p = "busy"
    BY <1>3, <2>1, Appending
  <2>2. CASE p = "idle"
    BY <1>3, <2>2, Appending
  <2> QED
    BY <2>1, <2>2
<1>5. Commit(s, l) \/ Interrupted(s, l)
  BY <1>2
<1> HIDE DEF l
<1> QED
  BY <1>1, <1>4, <1>5, CommittedIsSaid

\* What prepares a Session, asks for an operation or gives one up adds nothing to a conversation.
LEMMA PreparationIsUnseen ==
    ASSUME Inv,
           UNCHANGED <<registry, log>> \/ PrepareLog
    PROVE  UNCHANGED Conversation!vars
<1>1. CASE UNCHANGED <<registry, log>>
  BY <1>1, Unseen DEF Conversation!vars, Open, Said
<1>2. CASE PrepareLog
  <2>1. op.session \in Sessions /\ UNCHANGED registry
    BY <1>2 DEF PrepareLog, Inv, OperationIsUnderway
  <2>2. \A s \in Sessions : log'[s].sequence = log[s].sequence /\ log'[s].phase = log[s].phase
    BY <1>2, <2>1 DEF PrepareLog, Inv, TypeOK, Log
  <2> QED
    BY <2>1, <2>2, Unseen DEF Conversation!vars, Open, Said
<1> QED
  BY <1>1, <1>2

LEMMA StepsAreConversation == Inv /\ [Next]_vars => [Conversation!Next]_(Conversation!vars)
<1> SUFFICES ASSUME Inv, [Next]_vars PROVE Conversation!Next \/ UNCHANGED Conversation!vars
  OBVIOUS
<1>1. CASE UNCHANGED vars
  BY <1>1, PreparationIsUnseen DEF vars
<1>2. CASE \E s \in Sessions : Resolve(s) \/ Execute(s)
  <2>1. UNCHANGED <<registry, log>>
    BY <1>2 DEF Resolve, Execute
  <2> QED
    BY <2>1, PreparationIsUnseen
<1>3. CASE Recover \/ Audit \/ Abort \/ PersistConfig
  <2>1. UNCHANGED <<registry, log>>
    BY <1>3 DEF Recover, Audit, Abort, PersistConfig
  <2> QED
    BY <2>1, PreparationIsUnseen
<1>4. CASE PrepareLog
  BY <1>4, PreparationIsUnseen
<1>5. CASE Create \/ Begin \/ Quiesce \/ Complete \/ Bootstrap
  BY <1>5, CreateOpens, BeginCloses, QuiesceCloses, CompleteOpens, BootstrapSays
<1>6. CASE RequestExport \/ CompleteExport \/ \E phase \in {"busy", "idle"} : Converse(phase)
  BY <1>6, MoveExportSays, ConverseSays DEF RequestExport, CompleteExport
<1>7. CASE \E s \in Sessions : Publish(s)
  BY <1>7, PublishSays
<1> QED
  BY <1>1, <1>2, <1>3, <1>4, <1>5, <1>6, <1>7 DEF Next, Carry

\* Crashes, retries and half-finished handoffs (coordinator.py) are invisible: any number of Sessions
\* behave as one conversation at a time, each closed with at most one last event and never opened again.
THEOREM SessionsAreOneConversation == Spec => IsOneConversation
<1>1. Init => Conversation!Init
  <2> SUFFICES ASSUME Init PROVE Conversation!Init
    OBVIOUS
  <2>1. registry = Empty /\ \A s \in Sessions : log[s].sequence = 0 /\ log[s].phase = "new"
    BY DEF Init, NoLog
  <2>2. Ended = {}
    BY <2>1, FieldsOfTheRegistry DEF Ended, Empty
  <2>3. Open = None /\ Said = [s \in Sessions |-> 0]
    BY <2>1, <2>2, FieldsOfTheRegistry DEF Open, Said, Empty
  <2> QED
    BY <2>2, <2>3 DEF Conversation!Init, Open, Said
<1> QED
  BY <1>1, Invariant, StepsAreConversation, PTL DEF Spec, IsOneConversation, Conversation!Spec

-----------------------------------------------------------------------------
(* Deciding and replaying.                                                 *)

Generations == {generation, Fence(registry)}
Handoffs == [source : Sessions, target : Sessions, generation : Generations]

\* What a transaction of the run's universe is made of.
LEMMA TransactionKinds ==
    ASSUME NEW x
    PROVE  x \in Transactions <=>
            \/ \E t \in Sessions, g \in Generations, u \in Sessions, f \in Generations, k \in Kinds :
                    x = <<DialogueCreated(t, g), Activated(u, f, k)>>
            \/ \E t \in Sessions, g \in Generations, h \in Handoffs :
                    x = <<DialogueCreated(t, g), DeactivationStarted(h)>>
            \/ \E h \in Handoffs : x = <<DeactivationStarted(h)>>
            \/ \E h \in Handoffs, u \in Sessions, f \in Generations, k \in Kinds :
                    x = <<Deactivated(h, 1), Activated(u, f, k)>>
  BY DEF Transactions, Generations, Handoffs

LEMMA TransactionsAreTyped ==
    ASSUME Inv, NEW x \in Transactions
    PROVE  x \in Seq(Events)
<1>1. Generations \subseteq Nat
  BY RegistryTyped, FieldsOfTheRegistry DEF Inv, Generations, Fence
<1>2. Handoffs \subseteq Handoff
  BY <1>1 DEF Handoffs, Handoff
<1>3. \A t \in Sessions, g \in Generations : DialogueCreated(t, g) \in Events
  BY <1>1 DEF DialogueCreated, Events
<1>4. \A h \in Handoffs : h \in Handoff /\ h.generation \in Nat
  BY <1>2 DEF Handoff
<1>5. \A h \in Handoffs : DeactivationStarted(h) \in Events /\ Deactivated(h, 1) \in Events
  BY <1>4 DEF DeactivationStarted, Deactivated, Events
<1>6. \A u \in Sessions, f \in Generations, k \in Kinds : Activated(u, f, k) \in Events
  BY <1>1 DEF Activated, Events
<1>7. \A a, b \in Events : <<a>> \in Seq(Events) /\ <<a, b>> \in Seq(Events)
  OBVIOUS
<1>8. CASE \E t \in Sessions, g \in Generations, u \in Sessions, f \in Generations, k \in Kinds :
              x = <<DialogueCreated(t, g), Activated(u, f, k)>>
  BY <1>3, <1>6, <1>7, <1>8
<1>9. CASE \E t \in Sessions, g \in Generations, h \in Handoffs :
              x = <<DialogueCreated(t, g), DeactivationStarted(h)>>
  BY <1>3, <1>5, <1>7, <1>9
<1>10. CASE \E h \in Handoffs : x = <<DeactivationStarted(h)>>
  BY <1>5, <1>7, <1>10
<1>11. CASE \E h \in Handoffs, u \in Sessions, f \in Generations, k \in Kinds :
              x = <<Deactivated(h, 1), Activated(u, f, k)>>
  BY <1>5, <1>6, <1>7, <1>11
<1> QED
  BY <1>8, <1>9, <1>10, <1>11, TransactionKinds

LEMMA ReplayedIsDecided ==
    ASSUME Inv, NEW x \in Transactions, ValidTransaction(registry, x)
    PROVE  \E c \in Commands : x = Decide(registry, c) /\ x # <<>>
<1> DEFINE r == registry
<1>1. r \in Registries /\ ValidState(r) /\ x \in Seq(Events)
  BY TransactionsAreTyped DEF Inv, TypeOK, RegistryIsCoherent
<1> HIDE DEF r
<1>2. CASE \E t \in Sessions :
            /\ r.current = None /\ r.pending = NoHandoff /\ ~ Known(r, t)
            /\ x = Creation(r, t)
  <2>1. PICK t \in Sessions :
            /\ r.current = None /\ r.pending = NoHandoff /\ ~ Known(r, t)
            /\ x = Creation(r, t)
    BY <1>2
  <2>2. Decide(r, CreateAndActivateDialogue(t)) = DecideCreate(r, t)
    BY DEF Decide, CreateAndActivateDialogue
  <2>3. DecideCreate(r, t) = x /\ x # <<>>
    BY <2>1 DEF DecideCreate, Creation
  <2>4. CreateAndActivateDialogue(t) \in Commands
    BY DEF Commands
  <2> QED
    BY <2>2, <2>3, <2>4 DEF r
<1>3. ASSUME NEW h \in Handoff, MayBegin(r, h), h.target \in Sessions, h.source \in Sessions,
             \/ ~ Known(r, h.target) /\ x = NewFence(r, h)
             \/ r.status[h.target] = "created" /\ x = OldFence(h)
      PROVE  \E c \in Commands : x = Decide(r, c) /\ x # <<>>
  <2>1. Decide(r, BeginHandoff(h.source, h.target)) = DecideBegin(r, h.source, h.target)
    BY DEF Decide, BeginHandoff
  <2>2. h = [source |-> h.source, target |-> h.target, generation |-> Fence(r)]
    BY <1>3 DEF MayBegin, Handoff
  <2>3. DecideBegin(r, h.source, h.target) = x /\ x # <<>>
    BY <1>3, <2>2 DEF DecideBegin, MayBegin, Known, NewFence, OldFence
  <2>4. BeginHandoff(h.source, h.target) \in Commands
    BY <1>3 DEF Commands
  <2> QED
    BY <2>1, <2>3, <2>4
<1>4. CASE \E last \in Nat : r.pending # NoHandoff /\ x = Completion(r.pending, last)
  <2>1. PICK last \in Nat : r.pending # NoHandoff /\ x = Completion(r.pending, last)
    BY <1>4
  <2>2. x[1] = Deactivated(r.pending, last)
    BY <2>1 DEF Completion
  <2>3. last = 1
    <3>1. x[1].type = "Deactivated" /\ x[1].last = last
      BY <2>2 DEF Deactivated
    <3> QED
      BY <3>1, TransactionKinds DEF DialogueCreated, DeactivationStarted, Deactivated
  <2>4. r.pending \in Handoff /\ r.pending.generation = r.generation
    BY <1>1, <2>1, Typed DEF ValidState
  <2>5. CompleteHandoff(r.pending, 1) \in Commands
    <3>1. r.pending \in [source : Sessions, target : Sessions, generation : {generation, Fence(registry)}]
      BY <2>4, FieldsOfTheRegistry DEF Handoff, r
    <3> QED
      BY <3>1 DEF Commands
  <2>6. Decide(r, CompleteHandoff(r.pending, 1)) = DecideComplete(r, r.pending, 1)
    BY DEF Decide, CompleteHandoff
  <2>7. DecideComplete(r, r.pending, 1) = x /\ x # <<>>
    BY <2>1, <2>3 DEF DecideComplete, Completion
  <2> QED
    BY <2>5, <2>6, <2>7 DEF r
<1>5. \A h \in Handoff : h.source \in Sessions /\ h.target \in Sessions
  BY DEF Handoff
<1>6. ValidTransaction(r, x)
  BY DEF r
<1>7. \E c \in Commands : x = Decide(r, c) /\ x # <<>>
  BY <1>1, <1>2, <1>3, <1>4, <1>5, <1>6, Shapes DEF r
<1> QED
  BY <1>7 DEF r

LEMMA DecidedIsReplayed ==
    ASSUME Inv, NEW c \in Commands, Decide(registry, c) # <<>>
    PROVE  Decide(registry, c) \in Transactions /\ ValidTransaction(registry, Decide(registry, c))
<1> DEFINE r == registry
<1>1. r \in Registries /\ ValidState(r)
  BY DEF Inv, TypeOK, RegistryIsCoherent
<1>2. generation \in Nat /\ r.generation = generation /\ Fence(r) \in Nat
  BY <1>1, Typed, FieldsOfTheRegistry DEF Fence
<1>3. c \in AnyCommand
  BY <1>2 DEF Commands, AnyCommand, CreateAndActivateDialogue, BeginHandoff, CompleteHandoff, Handoff
<1>4. ValidTransaction(r, Decide(r, c))
  BY <1>1, <1>3, DecisionsAreValid
<1> HIDE DEF r
<1>5. Generations = {r.generation, Fence(r)}
  BY <1>2 DEF Generations, r
<1>6. ASSUME NEW t \in Sessions, c = CreateAndActivateDialogue(t)
      PROVE  Decide(r, c) \in Transactions
  <2>1. Decide(r, c) = DecideCreate(r, t) /\ DecideCreate(r, t) # <<>>
    BY <1>6 DEF Decide, CreateAndActivateDialogue, r
  <2>2. Decide(r, c) = <<DialogueCreated(t, r.generation), Activated(t, Fence(r), "initial")>>
    BY <1>1, <2>1, CreateDecision DEF Creation
  <2> QED
    BY <1>5, <2>2, TransactionKinds DEF Kinds
<1>7. ASSUME NEW s \in Sessions, NEW t \in Sessions, c = BeginHandoff(s, t)
      PROVE  Decide(r, c) \in Transactions
  <2> DEFINE h == [source |-> s, target |-> t, generation |-> Fence(r)]
  <2>1. Decide(r, c) = DecideBegin(r, s, t) /\ DecideBegin(r, s, t) # <<>>
    BY <1>7 DEF Decide, BeginHandoff, r
  <2>2. h \in Handoffs /\ h.target = t
    BY <1>5 DEF Handoffs
  <2>3. Decide(r, c) = NewFence(r, h) \/ Decide(r, c) = OldFence(h)
    BY <1>1, <2>1, BeginDecision
  <2> HIDE DEF h
  <2> QED
    BY <1>5, <2>2, <2>3, TransactionKinds DEF NewFence, OldFence
<1>8. ASSUME NEW h \in Handoffs, c = CompleteHandoff(h, 1)
      PROVE  Decide(r, c) \in Transactions
  <2>1. Decide(r, c) = DecideComplete(r, h, 1) /\ DecideComplete(r, h, 1) # <<>>
    BY <1>8 DEF Decide, CompleteHandoff, r
  <2>2. Decide(r, c) = <<Deactivated(h, 1), Activated(h.target, h.generation, "handoff")>>
    BY <1>1, <2>1, CompleteDecision DEF Completion
  <2>3. h.target \in Sessions /\ h.generation \in Generations
    BY DEF Handoffs
  <2> QED
    BY <2>2, <2>3, TransactionKinds DEF Kinds
<1>9. Decide(r, c) \in Transactions
  BY <1>6, <1>7, <1>8 DEF Commands, Handoffs, Generations
<1> QED
  BY <1>4, <1>9 DEF r

\* registry.py decides a handoff by one set of rules and judges the log of an earlier process by another
\* (validate_transaction): in every registry that is reached they agree.
THEOREM ReplayAgreesWithDecide == Spec => []ReplayAcceptsWhatIsDecided
<1>1. Inv => ReplayAcceptsWhatIsDecided
  BY ReplayedIsDecided, DecidedIsReplayed DEF ReplayAcceptsWhatIsDecided
<1> QED
  BY <1>1, Invariant, PTL
===============================================================================
