------------------------------- MODULE Registry -------------------------------
(***************************************************************************)
(* The registry of a learner's Sessions (xsync_v2/registry.py): what it    *)
(* decides on a command, what a transaction must be to be applied, and     *)
(* what its events do.  Commands that are repeated are answered from       *)
(* receipts before they are decided, as in TransactionLog; the registry's  *)
(* own sequence numbers are those of its log.  A handoff is known by its   *)
(* source, its target and its generation, which no two handoffs share.     *)
(***************************************************************************)
EXTENDS Naturals, Sequences

CONSTANTS
    Sessions,       \* session ids, each with the one config it is asked for
    None

ASSUME NoneIsNoSession == None \notin Sessions

Statuses == {"unknown", "created", "active", "deactivating", "deactivated"}
Kinds == {"initial", "handoff"}

Handoff == [source : Sessions, target : Sessions, generation : Nat]
NoHandoff == [source |-> None, target |-> None, generation |-> 0]

\* "proof" is the last sequence its deactivation proved: it stays in the event.
Registries == [generation : Nat, current : Sessions \cup {None}, pending : Handoff \cup {NoHandoff},
               status : [Sessions -> Statuses], activated : [Sessions -> Nat],
               deactivated : [Sessions -> Nat], proof : [Sessions -> Nat]]

Empty == [generation |-> 0, current |-> None, pending |-> NoHandoff,
          status |-> [s \in Sessions |-> "unknown"], activated |-> [s \in Sessions |-> 0],
          deactivated |-> [s \in Sessions |-> 0], proof |-> [s \in Sessions |-> 0]]

Known(r, s) == r.status[s] # "unknown"

\* Mutant: the fence keeps the generation.
FenceUnchanged(r) == r.generation

Fence(r) == r.generation + 1

-----------------------------------------------------------------------------
DialogueCreated(t, g) == [type |-> "DialogueCreated", target |-> t, generation |-> g]
DeactivationStarted(h) == [type |-> "DeactivationStarted", handoff |-> h, generation |-> h.generation]
Deactivated(h, last) == [type |-> "Deactivated", handoff |-> h, last |-> last, generation |-> h.generation]
Activated(t, g, kind) == [type |-> "Activated", target |-> t, kind |-> kind, generation |-> g]

CreateAndActivateDialogue(t) == [type |-> "create", target |-> t]
BeginHandoff(source, t) == [type |-> "begin", source |-> source, target |-> t]
CompleteHandoff(h, last) == [type |-> "complete", handoff |-> h, last |-> last]

\* decide: the events of a command, <<>> when it is refused.
DecideCreate(r, t) ==
    IF r.current = None /\ r.pending = NoHandoff /\ ~ Known(r, t)
    THEN <<DialogueCreated(t, r.generation), Activated(t, Fence(r), "initial")>> ELSE <<>>

\* Mutant: a Session that was deactivated is handed the conversation again.
DecideBeginAgain(r, source, t) ==
    LET h == [source |-> source, target |-> t, generation |-> Fence(r)] IN
    IF r.pending # NoHandoff \/ source # r.current \/ r.status[source] # "active" THEN <<>>
    ELSE CASE r.status[t] = "unknown" -> <<DialogueCreated(t, r.generation), DeactivationStarted(h)>>
           [] r.status[t] \in {"created", "deactivated"} -> <<DeactivationStarted(h)>>
           [] OTHER -> <<>>

DecideBegin(r, source, t) ==
    LET h == [source |-> source, target |-> t, generation |-> Fence(r)] IN
    IF r.pending # NoHandoff \/ source # r.current \/ r.status[source] # "active" THEN <<>>
    ELSE CASE r.status[t] = "unknown" -> <<DialogueCreated(t, r.generation), DeactivationStarted(h)>>
           [] r.status[t] = "created" -> <<DeactivationStarted(h)>>
           [] OTHER -> <<>>

DecideComplete(r, h, last) ==
    IF r.pending = NoHandoff \/ h # r.pending THEN <<>>
    ELSE <<Deactivated(h, last), Activated(h.target, h.generation, "handoff")>>

Decide(r, c) ==
    CASE c.type = "create" -> DecideCreate(r, c.target)
      [] c.type = "begin" -> DecideBegin(r, c.source, c.target)
      [] c.type = "complete" -> DecideComplete(r, c.handoff, c.last)

-----------------------------------------------------------------------------
(* A transaction, one or two events, is validated when it is committed and when it is replayed. *)

\* _validate_event_generation: both events are held against the state before the first.
ValidGeneration(r, e) ==
    e.generation = IF \/ e.type = "DeactivationStarted"
                      \/ e.type = "Activated" /\ e.kind = "initial"
                   THEN Fence(r) ELSE r.generation

\* _validate_begin_context
MayBegin(r, h) ==
    /\ r.pending = NoHandoff /\ r.current = h.source /\ r.status[h.source] = "active"
    /\ h.generation = Fence(r)

\* _validate_transaction_shape
ValidShape(r, events) ==
    LET types == [i \in DOMAIN events |-> events[i].type]
        first == events[1]
        last == events[Len(events)] IN
    \/ /\ types = <<"DialogueCreated", "Activated">>
       /\ last.kind = "initial" /\ last.target = first.target /\ last.generation = Fence(r)
       /\ r.current = None /\ r.pending = NoHandoff /\ ~ Known(r, first.target)
    \/ /\ types = <<"DialogueCreated", "DeactivationStarted">>
       /\ first.target = last.handoff.target /\ ~ Known(r, first.target)
       /\ MayBegin(r, last.handoff)
    \/ /\ types = <<"DeactivationStarted">>
       /\ r.status[first.handoff.target] = "created" /\ MayBegin(r, first.handoff)
    \/ /\ types = <<"Deactivated", "Activated">>
       /\ r.pending # NoHandoff /\ first.handoff = r.pending
       /\ last.kind = "handoff" /\ last.target = r.pending.target
       /\ last.generation = r.pending.generation

\* validate_transaction
ValidTransaction(r, events) ==
    (\A i \in DOMAIN events : ValidGeneration(r, events[i])) /\ ValidShape(r, events)

\* _apply_event
Applied(r, e) ==
    CASE e.type = "DialogueCreated" -> [r EXCEPT !.status[e.target] = "created"]
      [] e.type = "DeactivationStarted" ->
            [r EXCEPT !.generation = e.generation, !.pending = e.handoff,
                      !.status[e.handoff.source] = "deactivating"]
      [] e.type = "Deactivated" ->
            [r EXCEPT !.current = None, !.status[e.handoff.source] = "deactivated",
                      !.deactivated[e.handoff.source] = e.generation,
                      !.proof[e.handoff.source] = e.last]
      [] e.type = "Activated" ->
            [r EXCEPT !.generation = e.generation, !.current = e.target, !.pending = NoHandoff,
                      !.status[e.target] = "active", !.activated[e.target] = e.generation]

\* reduce
Reduced(r, events) ==
    IF Len(events) = 1 THEN Applied(r, events[1]) ELSE Applied(Applied(r, events[1]), events[2])

-----------------------------------------------------------------------------
\* _valid_registered
ValidRegistration(r, s) ==
    CASE r.status[s] \in {"unknown", "created"} -> r.activated[s] = 0 /\ r.deactivated[s] = 0
      [] r.status[s] = "active" -> r.activated[s] \in 1 .. r.generation /\ r.deactivated[s] = 0
      [] r.status[s] = "deactivating" ->
            r.activated[s] > 0 /\ r.activated[s] < r.generation /\ r.deactivated[s] = 0
      [] r.status[s] = "deactivated" ->
            r.activated[s] > 0 /\ r.deactivated[s] \in r.activated[s] + 1 .. r.generation

\* _validate_state: a registry that is not so is refused, at the end of a transaction and when it is
\* loaded.
ValidState(r) ==
    LET With(status) == {s \in Sessions : r.status[s] = status} IN
    /\ \A s \in Sessions : ValidRegistration(r, s)
    /\ IF r.pending = NoHandoff
       THEN /\ With("deactivating") = {}
            /\ IF r.current = None THEN With("active") = {} /\ r.generation = 0
               ELSE With("active") = {r.current} /\ r.activated[r.current] = r.generation
       ELSE /\ r.current = r.pending.source /\ r.pending.generation = r.generation
            /\ With("deactivating") = {r.pending.source} /\ With("active") = {}
            /\ r.status[r.pending.target] = "created"
===============================================================================
