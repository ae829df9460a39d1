-------------------------------- MODULE Delivery --------------------------------
(***************************************************************************)
(* After-commit delivery of one Session's events: the catch-up from the    *)
(* log (coordinator.py), the dispatcher (dispatch.py) and the hub          *)
(* (observer.py), its two observers (observers/), a page's subscription    *)
(* and a Host that waits for work (host_control.py).                       *)
(*                                                                         *)
(* Operations run in threads.  Each first makes sure that what is on the   *)
(* disk was delivered, then commits under the writer locks, and delivers   *)
(* after it has released them, so two commits may reach the dispatcher in  *)
(* either order.  The dispatcher's lock is held over a whole delivery, the *)
(* catch-up lock over a whole catch-up.                                    *)
(*                                                                         *)
(* The stream of the registry has the same dispatcher and no observer, and *)
(* is left out.                                                            *)
(***************************************************************************)
EXTENDS Naturals, Sequences, FiniteSets, SequencesExt

CONSTANTS
    Threads, None,
    Retention, QueueLimit,  \* retention_limit and subscriber_queue_limit
    MaxEvents,              \* bound: length of the log
    MaxFaults               \* bound: failures and deaths of the process, together

ASSUME ThreadAssumption == None \notin Threads
ASSUME LimitAssumption == Retention \in Nat \ {0} /\ QueueLimit \in Nat \ {0}
ASSUME BoundAssumption == MaxEvents \in Nat \ {0} /\ MaxFaults \in Nat

VARIABLES
    log,            \* kinds of the committed events
    ends,           \* last sequence numbers of the transactions
    pc, next,       \* what each thread does, and where it goes after a delivery
    facts,          \* the batch each has captured, or NoBatch
    catching,       \* the thread that holds the catch-up lock, or None
    complete,       \* was the disk delivered once?
    valid,          \* did the scan under way succeed, with no invalidation since?
    publisher,      \* the thread that holds the dispatcher's lock, or None
    todo,           \* what it still has to hand to the hub
    expected,       \* the sequence number the dispatcher waits for
    buffered,       \* later ones that arrived before it
    retry,          \* batches some observer has not taken
    cursor,         \* the hub's cursor of each observer
    heard,          \* the sequence numbers each observer took
    page,           \* a page's subscription
    waiter, hinted, \* a waiting Host; has a hint come since it looked at the count?
    faults

disk == <<log, ends>>
catchUp == <<catching, complete, valid>>
dispatcher == <<publisher, todo, expected, buffered, retry>>
observers == <<cursor, heard>>
vars == <<disk, pc, next, facts, catchUp, dispatcher, observers, page, waiter, hinted, faults>>

-----------------------------------------------------------------------------
Observers == {"browser-stream", "host-wake"}

\* An event queues work, settles it, or does neither.
Kinds == {"work", "result", "plain"}
\* A failure and its requeue are one transaction.
Transactions == {<<"work">>, <<"result">>, <<"plain">>, <<"plain", "work">>}

WorkAt(n) == log[n] = "work" /\ \A m \in n + 1..Len(log) : log[m] = "plain"
WorkIsQueued == \E n \in DOMAIN log : WorkAt(n)

Batch(from, to) == [from |-> from, to |-> to]
NoBatch == Batch(1, 0)
Events(b) == b.from..b.to
Batches == {Batch(from, to) : from \in 1..MaxEvents, to \in 0..MaxEvents}
Numbers(from, to) == [i \in 1..(to - from + 1) |-> from + i - 1]
Latest(s) == IF s = <<>> THEN 0 ELSE s[Len(s)]

Nobody == [status |-> "away", cursor |-> 0, queue |-> <<>>]

Init ==
    /\ log = <<>> /\ ends = {} /\ faults = 0
    /\ pc = [t \in Threads |-> "idle"] /\ next = [t \in Threads |-> "idle"]
    /\ facts = [t \in Threads |-> NoBatch]
    /\ catching = None /\ complete = FALSE /\ valid = FALSE
    /\ publisher = None /\ todo = <<>>
    /\ expected = 1 /\ buffered = {} /\ retry = {}
    /\ cursor = [o \in Observers |-> 0] /\ heard = [o \in Observers |-> <<>>]
    /\ page = Nobody /\ waiter = "away" /\ hinted = FALSE

Fault == faults < MaxFaults /\ faults' = faults + 1

-----------------------------------------------------------------------------
(* Operations.                                                             *)

\* Go to the dispatcher with what was captured, and from there to "place".
Deliver(t, b, place) ==
    /\ pc' = [pc EXCEPT ![t] = "delivering"]
    /\ next' = [next EXCEPT ![t] = place]
    /\ facts' = [facts EXCEPT ![t] = b]

\* With nothing to catch up an operation only gives the dispatcher a chance to
\* repeat what failed; replay_committed scans again whatever was done.
Begin(t) ==
    /\ pc[t] = "idle" /\ catching = None /\ catching' = t
    /\ \/ complete /\ Deliver(t, NoBatch, "operating") /\ UNCHANGED <<complete, valid>>
       \/ /\ complete' = FALSE /\ valid' = TRUE
          /\ pc' = [pc EXCEPT ![t] = "scanning"] /\ UNCHANGED <<next, facts>>
    /\ UNCHANGED <<disk, dispatcher, observers, page, waiter, hinted, faults>>

Scan(t) ==
    /\ pc[t] = "scanning"
    /\ \/ Deliver(t, Batch(1, Len(log)), "operating") /\ UNCHANGED <<valid, faults>>
       \/ Fault /\ Deliver(t, NoBatch, "idle") /\ valid' = FALSE
    /\ UNCHANGED <<disk, catching, complete, dispatcher, observers, page, waiter, hinted>>

\* Mutant: the failure of a commit leaves the catch-up as it is.
Uninvalidated == UNCHANGED <<complete, valid>>

Invalidate == complete' = FALSE /\ valid' = FALSE

Committed(tx) ==
    /\ Len(log) + Len(tx) <= MaxEvents
    /\ (tx = <<"result">>) => WorkIsQueued
    /\ log' = log \o tx /\ ends' = ends \cup {Len(log) + Len(tx)}

\* A commit that fails, before its marker or after it, makes every scan under
\* way stale, and captures what it finds on the disk, if it can.
Commit(t) ==
    /\ pc[t] = "operating"
    /\ \E tx \in Transactions :
        LET own == Batch(Len(log) + 1, Len(log) + Len(tx))
        IN /\ Committed(tx)
           /\ \/ Deliver(t, own, "idle") /\ UNCHANGED <<complete, valid, faults>>
              \/ /\ Fault /\ Invalidate
                 /\ Deliver(t, own, "idle") \/ Deliver(t, NoBatch, "idle")
    /\ UNCHANGED <<catching, dispatcher, observers, page, waiter, hinted>>

FailToCommit(t) ==
    /\ pc[t] = "operating" /\ Fault /\ Invalidate
    /\ Deliver(t, NoBatch, "idle")
    /\ UNCHANGED <<disk, catching, dispatcher, observers, page, waiter, hinted>>

\* A command that is repeated captures its old transaction; a query or a command
\* that is refused captures nothing.
Repeat(t) ==
    /\ pc[t] = "operating"
    /\ \/ Deliver(t, NoBatch, "idle")
       \/ \E to \in ends :
            LET before == {n \in ends \cup {0} : n < to}
                from == 1 + CHOOSE n \in before : \A m \in before : m <= n
            IN Deliver(t, Batch(from, to), "idle")
    /\ UNCHANGED <<disk, catchUp, dispatcher, observers, page, waiter, hinted, faults>>

-----------------------------------------------------------------------------
(* The dispatcher.                                                         *)

Handed(b, again) == [batch |-> b, again |-> again]
InOrder(a, b) ==
    a.batch.from < b.batch.from \/ (a.batch.from = b.batch.from /\ a.batch.to <= b.batch.to)

\* First what failed before, then the part of the batch that is older than
\* expected, then what is now complete up to the next gap.
Publish(t) ==
    LET own == Events(facts[t])
        all == buffered \cup {n \in own : n >= expected}
        upto == CHOOSE n \in expected - 1..MaxEvents :
                    expected..n \subseteq all /\ n + 1 \notin all
        old == Batch(facts[t].from, IF facts[t].to < expected THEN facts[t].to ELSE expected - 1)
        ready == Batch(expected, upto)
        Some(b) == IF Events(b) = {} THEN <<>> ELSE <<Handed(b, FALSE)>>
    IN /\ pc[t] = "delivering" /\ publisher = None
       /\ publisher' = t
       /\ \E again \in SetToSeqs({Handed(b, TRUE) : b \in retry}) :
            /\ \A i, j \in DOMAIN again : i < j => InOrder(again[i], again[j])
            /\ todo' = again \o Some(old) \o Some(ready)
       /\ buffered' = all \ Events(ready) /\ expected' = upto + 1
       /\ facts' = [facts EXCEPT ![t] = NoBatch]
       /\ UNCHANGED <<disk, pc, next, catchUp, retry, observers, page, waiter, hinted, faults>>

-----------------------------------------------------------------------------
(* The hub and its observers.                                              *)

Unheard(o, b) == IF b.from > cursor[o] THEN b.from ELSE cursor[o] + 1
New(o, b) == IF b.from > Latest(heard[o]) THEN b.from ELSE Latest(heard[o]) + 1

\* Does the hub, or the observer, find a gap?
Gap(o, b) == Unheard(o, b) # cursor[o] + 1 \/ New(o, b) # Latest(heard[o]) + 1

\* Mutant: a full queue drops what does not fit.
PushedAsFits(p, s) ==
    IF p.status = "open" THEN [p EXCEPT !.queue = SubSeq(@ \o s, 1, QueueLimit)] ELSE p

\* A queue that would overflow is emptied, and its reader told to load the state.
Pushed(p, s) ==
    IF p.status # "open" THEN p
    ELSE IF Len(p.queue) + Len(s) > QueueLimit
         THEN [Nobody EXCEPT !.status = "resync"]
         ELSE [p EXCEPT !.queue = @ \o s]

Hint(s) == \E i \in DOMAIN s : log[s[i]] = "work"

\* What "takes", a set of observers, is given of the batch.
Taken(o, b) == IF Gap(o, b) THEN <<>> ELSE Numbers(New(o, b), b.to)
Take(takers, b) ==
    LET shown == [o \in Observers |-> IF o \in takers THEN Taken(o, b) ELSE <<>>]
    IN /\ heard' = [o \in Observers |-> heard[o] \o shown[o]]
       /\ page' = IF shown["browser-stream"] = <<>> THEN page
                  ELSE Pushed(page, shown["browser-stream"])
       /\ hinted' = (hinted \/ (waiter # "away" /\ Hint(shown["host-wake"])))

\* Mutant: a batch that failed is not kept.
Dropped(h, failed) == IF failed = {} THEN retry \ {h.batch} ELSE retry

Retried(h, failed) ==
    IF failed # {} THEN retry \cup {h.batch}
    ELSE IF h.again THEN retry \ {h.batch} ELSE retry

\* An observer that fails may have taken the batch before it did.
Hand(t) ==
    /\ publisher = t /\ todo # <<>>
    /\ LET b == Head(todo).batch
           asked == {o \in Observers : Unheard(o, b) <= b.to}
           refuse == {o \in asked : Gap(o, b)}
       IN \E broken \in SUBSET (asked \ refuse) : \E takers \in SUBSET (asked \ refuse) :
            /\ asked \ (refuse \cup broken) \subseteq takers
            /\ IF broken = {} THEN UNCHANGED faults ELSE Fault
            /\ Take(takers, b)
            /\ cursor' = [o \in Observers |->
                            IF o \in asked \ (refuse \cup broken) THEN b.to ELSE cursor[o]]
            /\ retry' = Retried(Head(todo), refuse \cup broken)
    /\ todo' = Tail(todo)
    /\ UNCHANGED <<disk, pc, next, facts, catchUp, publisher, expected, buffered, waiter>>

\* The delivery ends; the catch-up ends with it, complete unless a commit failed
\* since the scan was begun.
Leave(t) ==
    /\ publisher = t /\ todo = <<>> /\ publisher' = None
    /\ pc' = [pc EXCEPT ![t] = next[t]]
    /\ IF catching = t
       THEN catching' = None /\ complete' = (complete \/ valid) /\ valid' = FALSE
       ELSE UNCHANGED catchUp
    /\ UNCHANGED <<disk, next, facts, todo, expected, buffered, retry, observers, page,
                   waiter, hinted, faults>>

-----------------------------------------------------------------------------
(* A page.                                                                 *)

Through == Latest(heard["browser-stream"])
Oldest == IF Through < Retention THEN 1 ELSE Through - Retention + 1

\* A page that loaded the state, or a reader that reconnects, names the last event
\* it knows; it may be ahead of the observer, or too far behind it.
Subscribe(after) ==
    /\ page.status # "open"
    /\ after <= Through /\ (Through > 0 => after >= Oldest - 1)
    /\ Through - after <= QueueLimit
    /\ page' = [status |-> "open", cursor |-> after, queue |-> Numbers(after + 1, Through)]
    /\ UNCHANGED <<disk, pc, next, facts, catchUp, dispatcher, observers, waiter, hinted, faults>>

Read(n) ==
    /\ page.status = "open" /\ n \in DOMAIN page.queue
    /\ page' = [page EXCEPT !.queue = SubSeq(@, n + 1, Len(@)), !.cursor = page.queue[n]]
    /\ UNCHANGED <<disk, pc, next, facts, catchUp, dispatcher, observers, waiter, hinted, faults>>

Disconnect ==
    /\ page.status # "away" /\ page' = Nobody
    /\ UNCHANGED <<disk, pc, next, facts, catchUp, dispatcher, observers, waiter, hinted, faults>>

-----------------------------------------------------------------------------
(* A Host that waits for work.                                             *)

Waits(from, to) ==
    /\ waiter = from /\ waiter' = to
    /\ UNCHANGED <<disk, pc, next, facts, catchUp, dispatcher, observers, page, faults>>

\* The hints are counted before the log is read.
Look == Waits("away", "reading") /\ hinted' = FALSE
ReadWork == Waits("reading", IF WorkIsQueued THEN "away" ELSE "checking") /\ UNCHANGED hinted

\* Mutant: the count is sampled when the Host falls asleep.
SleepAnyway == Waits("checking", "asleep") /\ hinted' = FALSE

Sleep ==
    /\ Waits("checking", IF hinted THEN "reading" ELSE "asleep") /\ hinted' = FALSE

\* A hint, or the poll interval.
Wake == Waits("asleep", "reading") /\ hinted' = FALSE

-----------------------------------------------------------------------------
\* The process dies and a new one is started.
Restart ==
    /\ Fault /\ UNCHANGED disk
    /\ pc' = [t \in Threads |-> "idle"] /\ next' = [t \in Threads |-> "idle"]
    /\ facts' = [t \in Threads |-> NoBatch]
    /\ catching' = None /\ complete' = FALSE /\ valid' = FALSE
    /\ publisher' = None /\ todo' = <<>>
    /\ expected' = 1 /\ buffered' = {} /\ retry' = {}
    /\ cursor' = [o \in Observers |-> 0] /\ heard' = [o \in Observers |-> <<>>]
    /\ page' = Nobody /\ waiter' = "away" /\ hinted' = FALSE

Deliveries(t) == Scan(t) \/ Commit(t) \/ Repeat(t) \/ Hand(t) \/ Leave(t)

Next ==
    \/ \E t \in Threads : Begin(t) \/ Publish(t) \/ Deliveries(t) \/ FailToCommit(t)
    \/ (\E after \in 0..Len(log) : Subscribe(after)) \/ (\E n \in DOMAIN page.queue : Read(n))
    \/ Disconnect
    \/ Look \/ ReadWork \/ Sleep \/ Wake
    \/ Restart

\* Threads run, one that waits for a lock gets it in the end, and there is always
\* another operation: a page that is told to load the state makes one.
Fairness ==
    \A t \in Threads :
        WF_vars(Deliveries(t)) /\ SF_vars(Begin(t)) /\ SF_vars(Publish(t))

FairSpec == Init /\ [][Next]_vars /\ Fairness

-----------------------------------------------------------------------------
TypeOK ==
    /\ log \in Seq(Kinds) /\ ends \subseteq DOMAIN log
    /\ pc \in [Threads -> {"idle", "scanning", "operating", "delivering"}]
    /\ next \in [Threads -> {"idle", "operating"}]
    /\ facts \in [Threads -> Batches]
    /\ catching \in Threads \cup {None} /\ publisher \in Threads \cup {None}
    /\ complete \in BOOLEAN /\ valid \in BOOLEAN
    /\ \A i \in DOMAIN todo : todo[i].batch \in Batches
    /\ expected \in 1..MaxEvents + 1 /\ buffered \subseteq 1..MaxEvents
    /\ retry \subseteq Batches
    /\ cursor \in [Observers -> 0..MaxEvents]
    /\ page.status \in {"away", "open", "resync"} /\ Len(page.queue) <= QueueLimit
    /\ waiter \in {"away", "reading", "checking", "asleep"} /\ hinted \in BOOLEAN

\* Once the disk is taken for delivered, an event some observer has not been
\* shown is still held somewhere: by an operation that has captured it, in the
\* dispatcher's buffer or among its retries, or in the delivery under way.
Held ==
    buffered \cup (UNION {Events(facts[t]) : t \in Threads})
    \cup (UNION {Events(b) : b \in retry})
    \cup (UNION {Events(todo[i].batch) : i \in DOMAIN todo})
NothingIsForgotten ==
    complete => \A o \in Observers : cursor[o] + 1..Len(log) \subseteq Held

\* A subscription that is connected holds exactly the events after its cursor:
\* no overflow, reconnection, retry or replay leaves a gap or a repetition.
SubscriptionIsGapless ==
    /\ TypeOK
    /\ page.status = "open" => page.queue = Numbers(page.cursor + 1, Through)

\* A Host that sleeps while there is work was not told of it yet, but will be:
\* without its poll it would still not miss the work.
SleeperWillBeTold ==
    waiter = "asleep" /\ ~hinted =>
        \A n \in DOMAIN log : WorkAt(n) => n > Latest(heard["host-wake"])

\* In order, without a gap, once in each process, and all of it in the end.
Shown == INSTANCE Feed WITH length <- Len(log)
IsFeed == Shown!Spec
===============================================================================
