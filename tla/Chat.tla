---------------------------------- MODULE Chat ----------------------------------
(***************************************************************************)
(* The open chat (xsync_chat): a runtime that answers one question at a    *)
(* time with a worker thread, the history it saves in session.json, the    *)
(* lock that makes it the only owner, and the pages that follow it over    *)
(* server-sent events.  A user message and its reply are stored together   *)
(* and are one record here.                                                *)
(*                                                                         *)
(* Each process may be closed by a signal, or crash, at any point, and     *)
(* another one started: they are numbered in the order of their starts.    *)
(* A save writes a temporary file, renames it and syncs the directory: it  *)
(* may fail before the rename, leaving the old file, or after it, leaving  *)
(* the new one.  A worker may outlive the 15 s that close waits for it.    *)
(***************************************************************************)
EXTENDS Naturals, Sequences

CONSTANTS
    Pages,          \* browser pages
    None,
    MaxRequests,    \* bound: questions
    MaxProcs,       \* bound: runtime processes of one learner and repository
    MaxFailures     \* bound: saves that fail

ASSUME BoundAssumption ==
    MaxRequests \in Nat /\ MaxProcs \in Nat /\ MaxFailures \in Nat

\* Request ids, which the pages choose, and processes are numbered as they come.
Requests == 1 .. MaxRequests
Procs == 1 .. MaxProcs

VARIABLES
    disk,           \* session.json, or None
    lock,           \* the process holding owner.lock, or None
    stage,          \* each process: "down", "up", "closing", "released"
    memory,         \* each process: store.state["messages"]
    active,         \* each process: request being answered, or None
    partial,        \* each process: has the answer begun to arrive
    cancel,         \* each process: the cancel event of the reply being answered
    worker,         \* each process: "none", "asking", or the outcome to be saved
    page,           \* each page: the process it streams from, or None
    view,           \* each page: the snapshot of the current revision, or None while it is due
    accepted,       \* requests some page was told are saved
    sent, started, failed,  \* requests sent, processes started, saves failed: the bounds
    \* What the two known failures of the code have touched; no step depends on it.
    outlived,       \* has a worker outlived the wait of a close?
    unsaved         \* each process: replies pending since the save of a retry failed

process == <<stage, memory, active, partial, cancel, worker>>
pages == <<page, view>>
bounds == <<sent, started, failed>>
failures == <<outlived, unsaved>>
vars == <<disk, lock, process, pages, accepted, bounds, failures>>

-----------------------------------------------------------------------------
Settled == {"complete", "error", "cancelled"}
Reply == [req : Requests, status : Settled \cup {"pending"}, text : {"", "part", "whole"}]
History == Seq(Reply)
Snapshots == [messages : History, busy : BOOLEAN]

ASSUME NoneAssumption == None \notin Requests \cup Procs \cup History \cup Snapshots

Asked(messages) == {messages[i].req : i \in DOMAIN messages}
Latest(messages) == messages[Len(messages)]
LatestIs(messages, r) == messages # <<>> /\ Latest(messages).req = r
SetLast(messages, status, text) ==
    [messages EXCEPT ![Len(messages)] = [@ EXCEPT !.status = status, !.text = text]]

\* Has the request been asked before?
Known(messages, r) == r \in Asked(messages)

\* Mutant: an interrupted answer is taken up as it was saved.
InterruptedKept(messages) == messages

\* A restart turns answers that were pending into ones that can be retried.
Interrupted(messages) ==
    [i \in DOMAIN messages |->
        IF messages[i].status = "pending"
        THEN [messages[i] EXCEPT !.status = "error"] ELSE messages[i]]

\* The outcomes of a save: done, failed with the old file, failed with the new.
SaveOutcome == {"saved", "kept", "replaced"}
Save(messages, outcome) ==
    /\ failed' = IF outcome = "saved" THEN failed ELSE failed + 1
    /\ failed' <= MaxFailures
    /\ disk' = IF outcome = "kept" THEN disk ELSE messages

\* Mutant: a question whose save failed stays in memory.
AfterAddKept(before, after, outcome) == after

\* add puts the old state back when the save fails.
AfterAdd(before, after, outcome) == IF outcome = "saved" THEN after ELSE before

\* _answer marks an answer that could not be saved.
AfterFinish(messages, text, outcome) ==
    IF outcome = "saved" THEN messages ELSE SetLast(messages, "error", text)

Snapshot(p) ==
    [messages |-> IF LatestIs(memory[p], active[p])
                  THEN [memory[p] EXCEPT ![Len(memory[p])].text = partial[p]]
                  ELSE memory[p],
     busy |-> active[p] # None]

\* The revision moves and every waiting page is woken.
Changed(p) == view' = [c \in Pages |-> IF page[c] = p THEN None ELSE view[c]]

-----------------------------------------------------------------------------
Init ==
    /\ disk = None /\ lock = None
    /\ stage = [p \in Procs |-> "down"]
    /\ memory = [p \in Procs |-> <<>>]
    /\ active = [p \in Procs |-> None]
    /\ partial = [p \in Procs |-> ""]
    /\ cancel = [p \in Procs |-> FALSE]
    /\ worker = [p \in Procs |-> "none"]
    /\ page = [c \in Pages |-> None]
    /\ view = [c \in Pages |-> None]
    /\ sent = 0 /\ started = 0 /\ failed = 0
    /\ accepted = {}
    /\ outlived = FALSE
    /\ unsaved = [p \in Procs |-> {}]

\* Mutant: a runtime starts beside the owner.
LockIgnored == TRUE

\* flock, without waiting
LockIsFree == lock = None

\* Takes the lock, loads the history, and saves it if there was none or an
\* answer was interrupted; a failed save releases the lock again.
Start(p, outcome) ==
    /\ p = started + 1 /\ LockIsFree
    /\ LET loaded == IF disk = None THEN <<>> ELSE Interrupted(disk) IN
        /\ IF loaded = disk
           THEN outcome = "saved" /\ UNCHANGED <<disk, failed>>
           ELSE Save(loaded, outcome)
        /\ IF outcome = "saved"
           THEN /\ lock' = p /\ stage' = [stage EXCEPT ![p] = "up"]
                /\ memory' = [memory EXCEPT ![p] = loaded]
                /\ started' = p
           ELSE UNCHANGED <<lock, stage, memory, started>>
    /\ UNCHANGED <<active, partial, cancel, worker, pages, accepted, sent, failures>>

\* _start: a fresh cancel event and a worker for the reply.
Begin(p, r) ==
    /\ active' = [active EXCEPT ![p] = r]
    /\ partial' = [partial EXCEPT ![p] = ""]
    /\ cancel' = [cancel EXCEPT ![p] = FALSE]
    /\ worker' = [worker EXCEPT ![p] = "asking"]
    /\ Changed(p)

NoBegin == UNCHANGED <<active, partial, cancel, worker, view>>

\* A new question is saved with its pending reply before anything is asked.
Submit(p, r, outcome) ==
    /\ stage[p] = "up" /\ ~Known(memory[p], r)
    /\ active[p] = None
    /\ r <= sent + 1 /\ sent' = IF r = sent + 1 THEN r ELSE sent
    /\ LET after == Append(memory[p], [req |-> r, status |-> "pending", text |-> ""]) IN
        /\ Save(after, outcome)
        /\ memory' = [memory EXCEPT ![p] = AfterAdd(memory[p], after, outcome)]
    /\ IF outcome = "saved"
       THEN Begin(p, r) /\ accepted' = accepted \cup {r}
       ELSE NoBegin /\ UNCHANGED accepted
    /\ UNCHANGED <<lock, stage, page, started, failures>>

\* The same request delivered again: answered only if nothing is being answered
\* and its reply is still pending.
SubmitAgain(p, r) ==
    /\ stage[p] = "up" /\ Known(memory[p], r)
    /\ LET pending == \E i \in DOMAIN memory[p] :
                        memory[p][i].req = r /\ memory[p][i].status = "pending" IN
        IF pending /\ active[p] = None THEN Begin(p, r) ELSE NoBegin
    /\ accepted' = accepted \cup {r}
    /\ UNCHANGED <<disk, lock, stage, memory, page, bounds, failures>>

\* retry has no way back (store.py:245): the reply stays pending in memory if the save fails.
Retry(p, r, outcome) ==
    /\ stage[p] = "up" /\ active[p] = None
    /\ LatestIs(memory[p], r) /\ Latest(memory[p]).status \in {"error", "cancelled"}
    /\ memory' = [memory EXCEPT ![p] = SetLast(@, "pending", "")]
    /\ Save(memory'[p], outcome)
    /\ IF outcome = "saved"
       THEN Begin(p, r) /\ UNCHANGED unsaved
       ELSE NoBegin /\ unsaved' = [unsaved EXCEPT ![p] = @ \cup {r}]
    /\ UNCHANGED <<lock, stage, page, accepted, sent, started, outlived>>

\* With nothing being answered only an event is set that _start replaces.
Stop(p) ==
    /\ active[p] # None /\ ~cancel[p]
    /\ cancel' = [cancel EXCEPT ![p] = TRUE]
    /\ UNCHANGED <<disk, lock, stage, memory, active, partial, worker, pages, accepted, bounds, failures>>

-----------------------------------------------------------------------------
(***************************************************************************)
(* The worker thread.  Whether the host run ends in an answer or in an     *)
(* error is open, also after a stop; the run has a timeout, so it ends.    *)
(***************************************************************************)

Update(p) ==
    /\ worker[p] = "asking" /\ partial[p] = ""
    /\ partial' = [partial EXCEPT ![p] = "part"]
    /\ Changed(p)
    /\ UNCHANGED <<disk, lock, stage, memory, active, cancel, worker, page, accepted, bounds, failures>>

HostEnds(p, outcome) ==
    /\ worker[p] = "asking"
    /\ outcome \in {"complete", "error"} \cup (IF cancel[p] THEN {"cancelled"} ELSE {})
    /\ worker' = [worker EXCEPT ![p] = outcome]
    /\ UNCHANGED <<disk, lock, stage, memory, active, partial, cancel, pages, accepted, bounds, failures>>

\* Mutant: only an answer that arrived frees the runtime.
RestAfterAnswer(p) ==
    /\ active' = [active EXCEPT ![p] = IF worker[p] = "complete" THEN None ELSE @]
    /\ partial' = [partial EXCEPT ![p] = ""]
    /\ cancel' = [cancel EXCEPT ![p] = FALSE]
    /\ worker' = [worker EXCEPT ![p] = "none"]

\* However the reply ended, the runtime is free for the next one.
Rest(p) ==
    /\ active' = [active EXCEPT ![p] = None]
    /\ partial' = [partial EXCEPT ![p] = ""]
    /\ cancel' = [cancel EXCEPT ![p] = FALSE]
    /\ worker' = [worker EXCEPT ![p] = "none"]

\* Saves the outcome of the reply if it is still the last one.  Not the last:
\* finish refuses, and so does the fallback that marks it.
Finish(p, outcome) ==
    /\ worker[p] \in Settled
    /\ LET text == IF worker[p] = "complete" THEN "whole" ELSE partial[p]
           finished == SetLast(memory[p], worker[p], text) IN
       IF LatestIs(memory[p], active[p])
       THEN /\ Save(finished, outcome)
            /\ memory' = [memory EXCEPT ![p] = AfterFinish(finished, text, outcome)]
            /\ unsaved' = [unsaved EXCEPT ![p] = @ \ {active[p]}]
       ELSE outcome = "kept" /\ UNCHANGED <<disk, memory, failed, unsaved>>
    /\ Rest(p) /\ Changed(p)
    /\ UNCHANGED <<lock, stage, page, accepted, sent, started, outlived>>

-----------------------------------------------------------------------------
(***************************************************************************)
(* Closing and crashing.                                                   *)
(***************************************************************************)

Close(p) ==
    /\ stage[p] = "up"
    /\ stage' = [stage EXCEPT ![p] = "closing"]
    /\ cancel' = [cancel EXCEPT ![p] = active[p] # None]
    /\ Changed(p)
    /\ UNCHANGED <<disk, lock, memory, active, partial, worker, page, accepted, bounds, failures>>

\* join(timeout=15) returns when the worker has ended, or gives up on it.  Then
\* store.close: the lock goes first, the directory after it.
ReleaseLock(p) ==
    /\ stage[p] = "closing"
    /\ outlived' = (outlived \/ worker[p] # "none")
    /\ stage' = [stage EXCEPT ![p] = "released"]
    /\ lock' = None
    /\ UNCHANGED <<disk, memory, active, partial, cancel, worker, pages, accepted, bounds, unsaved>>

\* The end of a process takes its memory, its worker and its streams with it.
Gone(p) ==
    /\ stage' = [stage EXCEPT ![p] = "down"]
    /\ memory' = [memory EXCEPT ![p] = <<>>]
    /\ active' = [active EXCEPT ![p] = None]
    /\ partial' = [partial EXCEPT ![p] = ""]
    /\ cancel' = [cancel EXCEPT ![p] = FALSE]
    /\ worker' = [worker EXCEPT ![p] = "none"]
    /\ Changed(p)
    /\ page' = [c \in Pages |-> IF page[c] = p THEN None ELSE page[c]]
    /\ lock' = IF lock = p THEN None ELSE lock
    /\ unsaved' = [unsaved EXCEPT ![p] = {}]
    /\ UNCHANGED <<disk, accepted, bounds, outlived>>

Exit(p) == stage[p] = "released" /\ Gone(p)
Crash(p) == stage[p] # "down" /\ Gone(p)

-----------------------------------------------------------------------------
(***************************************************************************)
(* The pages.                                                              *)
(***************************************************************************)

Connect(c, p) ==
    /\ page[c] = None /\ stage[p] \in {"up", "closing", "released"}
    /\ page' = [page EXCEPT ![c] = p]
    /\ UNCHANGED <<disk, lock, process, view, accepted, bounds, failures>>

Closed(p) == stage[p] \in {"closing", "released"}

\* Mutant: a stream wakes up to end only.
AwakeOnClose(c, p) == Closed(p)

\* What a stream waits for: a revision it has not sent, or the end.
Awake(c, p) == view[c] = None \/ Closed(p)

Disconnect(c) == page' = [page EXCEPT ![c] = None] /\ view' = [view EXCEPT ![c] = None]

\* The stream sends the current state once per revision, and ends on close.
Stream(c, p) ==
    /\ page[c] = p /\ Awake(c, p)
    /\ IF Closed(p)
       THEN Disconnect(c)
       ELSE view' = [view EXCEPT ![c] = Snapshot(p)] /\ UNCHANGED page
    /\ UNCHANGED <<disk, lock, process, accepted, bounds, failures>>

Leave(c) ==
    /\ page[c] # None
    /\ Disconnect(c)
    /\ UNCHANGED <<disk, lock, process, accepted, bounds, failures>>

-----------------------------------------------------------------------------
WorkerStep(p) ==
    \/ \E outcome \in Settled : HostEnds(p, outcome)
    \/ \E outcome \in SaveOutcome : Finish(p, outcome)

Next ==
    \/ \E p \in Procs :
        \/ \E outcome \in SaveOutcome :
            \/ Start(p, outcome)
            \/ \E r \in Requests : Submit(p, r, outcome) \/ Retry(p, r, outcome)
        \/ \E r \in Requests : SubmitAgain(p, r)
        \/ Stop(p) \/ Update(p) \/ WorkerStep(p)
        \/ Close(p) \/ ReleaseLock(p) \/ Exit(p) \/ Crash(p)
        \/ \E c \in Pages : Connect(c, p) \/ Stream(c, p)
    \/ \E c \in Pages : Leave(c)

Spec == Init /\ [][Next]_vars

\* The worker thread runs and the host run times out; a signalled process gets
\* through its close; a stream thread that is woken runs.
Fairness ==
    /\ \A p \in Procs : WF_vars(WorkerStep(p)) /\ WF_vars(ReleaseLock(p)) /\ WF_vars(Exit(p))
    /\ \A c \in Pages, p \in Procs : WF_vars(Stream(c, p))
FairSpec == Spec /\ Fairness

-----------------------------------------------------------------------------
TypeOK ==
    /\ disk \in History \cup {None}
    /\ lock \in Procs \cup {None}
    /\ stage \in [Procs -> {"down", "up", "closing", "released"}]
    /\ memory \in [Procs -> History]
    /\ active \in [Procs -> Requests \cup {None}]
    /\ partial \in [Procs -> {"", "part"}]
    /\ cancel \in [Procs -> BOOLEAN]
    /\ worker \in [Procs -> {"none", "asking"} \cup Settled]
    /\ page \in [Pages -> Procs \cup {None}]
    /\ view \in [Pages -> Snapshots \cup {None}]
    /\ accepted \in SUBSET Requests
    /\ sent \in 0 .. MaxRequests /\ started \in 0 .. MaxProcs /\ failed \in 0 .. MaxFailures
    /\ outlived \in BOOLEAN
    /\ unsaved \in [Procs -> SUBSET Requests]

\* A request is one question however often it is delivered and whatever fails,
\* so a history the runtime wrote is one _validate accepts
\* (add's lookup, _validate's duplicate check).
NoQuestionTwice ==
    \A h \in {memory[p] : p \in Procs} \cup (IF disk = None THEN {} ELSE {disk}) :
        \A i, j \in DOMAIN h : h[i].req = h[j].req => i = j

\* A question the page was told is accepted stays in the saved history through
\* failed saves, crashes and restarts ("问题已保存"; add, finish, retry, __init__).
AcceptedIsDurable == accepted \subseteq (IF disk = None THEN {} ELSE Asked(disk))

\* An answer the owner shows as complete is complete in the file
\* (the except branch of _answer).
CompleteIsSaved ==
    \A p \in Procs : stage[p] = "up" =>
        \A i \in DOMAIN memory[p] : memory[p][i].status = "complete" =>
            i \in DOMAIN disk /\ disk[i] = memory[p][i]

\* A reply is pending exactly while a worker is on it; in particular nothing in the
\* history is left pending behind it (submit, retry, _start, _answer).  The one
\* exception are the replies whose retry could not be saved, until they settle.
PendingIsAttended ==
    \A p \in Procs : \A i \in DOMAIN memory[p] :
        memory[p][i].status = "pending"
            <=> active[p] = memory[p][i].req \/ memory[p][i].req \in unsaved[p]

\* No revision tells the pages of a retry that could not be saved.
Shows(snapshot, p) ==
    LET now == Snapshot(p) IN
    /\ snapshot.busy = now.busy
    /\ DOMAIN snapshot.messages = DOMAIN now.messages
    /\ \A i \in DOMAIN now.messages :
        now.messages[i].req \in unsaved[p] \/ snapshot.messages[i] = now.messages[i]

ViewIsCurrent ==
    \A c \in Pages, p \in Procs :
        page[c] = p /\ view[c] # None /\ stage[p] = "up" => Shows(view[c], p)

\* Whatever fails, crashes or is delivered again, the history stays what the pages
\* were told it is (ChatStore), as long as no worker has outlived its close.
HistoryIsKept ==
    /\ TypeOK /\ NoQuestionTwice
    /\ ~outlived => AcceptedIsDurable /\ CompleteIsSaved

\* While a process owns the chat, no other process changes its file ("the file lock
\* fences other processes", store.py:77), as long as no worker has outlived its close:
\* neither a crash nor a failed save nor a process that is closing breaks the fence.
LockFencesOthers ==
    ~outlived =>
        \A p \in Procs : stage[p] = "up" =>
            disk # None /\ Asked(memory[p]) \subseteq Asked(disk)

AnswersSettle == \A p \in Procs : active[p] # None ~> active[p] = None

CloseEnds == \A p \in Procs : stage[p] = "closing" ~> stage[p] = "down"
\* Once the worker is done with a reply, or its process has ended, the next question
\* can be asked (_answer's finally); and a signalled process gets through close
\* and gives the lock back (ChatRuntime.close).
RepliesSettle == AnswersSettle /\ CloseEnds

PagesCatchUp == \A c \in Pages : page[c] # None ~> (page[c] = None \/ view[c] # None)
\* A page that has seen the current revision shows the current state (_changed
\* against every change of the snapshot), and a connected page catches up with the
\* last revision, or its stream ends (_stream).
PagesFollow == []ViewIsCurrent /\ PagesCatchUp
===============================================================================
