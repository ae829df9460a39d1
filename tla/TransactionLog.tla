---------------------------- MODULE TransactionLog ----------------------------
(***************************************************************************)
(* One durable stream (xsync_v2/event_store.py, registry_store.py) on the  *)
(* files secure_fs.py writes.  A batch is committed by publishing its      *)
(* events and then its transaction marker; each file is staged under a     *)
(* temporary name, linked to its final name and unlinked from the          *)
(* temporary one.  A process may die between any two of these steps and    *)
(* the next operation starts from what is on the disk.                     *)
(*                                                                         *)
(* Operations are serialized by the session's (the registry's) exclusive   *)
(* lock, which the operating system releases when its holder dies, and     *)
(* every operation opens the log anew: memory is one operation's.          *)
(***************************************************************************)
EXTENDS Naturals, FiniteSets

CONSTANTS
    Commands,       \* command ids
    Digests,        \* request bodies
    Stamps,         \* occurred_at: not part of the body, part of the event file
    Requests,       \* what callers ask for
    Size,           \* number of events a command's batch holds
    Closing,        \* commands whose batch is the fenced quiesce
    Repairs,        \* ways to open the log: repairing its directories, or not
    MaxSequence,    \* bound: length of the stream
    MaxFaults       \* bound: crashes and failures, where a run needs one

Request == [command : Commands, digest : Digests, stamp : Stamps]

ASSUME SizeAssumption == Size \in [Commands -> Nat \ {0}]
ASSUME ClosingAssumption == Closing \subseteq Commands
ASSUME RequestsAssumption == Requests \subseteq Request /\ Requests # {}
ASSUME RepairsAssumption == Repairs \subseteq BOOLEAN
ASSUME BoundsAssumption == MaxSequence \in Nat /\ MaxFaults \in Nat

VARIABLES
    events,         \* events/: a file or Missing for every sequence number
    transactions,   \* transactions/: the markers
    staged,         \* does transactions/ hold an unlinked temporary file?
    quarantine,     \* quarantine/: contents
    pc, op,         \* the operation in progress and its request
    repairs,        \* does it repair the directories
    tip,            \* last committed sequence it replayed
    at,             \* sequence it publishes or moves
    told,           \* receipts given to callers
    faults

disk == <<events, transactions, staged, quarantine>>
vars == <<disk, pc, op, repairs, tip, at, told, faults>>

-----------------------------------------------------------------------------
Positions == 1..MaxSequence

\* What one event file says: its place in its batch, and the stream before it.
Content == [request : Request, index : Positions, base : 0..MaxSequence]

\* A name that is also linked as a temporary file or in the quarantine has two
\* links, and read_bytes refuses it.
Links == {"one", "temporary", "moved"}
Missing == [links |-> "none"]
File == [links : Links, content : Content] \cup {Missing}

Marker == [from : Positions, to : Positions, request : Request,
           links : {"one", "temporary"}]

Phases == {"idle", "repairing", "replaying", "collecting", "moving", "deciding",
           "publishing", "linked", "marking", "staged", "committed", "answering"}

Receipt(m) == [command |-> m.request.command, digest |-> m.request.digest,
               from |-> m.from, to |-> m.to]

\* The content marker m names for the event at s.
Reference(m, s) == [request |-> m.request, index |-> s - m.from + 1, base |-> m.from - 1]

Referenced(s) == \E m \in transactions : s \in m.from..m.to
Orphans == {s \in Positions : events[s] # Missing /\ ~Referenced(s)}

\* Where the stream may end, and where it does.
Bounds == {0} \cup {m.to : m \in transactions}
Ends(n) == n \in Bounds /\ \A b \in Bounds : b <= n

\* Every marker follows the one before it and matches readable event files, and
\* nothing else is in transactions/.
Replayable ==
    /\ ~staged
    /\ \A m \in transactions :
        /\ m.links = "one"
        /\ m.from = 1 \/ \E p \in transactions : p.to + 1 = m.from
        /\ \A s \in m.from..m.to :
            events[s] = [links |-> "one", content |-> Reference(m, s)]

Closed == \E m \in transactions : m.request.command \in Closing
Mine == [request |-> op, index |-> at - tip, base |-> tip]
Last == tip + Size[op.command]

Goto(phase) == pc' = phase /\ UNCHANGED <<op, repairs>>

\* Between operations nothing is remembered.
Nobody == CHOOSE r \in Requests : TRUE
Return == pc' = "idle" /\ op' = Nobody /\ repairs' = FALSE /\ tip' = 0 /\ at' = 0

-----------------------------------------------------------------------------
Init ==
    /\ events = [s \in Positions |-> Missing]
    /\ transactions = {} /\ staged = FALSE /\ quarantine = {}
    /\ pc = "idle" /\ tip = 0 /\ at = 0
    /\ op = Nobody /\ repairs = FALSE
    /\ told = {} /\ faults = 0

\* A caller takes the lock and opens the log: create repairs it first,
\* open_existing reads it as it is.
Open(r) ==
    /\ pc = "idle"
    /\ repairs' \in Repairs
    /\ pc' = IF repairs' THEN "repairing" ELSE "replaying"
    /\ op' = r
    /\ UNCHANGED <<disk, tip, at, told, faults>>

\* Mutant: temporary files are only looked for among the events.
HasTemporaryEventsOnly == \E s \in Positions : events[s].links = "temporary"

HasTemporary ==
    \/ staged
    \/ \E s \in Positions : events[s].links = "temporary"
    \/ \E m \in transactions : m.links = "temporary"

\* recover_temporary_writes: an unpublished file is removed, a published one keeps
\* its final name.  One unlink a step.
RemoveTemporary ==
    /\ pc = "repairing" /\ HasTemporary
    /\ \/ /\ staged /\ staged' = FALSE
          /\ UNCHANGED <<events, transactions>>
       \/ \E s \in Positions :
          /\ events[s].links = "temporary"
          /\ events' = [events EXCEPT ![s].links = "one"]
          /\ UNCHANGED <<transactions, staged>>
       \/ \E m \in transactions :
          /\ m.links = "temporary"
          /\ transactions' = (transactions \ {m}) \cup {[m EXCEPT !.links = "one"]}
          /\ UNCHANGED <<events, staged>>
    /\ UNCHANGED <<quarantine, pc, op, repairs, tip, at, told, faults>>

\* recover_quarantine_moves: the source of an interrupted move is removed.
FinishMove(s) ==
    /\ pc = "repairing" /\ ~HasTemporary
    /\ events[s].links = "moved"
    /\ events' = [events EXCEPT ![s] = Missing]
    /\ UNCHANGED <<transactions, staged, quarantine, pc, op, repairs, tip, at, told, faults>>

Repaired ==
    /\ pc = "repairing" /\ ~HasTemporary
    /\ \A s \in Positions : events[s].links # "moved"
    /\ Goto("replaying")
    /\ UNCHANGED <<disk, tip, at, told, faults>>

Replay(n) ==
    /\ pc = "replaying" /\ Replayable /\ Ends(n)
    /\ tip' = n
    /\ Goto(IF repairs THEN "collecting" ELSE "deciding")
    /\ UNCHANGED <<disk, at, told, faults>>

ReplayFails ==
    /\ pc = "replaying" /\ ~Replayable
    /\ Return
    /\ UNCHANGED <<disk, told, faults>>

-----------------------------------------------------------------------------
\* Mutant: the file is unlinked before it is linked in the quarantine.
UnlinkedFirst(s) ==
    /\ events' = [events EXCEPT ![s] = Missing]
    /\ UNCHANGED quarantine
    /\ pc' = IF pc = "publishing" THEN "publishing" ELSE "collecting"

\* SecureDirectory.quarantine: link in the quarantine, then unlink.  If the same
\* bytes are there already only the source is removed.
StartMove(s) ==
    IF events[s].content \in quarantine
    THEN /\ events' = [events EXCEPT ![s] = Missing]
         /\ UNCHANGED <<quarantine, pc>>
    ELSE /\ events' = [events EXCEPT ![s].links = "moved"]
         /\ quarantine' = quarantine \cup {events[s].content}
         /\ pc' = "moving"

Move ==
    /\ pc = "moving"
    /\ events' = [events EXCEPT ![at] = Missing]
    /\ Goto(IF repairs THEN "collecting" ELSE "publishing")
    /\ UNCHANGED <<transactions, staged, quarantine, tip, at, told, faults>>

\* _quarantine_orphan_events
Collect(s) ==
    /\ pc = "collecting" /\ s \in Orphans
    /\ StartMove(s)
    /\ at' = s
    /\ UNCHANGED <<transactions, staged, op, repairs, tip, told, faults>>

Collected ==
    /\ pc = "collecting" /\ Orphans = {}
    /\ Goto("deciding")
    /\ UNCHANGED <<disk, tip, at, told, faults>>

-----------------------------------------------------------------------------
\* Mutant: the receipt is only found for the very same bytes.
FoundBytes(m) == m.request = op

Found(m) == m.request.command = op.command

\* The command has a receipt: the same body gets it, another body is refused.
Known(m) ==
    /\ pc = "deciding" /\ Found(m)
    /\ told' = IF m.request.digest = op.digest THEN told \cup {Receipt(m)} ELSE told
    /\ Return
    /\ UNCHANGED <<disk, faults>>

\* SESSION_DEACTIVATED
Deactivated == Closed

RefuseClosed ==
    /\ pc = "deciding" /\ \A m \in transactions : ~Found(m)
    /\ Deactivated
    /\ Return
    /\ UNCHANGED <<disk, told, faults>>

Prepare ==
    /\ pc = "deciding" /\ \A m \in transactions : ~Found(m)
    /\ ~Deactivated
    /\ Last <= MaxSequence
    /\ at' = tip + 1
    /\ Goto("publishing")
    /\ UNCHANGED <<disk, tip, told, faults>>

\* The event at "at" is on the disk: on to the next, or to the marker.
Advance ==
    /\ at' = at + 1
    /\ Goto(IF at = Last THEN "marking" ELSE "publishing")

LinkEvent ==
    /\ pc = "publishing" /\ events[at] = Missing
    /\ events' = [events EXCEPT ![at] = [links |-> "temporary", content |-> Mine]]
    /\ Goto("linked")
    /\ UNCHANGED <<transactions, staged, quarantine, tip, at, told, faults>>

UnlinkEvent ==
    /\ pc = "linked"
    /\ events' = [events EXCEPT ![at].links = "one"]
    /\ Advance
    /\ UNCHANGED <<transactions, staged, quarantine, tip, told, faults>>

\* Mutant: an event file of the same command is taken for ours.
SameCommand == events[at].content.request.command = op.command

Same == events[at].content = Mine

\* A file of that name exists: ours already, or an orphan to move away.
KeepEvent ==
    /\ pc = "publishing" /\ events[at].links = "one" /\ Same
    /\ Advance
    /\ UNCHANGED <<disk, tip, told, faults>>

ReplaceEvent ==
    /\ pc = "publishing" /\ events[at].links = "one" /\ ~Same
    /\ StartMove(at)
    /\ UNCHANGED <<transactions, staged, op, repairs, tip, at, told, faults>>

UnreadableEvent ==
    /\ pc = "publishing" /\ events[at].links \in {"temporary", "moved"}
    /\ Return
    /\ UNCHANGED <<disk, told, faults>>

-----------------------------------------------------------------------------
StageMarker ==
    /\ pc = "marking"
    /\ staged' = TRUE
    /\ Goto("staged")
    /\ UNCHANGED <<events, transactions, quarantine, tip, at, told, faults>>

NewMarker == [from |-> tip + 1, to |-> Last, request |-> op, links |-> "temporary"]

\* The commit: the lock and the caller's guard are checked, then the marker gets
\* its name.
LinkMarker ==
    /\ pc = "staged"
    /\ transactions' = transactions \cup {NewMarker}
    /\ staged' = FALSE
    /\ Goto("committed")
    /\ UNCHANGED <<events, quarantine, tip, at, told, faults>>

UnlinkMarker ==
    /\ pc = "committed"
    /\ transactions' = (transactions \ {NewMarker}) \cup {[NewMarker EXCEPT !.links = "one"]}
    /\ Goto("answering")
    /\ UNCHANGED <<events, staged, quarantine, tip, at, told, faults>>

Answer ==
    /\ pc = "answering"
    /\ told' = told \cup {Receipt(NewMarker)}
    /\ Return
    /\ UNCHANGED <<disk, faults>>

-----------------------------------------------------------------------------
Fault == faults < MaxFaults /\ faults' = faults + 1

\* The process dies: its temporary files stay.
Crash ==
    /\ pc # "idle" /\ Fault
    /\ Return
    /\ UNCHANGED <<disk, told>>

\* The guard refuses or a system call fails, and the new name of an unfinished
\* write or move is removed.  A file that was linked stays, although the caller
\* gets an error.
Fail ==
    /\ pc \in {"moving", "linked", "staged", "committed"} /\ Fault
    /\ staged' = FALSE
    /\ events' = IF pc \in {"moving", "linked"} THEN [events EXCEPT ![at].links = "one"]
                 ELSE events
    /\ quarantine' = IF pc = "moving" THEN quarantine \ {events[at].content} ELSE quarantine
    /\ transactions' = IF pc = "committed"
                       THEN (transactions \ {NewMarker}) \cup {[NewMarker EXCEPT !.links = "one"]}
                       ELSE transactions
    /\ Return
    /\ UNCHANGED told

Step ==
    \/ RemoveTemporary
    \/ \E s \in Positions : FinishMove(s)
    \/ Repaired
    \/ \E n \in Bounds : Replay(n)
    \/ ReplayFails
    \/ Move
    \/ \E s \in Positions : Collect(s)
    \/ Collected
    \/ \E m \in transactions : Known(m)
    \/ RefuseClosed
    \/ Prepare
    \/ LinkEvent \/ UnlinkEvent
    \/ KeepEvent \/ ReplaceEvent \/ UnreadableEvent
    \/ StageMarker \/ LinkMarker \/ UnlinkMarker
    \/ Answer

Next == (\E r \in Requests : Open(r)) \/ Step \/ Crash \/ Fail

Spec == Init /\ [][Next]_vars

\* The process runs, and a caller repeats a request, with the repairs again and
\* again, until it has its answer.
FairSpec ==
    /\ Spec /\ WF_vars(Step)
    /\ \A r \in Requests : SF_vars(Open(r) /\ repairs')
-----------------------------------------------------------------------------
\* Every file, marker and variable of the operation keeps its shape.
TypeOK ==
    /\ events \in [Positions -> File]
    /\ transactions \subseteq Marker /\ staged \in BOOLEAN
    /\ quarantine \subseteq Content
    /\ pc \in Phases /\ op \in Requests /\ repairs \in BOOLEAN
    /\ tip \in 0..MaxSequence /\ at \in 0..MaxSequence + 1
    /\ told \subseteq [command : Commands, digest : Digests,
                       from : Positions, to : Positions]
    /\ faults \in 0..MaxFaults

\* A marker's events are on the disk exactly as the marker names them, whatever
\* was published, moved away or half written by the attempts before and after it.
CommittedIsIntact ==
    /\ TypeOK
    /\ \A m \in transactions : \A s \in m.from..m.to :
          events[s] # Missing /\ events[s].content = Reference(m, s)

\* An event file only ever leaves events/ for the quarantine: recovery and retries
\* never destroy what an earlier attempt wrote.
NothingIsDestroyed ==
    [][\A s \in Positions :
        events[s] # Missing /\ (events'[s] = Missing \/ events'[s].content # events[s].content)
            => events[s].content \in quarantine']_vars

\* Whatever a crash left behind, opening the log gets to its committed state
\* ("unreferenced events and temporary files are isolated at recovery").
EveryOpenRecovers ==
    /\ pc = "replaying" => Replayable
    /\ pc = "publishing" => events[at].links \notin {"temporary", "moved"}

\* It does so with the repairs on, after opens and crashes of either kind.
CrashIsRecoverable == repairs => EveryOpenRecovers

\* The log keeps the promise of CommittedLog: the link of the marker is the commit.
Promise == INSTANCE CommittedLog WITH
    committed <- {Receipt(m) : m \in transactions}
KeepsPromise == Promise!Spec

\* A caller that repeats its request until it hears something final is told the
\* receipt of its command, unless the stream was closed first.
RetriesAreAnswered ==
    \A c \in Commands : <>(Closed \/ \E r \in told : r.command = c)
===============================================================================
