------------------------------- MODULE LogProofs -------------------------------
(***************************************************************************)
(* Proofs about the durable stream: what a marker commits stays on the     *)
(* disk as the marker names it, an event file only leaves for the          *)
(* quarantine, an operation that repairs the log recovers it from          *)
(* whatever a crash left, and the link of the marker is the commit that    *)
(* CommittedLog promises.  They hold for any length of the stream, any     *)
(* requests and any number of faults.                                      *)
(***************************************************************************)
EXTENDS TransactionLog, TLAPS

\* Every event file says where it belongs; a file that is being moved away is in
\* the quarantine already, and no marker names it.
FilesAreInPlace ==
    \A s \in Positions : events[s] # Missing =>
        /\ events[s].content.base + events[s].content.index = s
        /\ events[s].links = "moved" =>
              events[s].content \in quarantine /\ ~Referenced(s)

\* Every batch follows the one before it.
BatchesFollow ==
    \A m \in transactions :
        /\ m.from <= m.to
        /\ m.from = 1 \/ \E p \in transactions : p.to + 1 = m.from

Opened == {"collecting", "moving", "deciding", "publishing", "linked", "marking", "staged"}
Writing == {"publishing", "linked", "marking", "staged"}

\* Is the operation between its decision and its commit?
Undertaken == pc \in Writing \/ (pc = "moving" /\ ~repairs)

\* The file the operation under way works on may have two links.
InHand == {s \in Positions : s = at /\ pc \in {"moving", "linked"}}

\* What an operation knows of the disk since it opened the log.
OperationIsInformed ==
    /\ pc \in Opened => Ends(tip)
    /\ pc = "collecting" => repairs
    /\ pc = "moving" => at \in Positions /\ events[at].links = "moved"
    /\ repairs /\ pc = "replaying" => ~HasTemporary
    /\ repairs /\ pc \in {"replaying", "collecting", "moving", "deciding", "publishing", "linked"} =>
          \A s \in Positions \ InHand : events[s].links \notin {"temporary", "moved"}

\* What it has written: the events before "at", and then the marker.
OperationIsUnderway ==
    /\ Undertaken =>
          /\ ~Closed /\ \A m \in transactions : ~Found(m)
          /\ Last <= MaxSequence /\ tip < at /\ at <= Last + 1
          /\ \A s \in tip + 1..at - 1 :
                events[s] = [links |-> "one",
                             content |-> [request |-> op, index |-> s - tip, base |-> tip]]
    /\ pc \in {"publishing", "linked"} \/ (pc = "moving" /\ ~repairs) => at <= Last
    /\ pc = "linked" => events[at] = [links |-> "temporary", content |-> Mine]
    /\ pc \in {"marking", "staged"} => at = Last + 1
    /\ pc = "committed" => NewMarker \in transactions
    /\ pc = "answering" => [NewMarker EXCEPT !.links = "one"] \in transactions

\* The inductive invariant.
IInv ==
    /\ CommittedIsIntact
    /\ FilesAreInPlace
    /\ BatchesFollow
    /\ OperationIsInformed
    /\ OperationIsUnderway
-----------------------------------------------------------------------------
\* Files and their changes.
LEMMA FileCases ==
    ASSUME NEW f \in File
    PROVE  \/ f = Missing /\ f.links = "none"
           \/ /\ f # Missing /\ f.links \in Links /\ f.content \in Content
              /\ f = [links |-> f.links, content |-> f.content]
  BY DEF File, Missing, Links

LEMMA FileOf ==
    ASSUME NEW l \in Links, NEW c \in Content
    PROVE  /\ [links |-> l, content |-> c] \in File
           /\ [links |-> l, content |-> c] # Missing
<1>1. [links |-> l, content |-> c].links # Missing.links
  BY DEF Missing, Links
<1> QED
  BY <1>1 DEF File

\* The file at s gets other links.
LEMMA Relinked ==
    ASSUME events \in [Positions -> File], NEW s \in Positions, events[s] # Missing,
           NEW l \in Links, events' = [events EXCEPT ![s].links = l]
    PROVE  /\ events' \in [Positions -> File]
           /\ events'[s] = [links |-> l, content |-> events[s].content]
           /\ events'[s] # Missing
           /\ \A t \in Positions \ {s} : events'[t] = events[t]
<1>1. /\ events[s].content \in Content
      /\ events[s] = [links |-> events[s].links, content |-> events[s].content]
  BY FileCases
<1>2. events'[s] = [events[s] EXCEPT !.links = l]
  OBVIOUS
<1>3. events'[s] = [links |-> l, content |-> events[s].content]
  BY <1>1, <1>2
<1>4. events'[s] \in File /\ events'[s] # Missing
  BY <1>1, <1>3, FileOf
<1>5. \A t \in Positions \ {s} : events'[t] = events[t]
  OBVIOUS
<1>6. events' \in [Positions -> File]
  BY <1>4, <1>5
<1> QED
  BY <1>3, <1>4, <1>5, <1>6

\* The name at s is removed.
LEMMA Vacated ==
    ASSUME events \in [Positions -> File], NEW s \in Positions,
           events' = [events EXCEPT ![s] = Missing]
    PROVE  /\ events' \in [Positions -> File] /\ events'[s] = Missing
           /\ \A t \in Positions \ {s} : events'[t] = events[t]
  BY DEF File

\* What is typed: the disk, and the operation.
DiskTyped ==
    /\ events \in [Positions -> File]
    /\ transactions \subseteq Marker /\ staged \in BOOLEAN
    /\ quarantine \subseteq Content

OperationTyped ==
    /\ pc \in Phases /\ op \in Requests /\ repairs \in BOOLEAN
    /\ tip \in 0..MaxSequence /\ at \in 0..MaxSequence + 1
    /\ told \subseteq [command : Commands, digest : Digests,
                       from : Positions, to : Positions]
    /\ faults \in 0..MaxFaults

LEMMA TypeParts == TypeOK <=> DiskTyped /\ OperationTyped
  BY DEF TypeOK, DiskTyped, OperationTyped

\* A request has a command, and its batch a size.
LEMMA RequestTyped ==
    ASSUME NEW r \in Requests
    PROVE  /\ r \in Request /\ r.command \in Commands /\ r.digest \in Digests
           /\ Size[r.command] \in Nat /\ Size[r.command] >= 1
  BY RequestsAssumption, SizeAssumption DEF Request

LEMMA NobodyTyped == Nobody \in Requests
  BY RequestsAssumption DEF Nobody

\* An operation that returns leaves nothing behind.
LEMMA Returned ==
    ASSUME OperationTyped, Return,
           told' \subseteq [command : Commands, digest : Digests,
                            from : Positions, to : Positions],
           faults' \in 0..MaxFaults
    PROVE  OperationTyped' /\ pc' = "idle" /\ ~repairs'
<1>1. pc' \in Phases /\ op' \in Requests /\ repairs' \in BOOLEAN
  BY NobodyTyped DEF Return, Phases
<1>2. tip' \in 0..MaxSequence /\ at' \in 0..MaxSequence + 1
  BY BoundsAssumption DEF Return
<1> QED
  BY <1>1, <1>2 DEF OperationTyped, Return, Positions

LEMMA IdleKnowsNothing ==
    ASSUME pc' = "idle", ~repairs'
    PROVE  OperationIsInformed' /\ OperationIsUnderway'
  BY DEF OperationIsInformed, OperationIsUnderway, Opened, Writing, Undertaken

-----------------------------------------------------------------------------
\* The parts of the invariant that speak of the disk alone.
Intact ==
    \A m \in transactions : \A s \in m.from..m.to :
        events[s] # Missing /\ events[s].content = Reference(m, s)

DiskInv == DiskTyped /\ Intact /\ FilesAreInPlace /\ BatchesFollow

LEMMA InvParts ==
    IInv <=> DiskInv /\ OperationTyped /\ OperationIsInformed /\ OperationIsUnderway
  BY TypeParts DEF IInv, DiskInv, CommittedIsIntact, Intact

LEMMA InvNext ==
    ASSUME DiskInv', OperationTyped', OperationIsInformed', OperationIsUnderway'
    PROVE  IInv'
  BY DEF IInv, DiskInv, CommittedIsIntact, Intact, TypeOK, DiskTyped, OperationTyped

LEMMA MarkerTyped ==
    ASSUME DiskTyped, NEW m \in transactions
    PROVE  /\ m.from \in Positions /\ m.to \in Positions /\ m.request \in Request
           /\ m.links \in {"one", "temporary"}
           /\ m = [from |-> m.from, to |-> m.to, request |-> m.request, links |-> m.links]
           /\ \A s \in m.from..m.to : s \in Positions /\ Referenced(s)
  BY BoundsAssumption DEF DiskTyped, Marker, Positions, Referenced

\* Event files change, and no file that a marker names is lost, moved or rewritten.
LEMMA EventsChange ==
    ASSUME DiskInv, events' \in [Positions -> File], quarantine' \subseteq Content,
           staged' \in BOOLEAN, UNCHANGED transactions,
           \A s \in Positions : Referenced(s) =>
                events'[s] # Missing /\ events'[s].content = events[s].content,
           \A s \in Positions : events'[s] # Missing =>
                /\ events'[s].content.base + events'[s].content.index = s
                /\ events'[s].links = "moved" =>
                      events'[s].content \in quarantine' /\ ~Referenced(s)
    PROVE  DiskInv'
<1>1. DiskTyped'
  BY DEF DiskInv, DiskTyped
<1>2. Intact'
  <2> SUFFICES ASSUME NEW m \in transactions, NEW s \in m.from..m.to
               PROVE  events'[s] # Missing /\ events'[s].content = Reference(m, s)
    BY DEF Intact, Reference
  <2>1. s \in Positions /\ Referenced(s)
    BY MarkerTyped DEF DiskInv
  <2>2. events[s].content = Reference(m, s)
    BY DEF DiskInv, Intact
  <2> QED
    BY <2>1, <2>2
<1>3. FilesAreInPlace'
  BY DEF FilesAreInPlace, Referenced
<1>4. BatchesFollow'
  BY DEF DiskInv, BatchesFollow
<1> QED
  BY <1>1, <1>2, <1>3, <1>4 DEF DiskInv

LEMMA DiskStays ==
    ASSUME DiskInv, UNCHANGED <<events, transactions, quarantine>>, staged' \in BOOLEAN
    PROVE  DiskInv'
  BY DEF DiskInv, DiskTyped, Intact, Reference, FilesAreInPlace, Referenced, BatchesFollow

\* A file loses its second link.
LEMMA LinkFixed ==
    ASSUME DiskInv, NEW s \in Positions, events[s] # Missing,
           events' = [events EXCEPT ![s].links = "one"],
           UNCHANGED transactions, staged' \in BOOLEAN, quarantine' \subseteq Content,
           \A t \in Positions \ {s} :
                events[t] # Missing /\ events[t].links = "moved" => events[t].content \in quarantine'
    PROVE  DiskInv'
<1>1. "one" \in Links /\ events \in [Positions -> File]
  BY DEF Links, DiskInv, DiskTyped
<1>2. /\ events' \in [Positions -> File]
      /\ events'[s] = [links |-> "one", content |-> events[s].content]
      /\ events'[s] # Missing
      /\ \A t \in Positions \ {s} : events'[t] = events[t]
  BY <1>1, Relinked
<1>3. \A t \in Positions : Referenced(t) =>
          events'[t] # Missing /\ events'[t].content = events[t].content
  <2> SUFFICES ASSUME NEW t \in Positions, Referenced(t)
               PROVE  events'[t] # Missing /\ events'[t].content = events[t].content
    OBVIOUS
  <2>1. events[t] # Missing
    BY DEF DiskInv, Intact, Referenced
  <2> QED
    BY <1>2, <2>1
<1>4. \A t \in Positions : events'[t] # Missing =>
          /\ events'[t].content.base + events'[t].content.index = t
          /\ events'[t].links = "moved" =>
                events'[t].content \in quarantine' /\ ~Referenced(t)
  BY <1>2 DEF DiskInv, FilesAreInPlace
<1> QED
  BY <1>2, <1>3, <1>4, EventsChange

\* A file no marker names leaves.
LEMMA FileLeaves ==
    ASSUME DiskInv, NEW s \in Positions, ~Referenced(s),
           events' = [events EXCEPT ![s] = Missing],
           UNCHANGED <<transactions, staged, quarantine>>
    PROVE  DiskInv'
<1>1. events \in [Positions -> File]
  BY DEF DiskInv, DiskTyped
<1>2. /\ events' \in [Positions -> File] /\ events'[s] = Missing
      /\ \A t \in Positions \ {s} : events'[t] = events[t]
  BY <1>1, Vacated
<1>3. \A t \in Positions : Referenced(t) =>
          events'[t] # Missing /\ events'[t].content = events[t].content
  BY <1>2 DEF DiskInv, Intact, Referenced
<1>4. \A t \in Positions : events'[t] # Missing =>
          /\ events'[t].content.base + events'[t].content.index = t
          /\ events'[t].links = "moved" =>
                events'[t].content \in quarantine' /\ ~Referenced(t)
  BY <1>2 DEF DiskInv, FilesAreInPlace
<1> QED
  BY <1>2, <1>3, <1>4, EventsChange DEF DiskInv, DiskTyped

\* A file no marker names is linked in the quarantine.
LEMMA FileMoves ==
    ASSUME DiskInv, NEW s \in Positions, ~Referenced(s), events[s] # Missing,
           events' = [events EXCEPT ![s].links = "moved"],
           quarantine' = quarantine \cup {events[s].content},
           UNCHANGED <<transactions, staged>>
    PROVE  DiskInv'
<1>1. "moved" \in Links /\ events \in [Positions -> File] /\ events[s].content \in Content
  BY FileCases DEF Links, DiskInv, DiskTyped
<1>2. /\ events' \in [Positions -> File]
      /\ events'[s] = [links |-> "moved", content |-> events[s].content]
      /\ events'[s] # Missing
      /\ \A t \in Positions \ {s} : events'[t] = events[t]
  BY <1>1, Relinked
<1>3. \A t \in Positions : Referenced(t) =>
          events'[t] # Missing /\ events'[t].content = events[t].content
  BY <1>2 DEF DiskInv, Intact, Referenced
<1>4. \A t \in Positions : events'[t] # Missing =>
          /\ events'[t].content.base + events'[t].content.index = t
          /\ events'[t].links = "moved" =>
                events'[t].content \in quarantine' /\ ~Referenced(t)
  BY <1>2 DEF DiskInv, FilesAreInPlace
<1> QED
  BY <1>1, <1>2, <1>3, <1>4, EventsChange DEF DiskInv, DiskTyped

\* StartMove is one or the other.
LEMMA MoveStarts ==
    ASSUME DiskInv, NEW s \in Positions, ~Referenced(s), events[s] # Missing,
           StartMove(s), UNCHANGED <<transactions, staged>>
    PROVE  DiskInv'
  BY FileLeaves, FileMoves DEF StartMove

\* A file is published where there was none.
LEMMA FileArrives ==
    ASSUME DiskInv, NEW s \in Positions, events[s] = Missing,
           NEW c \in Content, c.base + c.index = s,
           events' = [events EXCEPT ![s] = [links |-> "temporary", content |-> c]],
           UNCHANGED <<transactions, staged, quarantine>>
    PROVE  DiskInv'
<1> DEFINE f == [links |-> "temporary", content |-> c]
<1>1. f \in File /\ f # Missing /\ f.links = "temporary" /\ f.content = c
  BY FileOf DEF Links
<1> HIDE DEF f
<1>2. events' = [events EXCEPT ![s] = f]
  BY DEF f
<1>3. /\ events' \in [Positions -> File] /\ events'[s] = f
      /\ \A t \in Positions \ {s} : events'[t] = events[t]
  BY <1>1, <1>2 DEF DiskInv, DiskTyped
<1>4. \A t \in Positions : Referenced(t) =>
          events'[t] # Missing /\ events'[t].content = events[t].content
  <2> SUFFICES ASSUME NEW t \in Positions, Referenced(t)
               PROVE  events'[t] # Missing /\ events'[t].content = events[t].content
    OBVIOUS
  <2>1. events[t] # Missing
    BY DEF DiskInv, Intact, Referenced
  <2> QED
    BY <1>3, <2>1
<1>5. \A t \in Positions : events'[t] # Missing =>
          /\ events'[t].content.base + events'[t].content.index = t
          /\ events'[t].links = "moved" =>
                events'[t].content \in quarantine' /\ ~Referenced(t)
  BY <1>1, <1>3 DEF DiskInv, FilesAreInPlace
<1> QED
  BY <1>3, <1>4, <1>5, EventsChange DEF DiskInv, DiskTyped

-----------------------------------------------------------------------------
\* A marker loses its second link.
Fixed(m) == [m EXCEPT !.links = "one"]

LEMMA FixedTyped ==
    ASSUME NEW m \in Marker
    PROVE  /\ Fixed(m) \in Marker /\ Fixed(m).links = "one"
           /\ Fixed(m).from = m.from /\ Fixed(m).to = m.to /\ Fixed(m).request = m.request
  BY DEF Marker, Fixed

LEMMA MarkerFixed ==
    ASSUME transactions \subseteq Marker, NEW m \in transactions,
           transactions' = (transactions \ {m}) \cup {Fixed(m)}
    PROVE  /\ transactions' \subseteq Marker
           /\ \A p \in transactions' : \E q \in transactions :
                p.from = q.from /\ p.to = q.to /\ p.request = q.request
           /\ \A q \in transactions : \E p \in transactions' :
                p.from = q.from /\ p.to = q.to /\ p.request = q.request
  BY FixedTyped

\* The markers name the same batches.
LEMMA MarkersStay ==
    ASSUME DiskInv, UNCHANGED <<events, quarantine>>, staged' \in BOOLEAN,
           transactions' \subseteq Marker,
           \A p \in transactions' : \E q \in transactions :
                p.from = q.from /\ p.to = q.to /\ p.request = q.request,
           \A q \in transactions : \E p \in transactions' :
                p.from = q.from /\ p.to = q.to /\ p.request = q.request
    PROVE  DiskInv' /\ (\A s : Referenced(s)' <=> Referenced(s)) /\ Bounds' = Bounds
<1>1. DiskTyped'
  BY DEF DiskInv, DiskTyped
<1>2. Intact'
  <2> SUFFICES ASSUME NEW m \in transactions', NEW s \in m.from..m.to
               PROVE  events[s] # Missing /\ events[s].content = Reference(m, s)
    BY DEF Intact, Reference
  <2>1. PICK q \in transactions : m.from = q.from /\ m.to = q.to /\ m.request = q.request
    OBVIOUS
  <2>2. events[s] # Missing /\ events[s].content = Reference(q, s)
    BY <2>1 DEF DiskInv, Intact
  <2> QED
    BY <2>1, <2>2 DEF Reference
<1>3. \A s : Referenced(s)' <=> Referenced(s)
  <2> SUFFICES ASSUME NEW s PROVE Referenced(s)' <=> Referenced(s)
    OBVIOUS
  <2>1. Referenced(s)' <=> \E p \in transactions' : s \in p.from..p.to
    BY DEF Referenced
  <2>2. Referenced(s) <=> \E p \in transactions : s \in p.from..p.to
    BY DEF Referenced
  <2> QED
    BY <2>1, <2>2
<1>4. FilesAreInPlace'
  <2>1. \A s \in Positions : events[s] # Missing =>
          /\ events[s].content.base + events[s].content.index = s
          /\ events[s].links = "moved" => events[s].content \in quarantine /\ ~Referenced(s)'
    BY <1>3 DEF DiskInv, FilesAreInPlace
  <2> QED
    BY <2>1 DEF FilesAreInPlace, Referenced
<1>5. BatchesFollow'
  <2> SUFFICES ASSUME NEW m \in transactions'
               PROVE  m.from <= m.to /\ (m.from = 1 \/ \E p \in transactions' : p.to + 1 = m.from)
    BY DEF BatchesFollow
  <2>1. PICK q \in transactions : m.from = q.from /\ m.to = q.to /\ m.request = q.request
    OBVIOUS
  <2>2. q.from <= q.to /\ (q.from = 1 \/ \E p \in transactions : p.to + 1 = q.from)
    BY DEF DiskInv, BatchesFollow
  <2> QED
    BY <2>1, <2>2
<1>6. Bounds' = Bounds
  <2>1. \A n : n \in Bounds' <=> n = 0 \/ \E m \in transactions' : n = m.to
    BY DEF Bounds
  <2>2. \A n : n \in Bounds <=> n = 0 \/ \E m \in transactions : n = m.to
    BY DEF Bounds
  <2>3. \A n : n \in Bounds' <=> n \in Bounds
    BY <2>1, <2>2
  <2> QED
    BY <2>3, Zenon DEF Bounds
<1> QED
  BY <1>1, <1>2, <1>3, <1>4, <1>5, <1>6 DEF DiskInv

-----------------------------------------------------------------------------
\* The operations that give the lock back.
LEMMA ReceiptTyped ==
    ASSUME DiskTyped, NEW m \in Marker
    PROVE  Receipt(m) \in [command : Commands, digest : Digests,
                           from : Positions, to : Positions]
  BY DEF Receipt, Marker, Request

LEMMA ReturnKeeps ==
    ASSUME IInv, Return, DiskInv', faults' \in 0..MaxFaults,
           told' \subseteq [command : Commands, digest : Digests,
                            from : Positions, to : Positions]
    PROVE  IInv'
<1>1. OperationTyped' /\ pc' = "idle" /\ ~repairs'
  BY Returned, InvParts
<1>2. OperationIsInformed' /\ OperationIsUnderway'
  BY <1>1, IdleKnowsNothing
<1> QED
  BY <1>1, <1>2, InvNext

LEMMA DiskUntouched ==
    ASSUME DiskInv, UNCHANGED disk
    PROVE  DiskInv'
<1>1. UNCHANGED <<events, transactions, quarantine>> /\ staged' \in BOOLEAN
  BY DEF disk, DiskInv, DiskTyped
<1> QED
  BY <1>1, DiskStays

LEMMA FaultTyped ==
    ASSUME OperationTyped, Fault \/ UNCHANGED faults
    PROVE  faults' \in 0..MaxFaults
  BY BoundsAssumption DEF Fault, OperationTyped

LEMMA NewMarkerFixed ==
    /\ NewMarker.from = tip + 1 /\ NewMarker.to = Last /\ NewMarker.request = op
    /\ NewMarker.links = "temporary"
    /\ [NewMarker EXCEPT !.links = "one"] =
          [from |-> tip + 1, to |-> Last, request |-> op, links |-> "one"]
    /\ Receipt([NewMarker EXCEPT !.links = "one"]) = Receipt(NewMarker)
  BY DEF NewMarker, Receipt

LEMMA ReturningKeepsInv ==
    ASSUME IInv,
           \/ ReplayFails \/ RefuseClosed \/ UnreadableEvent \/ Answer \/ Crash
           \/ \E m \in transactions : Known(m)
    PROVE  IInv'
<1>1. DiskInv /\ OperationTyped /\ OperationIsUnderway
  BY InvParts
<1>2. Return /\ UNCHANGED disk /\ (Fault \/ UNCHANGED faults)
  BY DEF ReplayFails, RefuseClosed, UnreadableEvent, Answer, Crash, Known
<1>3. told' \subseteq [command : Commands, digest : Digests,
                       from : Positions, to : Positions]
  <2>1. CASE Answer
    <3>1. [NewMarker EXCEPT !.links = "one"] \in Marker
      BY <1>1, <2>1 DEF Answer, OperationIsUnderway, DiskInv, DiskTyped
    <3>2. Receipt(NewMarker) \in [command : Commands, digest : Digests,
                                  from : Positions, to : Positions]
      BY <1>1, <3>1, ReceiptTyped, NewMarkerFixed DEF DiskInv
    <3> QED
      BY <1>1, <2>1, <3>2 DEF Answer, OperationTyped
  <2>2. ASSUME NEW m \in transactions, Known(m)
        PROVE  told' \subseteq [command : Commands, digest : Digests,
                                from : Positions, to : Positions]
    <3>1. Receipt(m) \in [command : Commands, digest : Digests,
                          from : Positions, to : Positions]
      BY <1>1, ReceiptTyped DEF DiskInv, DiskTyped
    <3> QED
      BY <1>1, <2>2, <3>1 DEF Known, OperationTyped
  <2>3. CASE ReplayFails \/ RefuseClosed \/ UnreadableEvent \/ Crash
    BY <1>1, <2>3 DEF ReplayFails, RefuseClosed, UnreadableEvent, Crash, OperationTyped
  <2> QED
    BY <2>1, <2>2, <2>3
<1> QED
  BY <1>1, <1>2, <1>3, ReturnKeeps, DiskUntouched, FaultTyped

-----------------------------------------------------------------------------
\* The steps that leave the disk alone and go on.
LEMMA StillReferenced ==
    ASSUME UNCHANGED <<events, transactions>>
    PROVE  /\ \A s : Referenced(s)' <=> Referenced(s)
           /\ Bounds' = Bounds /\ (Closed' <=> Closed) /\ (HasTemporary /\ UNCHANGED staged => HasTemporary')
           /\ (HasTemporary' /\ UNCHANGED staged => HasTemporary)
  BY DEF Referenced, Bounds, Closed, HasTemporary

LEMMA OpenKeepsInv ==
    ASSUME IInv, NEW r \in Requests, Open(r)
    PROVE  IInv'
<1>1. DiskInv /\ OperationTyped /\ UNCHANGED disk
  BY InvParts DEF Open
<1>2. DiskInv'
  BY <1>1, DiskUntouched
<1>3. OperationTyped'
  BY <1>1, RepairsAssumption DEF Open, OperationTyped, Phases, Positions
<1>4. OperationIsInformed'
  BY DEF Open, OperationIsInformed, Opened
<1>5. OperationIsUnderway'
  BY DEF Open, OperationIsUnderway, Undertaken, Writing
<1> QED
  BY <1>2, <1>3, <1>4, <1>5, InvNext

LEMMA RepairedKeepsInv ==
    ASSUME IInv, Repaired
    PROVE  IInv'
<1>1. DiskInv /\ OperationTyped /\ UNCHANGED disk
  BY InvParts DEF Repaired
<1>2. DiskInv'
  BY <1>1, DiskUntouched
<1>3. OperationTyped'
  BY <1>1 DEF Repaired, Goto, OperationTyped, Phases, Positions
<1>4. OperationIsInformed'
  <2>1. \A s \in Positions : events[s].links # "temporary" /\ events[s].links # "moved"
    BY DEF Repaired, HasTemporary
  <2>2. ~HasTemporary'
    BY DEF Repaired, HasTemporary, disk
  <2>3. pc' = "replaying"
    BY DEF Repaired, Goto
  <2> QED
    BY <1>1, <2>1, <2>2, <2>3 DEF OperationIsInformed, Opened, disk
<1>5. OperationIsUnderway'
  BY DEF Repaired, Goto, OperationIsUnderway, Undertaken, Writing
<1> QED
  BY <1>2, <1>3, <1>4, <1>5, InvNext

LEMMA BoundsTyped ==
    ASSUME DiskTyped, NEW n \in Bounds
    PROVE  n \in 0..MaxSequence
  BY BoundsAssumption, MarkerTyped DEF Bounds, Positions

LEMMA ReplayKeepsInv ==
    ASSUME IInv, NEW n \in Bounds, Replay(n)
    PROVE  IInv'
<1>1. DiskInv /\ OperationTyped /\ OperationIsInformed /\ UNCHANGED disk
  BY InvParts DEF Replay
<1>2. DiskInv'
  BY <1>1, DiskUntouched
<1>3. OperationTyped'
  BY <1>1, BoundsTyped DEF Replay, Goto, DiskInv, OperationTyped, Phases, Positions
<1>4. OperationIsInformed'
  <2>1. Bounds' = Bounds /\ Ends(n)
    BY <1>1 DEF disk, Bounds, Replay
  <2>2. Ends(tip)'
    BY <2>1 DEF Ends, Replay
  <2>3. pc' \in {"collecting", "deciding"} /\ (pc' = "collecting" => repairs') /\ repairs' = repairs
    BY DEF Replay, Goto
  <2>4. repairs => \A s \in Positions : events[s].links # "temporary" /\ events[s].links # "moved"
    BY <1>1 DEF Replay, OperationIsInformed, InHand
  <2> QED
    BY <1>1, <2>2, <2>3, <2>4 DEF OperationIsInformed, disk
<1>5. OperationIsUnderway'
  BY DEF Replay, Goto, OperationIsUnderway, Undertaken, Writing
<1> QED
  BY <1>2, <1>3, <1>4, <1>5, InvNext

\* Between two steps that neither touch the disk nor start the undertaking.
LEMMA CollectedKeepsInv ==
    ASSUME IInv, Collected
    PROVE  IInv'
<1>1. DiskInv /\ OperationTyped /\ OperationIsInformed /\ UNCHANGED disk
  BY InvParts DEF Collected
<1>2. DiskInv'
  BY <1>1, DiskUntouched
<1>3. OperationTyped'
  BY <1>1 DEF Collected, Goto, OperationTyped, Phases, Positions
<1>4. OperationIsInformed'
  <2>1. Bounds' = Bounds /\ Ends(tip) /\ pc' = "deciding" /\ tip' = tip
    BY <1>1 DEF disk, Bounds, Collected, Goto, OperationIsInformed, Opened
  <2>2. Ends(tip)'
    BY <2>1 DEF Ends
  <2>3. repairs => \A s \in Positions : events[s].links # "temporary" /\ events[s].links # "moved"
    BY <1>1 DEF Collected, OperationIsInformed, InHand
  <2> QED
    BY <1>1, <2>1, <2>2, <2>3 DEF OperationIsInformed, disk, Collected, Goto
<1>5. OperationIsUnderway'
  BY DEF Collected, Goto, OperationIsUnderway, Undertaken, Writing
<1> QED
  BY <1>2, <1>3, <1>4, <1>5, InvNext

LEMMA PrepareKeepsInv ==
    ASSUME IInv, Prepare
    PROVE  IInv'
<1>1. /\ DiskInv /\ OperationTyped /\ OperationIsInformed /\ UNCHANGED disk
      /\ op' = op /\ repairs' = repairs /\ tip' = tip /\ at' = tip + 1 /\ pc' = "publishing"
      /\ pc = "deciding" /\ told' = told /\ faults' = faults
  BY InvParts DEF Prepare, Goto
<1>2. DiskInv'
  BY <1>1, DiskUntouched
<1>3. /\ Size[op.command] \in Nat /\ Size[op.command] >= 1 /\ Last <= MaxSequence
      /\ tip \in Nat /\ Last \in Nat
  BY <1>1, RequestTyped DEF OperationTyped, Prepare, Last
<1>4. OperationTyped'
  BY <1>1, <1>3, BoundsAssumption DEF OperationTyped, Phases, Positions
<1>5. OperationIsInformed'
  <2>1. Bounds' = Bounds /\ Ends(tip)
    BY <1>1 DEF disk, Bounds, OperationIsInformed, Opened
  <2>2. Ends(tip)'
    BY <1>1, <2>1 DEF Ends
  <2>3. repairs => \A s \in Positions : events[s].links # "temporary" /\ events[s].links # "moved"
    BY <1>1 DEF OperationIsInformed, InHand
  <2> QED
    BY <1>1, <2>2, <2>3 DEF OperationIsInformed, disk
<1>6. OperationIsUnderway'
  <2>1. ~Closed' /\ \A m \in transactions' : ~Found(m)'
    BY <1>1 DEF Prepare, Deactivated, Closed, disk, Found
  <2>2. Last' = Last /\ tip < at' /\ at' <= Last /\ tip + 1..at' - 1 = {}
    BY <1>1, <1>3 DEF Last
  <2> QED
    BY <1>1, <1>3, <2>1, <2>2 DEF OperationIsUnderway, Undertaken, Writing
<1> QED
  BY <1>2, <1>4, <1>5, <1>6, InvNext

-----------------------------------------------------------------------------
\* The steps that publish the events of a batch.
LEMMA EndIsPast ==
    ASSUME DiskInv, NEW n \in Nat, Ends(n), NEW s \in Positions, s > n
    PROVE  ~Referenced(s)
<1> SUFFICES ASSUME NEW m \in transactions, s \in m.from..m.to
             PROVE  FALSE
  BY DEF Referenced
<1>1. m.to \in Bounds /\ m.to \in Positions /\ m.from \in Positions
  BY MarkerTyped DEF Bounds, DiskInv
<1>2. m.to <= n
  BY <1>1 DEF Ends
<1> QED
  BY <1>1, <1>2 DEF Positions

LEMMA EndStays ==
    ASSUME Bounds' = Bounds, tip' = tip, Ends(tip)
    PROVE  Ends(tip)'
  BY DEF Ends

LEMMA UndertakingTyped ==
    ASSUME IInv, pc \in {"publishing", "linked"} \/ (pc = "moving" /\ ~repairs)
    PROVE  /\ DiskInv /\ OperationTyped /\ op \in Requests
           /\ tip \in Nat /\ Last \in Positions /\ at \in Positions /\ tip < at /\ at <= Last
           /\ Size[op.command] \in Nat
           /\ Mine \in Content /\ Mine.base + Mine.index = at
           /\ Ends(tip) /\ ~Referenced(at)
           /\ ~Closed /\ \A m \in transactions : ~Found(m)
<1>1. DiskInv /\ OperationTyped /\ OperationIsInformed /\ OperationIsUnderway
  BY InvParts
<1>2. op \in Requests /\ Size[op.command] \in Nat /\ op \in Request /\ tip \in 0..MaxSequence
  BY <1>1, RequestTyped DEF OperationTyped
<1>3. tip < at /\ at <= Last /\ Last <= MaxSequence /\ at \in 0..MaxSequence + 1
  BY <1>1 DEF OperationIsUnderway, Undertaken, Writing, OperationTyped
<1>4. tip \in Nat /\ Last \in Positions /\ at \in Positions
  BY <1>2, <1>3, BoundsAssumption DEF Last, Positions
<1>5. at - tip \in Positions
  BY <1>3, <1>4, BoundsAssumption DEF Positions
<1>6. Mine \in Content /\ Mine.base = tip /\ Mine.index = at - tip
  BY <1>2, <1>5 DEF Mine, Content
<1>7. Mine.base + Mine.index = at
  BY <1>4, <1>6 DEF Positions
<1>8. Ends(tip)
  BY <1>1 DEF OperationIsInformed, Opened
<1>9. ~Referenced(at)
  BY <1>1, <1>3, <1>4, <1>8, EndIsPast
<1>10. ~Closed /\ \A m \in transactions : ~Found(m)
  BY <1>1 DEF OperationIsUnderway, Undertaken, Writing
<1> QED
  BY <1>1, <1>2, <1>3, <1>4, <1>6, <1>7, <1>8, <1>9, <1>10

LEMMA AdvanceKeepsInv ==
    ASSUME IInv, pc \in {"publishing", "linked"}, Advance,
           UNCHANGED <<transactions, tip, told, faults>>,
           events'[at] = [links |-> "one", content |-> Mine],
           \A t \in Positions \ {at} : events'[t] = events[t],
           DiskInv'
    PROVE  IInv'
<1>1. /\ OperationTyped /\ tip \in Nat /\ Last \in Positions /\ at \in Positions
      /\ tip < at /\ at <= Last /\ Ends(tip) /\ ~Closed /\ \A m \in transactions : ~Found(m)
      /\ OperationIsInformed /\ OperationIsUnderway
  BY UndertakingTyped, InvParts
<1>2. /\ at' = at + 1 /\ op' = op /\ repairs' = repairs /\ tip' = tip
      /\ pc' = IF at = Last THEN "marking" ELSE "publishing"
  BY DEF Advance, Goto
<1>3. OperationTyped'
  BY <1>1, <1>2, BoundsAssumption DEF OperationTyped, Phases, Positions
<1>4. OperationIsInformed'
  <2>1. Ends(tip)'
    BY <1>1, EndStays DEF Bounds
  <2>2. repairs => \A t \in Positions \ {at} : events[t].links \notin {"temporary", "moved"}
    BY <1>1 DEF OperationIsInformed, InHand
  <2>3. repairs => \A t \in Positions : events'[t].links \notin {"temporary", "moved"}
    BY <1>1, <2>2
  <2> QED
    BY <1>2, <2>1, <2>3 DEF OperationIsInformed
<1>5. OperationIsUnderway'
  <2>1. ~Closed' /\ \A m \in transactions' : ~Found(m)'
    BY <1>1, <1>2 DEF Closed, Found
  <2>2. Last' = Last /\ tip' < at' /\ at' <= Last + 1
    BY <1>1, <1>2 DEF Last, Positions
  <2>3. pc' = "publishing" => at' <= Last
    BY <1>1, <1>2 DEF Positions
  <2>4. \A s \in tip + 1..at' - 1 :
           events'[s] = [links |-> "one",
                         content |-> [request |-> op, index |-> s - tip, base |-> tip]]
    <3> SUFFICES ASSUME NEW s \in tip + 1..at' - 1
                 PROVE  events'[s] = [links |-> "one",
                           content |-> [request |-> op, index |-> s - tip, base |-> tip]]
      OBVIOUS
    <3>1. CASE s = at
      BY <3>1 DEF Mine
    <3>2. CASE s # at
      <4>1. s \in tip + 1..at - 1 /\ s \in Positions \ {at}
        BY <1>1, <1>2, <3>2, BoundsAssumption DEF Positions
      <4> QED
        BY <4>1, <1>1 DEF OperationIsUnderway, Undertaken, Writing
    <3> QED
      BY <3>1, <3>2
  <2>5. Last <= MaxSequence
    BY <1>1, BoundsAssumption DEF Positions
  <2>6. pc' \in {"marking", "publishing"} /\ (pc' = "marking" => at' = Last + 1)
    BY <1>2
  <2>7. /\ pc' \notin {"linked", "staged", "committed", "answering", "moving"}
    BY <2>6
  <2> QED
    BY <1>2, <2>1, <2>2, <2>3, <2>4, <2>5, <2>6, <2>7 DEF OperationIsUnderway
<1> QED
  BY <1>3, <1>4, <1>5, InvNext

LEMMA KeepEventKeepsInv ==
    ASSUME IInv, KeepEvent
    PROVE  IInv'
<1>1. DiskInv /\ at \in Positions /\ UNCHANGED disk
  BY UndertakingTyped DEF KeepEvent
<1>2. DiskInv'
  BY <1>1, DiskUntouched
<1>3. events[at] \in File /\ events[at].links = "one" /\ events[at].content = Mine
  BY <1>1 DEF DiskInv, DiskTyped, KeepEvent, Same
<1>4. events[at] = [links |-> "one", content |-> Mine]
  <2>1. events[at] = [links |-> events[at].links, content |-> events[at].content]
    BY <1>3, FileCases
  <2> QED
    BY <1>3, <2>1
<1> QED
  BY <1>1, <1>2, <1>4, AdvanceKeepsInv DEF KeepEvent, disk

LEMMA UnlinkEventKeepsInv ==
    ASSUME IInv, UnlinkEvent
    PROVE  IInv'
<1>1. /\ DiskInv /\ at \in Positions /\ pc = "linked" /\ Mine \in Content
      /\ OperationIsUnderway /\ OperationIsInformed
      /\ events' = [events EXCEPT ![at].links = "one"]
  BY UndertakingTyped, InvParts DEF UnlinkEvent
<1>2. events[at] = [links |-> "temporary", content |-> Mine]
  BY <1>1 DEF OperationIsUnderway
<1>3. events[at] # Missing /\ events[at].content = Mine
  BY <1>1, <1>2, FileOf DEF Links
<1>4. events \in [Positions -> File] /\ "one" \in Links
  BY <1>1 DEF DiskInv, DiskTyped, Links
<1>5. /\ events'[at] = [links |-> "one", content |-> Mine]
      /\ \A t \in Positions \ {at} : events'[t] = events[t]
  BY <1>1, <1>3, <1>4, Relinked
<1>6. DiskInv'
  BY <1>1, <1>3, LinkFixed DEF UnlinkEvent, DiskInv, DiskTyped, FilesAreInPlace
<1> QED
  BY <1>1, <1>5, <1>6, AdvanceKeepsInv DEF UnlinkEvent

LEMMA LinkEventKeepsInv ==
    ASSUME IInv, LinkEvent
    PROVE  IInv'
<1>1. /\ DiskInv /\ OperationTyped /\ at \in Positions /\ Mine \in Content
      /\ Mine.base + Mine.index = at /\ Ends(tip) /\ ~Closed
      /\ tip \in Nat /\ Last \in Positions /\ tip < at /\ at <= Last
      /\ OperationIsUnderway /\ OperationIsInformed
      /\ \A m \in transactions : ~Found(m)
  BY UndertakingTyped, InvParts DEF LinkEvent
<1>2. /\ events' = [events EXCEPT ![at] = [links |-> "temporary", content |-> Mine]]
      /\ UNCHANGED <<transactions, staged, quarantine, tip, at, told, faults, op, repairs>>
      /\ pc = "publishing" /\ pc' = "linked" /\ events[at] = Missing
  BY DEF LinkEvent, Goto
<1>3. DiskInv'
  BY <1>1, <1>2, FileArrives
<1>4. OperationTyped'
  BY <1>1, <1>2 DEF OperationTyped, Phases, Positions
<1>5. /\ events'[at] = [links |-> "temporary", content |-> Mine]
      /\ \A t \in Positions \ {at} : events'[t] = events[t]
  BY <1>1, <1>2 DEF DiskInv, DiskTyped
<1>6. OperationIsInformed'
  <2>1. Ends(tip)'
    BY <1>1, <1>2, EndStays DEF Bounds
  <2>2. repairs => \A t \in Positions \ {at} : events'[t].links \notin {"temporary", "moved"}
    BY <1>1, <1>2, <1>5 DEF OperationIsInformed, InHand
  <2> QED
    BY <1>2, <2>1, <2>2 DEF OperationIsInformed, InHand
<1>7. OperationIsUnderway'
  <2>1. ~Closed' /\ \A m \in transactions' : ~Found(m)'
    BY <1>1, <1>2 DEF Closed, Found
  <2>2. Last' = Last /\ Mine' = Mine /\ Last <= MaxSequence /\ at <= Last + 1
    BY <1>1, <1>2, BoundsAssumption DEF Last, Mine, Positions
  <2>3. \A s \in tip + 1..at - 1 :
           events'[s] = [links |-> "one",
                         content |-> [request |-> op, index |-> s - tip, base |-> tip]]
    <3>1. \A s \in tip + 1..at - 1 : s \in Positions \ {at}
      BY <1>1, BoundsAssumption DEF Positions
    <3> QED
      BY <1>1, <1>2, <1>5, <3>1 DEF OperationIsUnderway, Undertaken, Writing
  <2>4. pc' \notin {"marking", "staged", "committed", "answering", "moving", "publishing"}
    BY <1>2
  <2> QED
    BY <1>1, <1>2, <1>5, <2>1, <2>2, <2>3, <2>4 DEF OperationIsUnderway
<1> QED
  BY <1>3, <1>4, <1>6, <1>7, InvNext

-----------------------------------------------------------------------------
\* The steps that move files out of the way.
LEMMA MoveEffect ==
    ASSUME DiskInv, NEW s \in Positions, events[s] # Missing, pc # "moving", StartMove(s)
    PROVE  /\ \A t \in Positions \ {s} : events'[t] = events[t]
           /\ pc' = "moving" => events'[s].links = "moved"
           /\ pc' # "moving" => events'[s] = Missing /\ pc' = pc
           /\ pc' \in {pc, "moving"}
<1>1. events \in [Positions -> File] /\ "moved" \in Links
  BY DEF DiskInv, DiskTyped, Links
<1>2. CASE events[s].content \in quarantine
  BY <1>1, <1>2, Vacated DEF StartMove, Missing
<1>3. CASE events[s].content \notin quarantine
  <2>1. /\ events'[s] = [links |-> "moved", content |-> events[s].content]
        /\ \A t \in Positions \ {s} : events'[t] = events[t]
    BY <1>1, <1>3, Relinked DEF StartMove
  <2> QED
    BY <1>3, <2>1 DEF StartMove
<1> QED
  BY <1>2, <1>3

\* A missing file has no second link.
LEMMA MissingHasNoLink == Missing.links \notin {"temporary", "moved"}
  BY DEF Missing

LEMMA CollectKeepsInv ==
    ASSUME IInv, NEW s \in Positions, Collect(s)
    PROVE  IInv'
<1>1. /\ DiskInv /\ OperationTyped /\ OperationIsInformed
      /\ pc = "collecting" /\ events[s] # Missing /\ ~Referenced(s)
      /\ UNCHANGED <<transactions, staged, op, repairs, tip, told, faults>>
      /\ at' = s /\ StartMove(s)
  BY InvParts DEF Collect, Orphans
<1>2. DiskInv'
  BY <1>1, MoveStarts
<1>3. /\ \A t \in Positions \ {s} : events'[t] = events[t]
      /\ pc' = "moving" => events'[s].links = "moved"
      /\ pc' # "moving" => events'[s] = Missing
      /\ pc' \in {"collecting", "moving"}
  BY <1>1, MoveEffect
<1>4. OperationTyped'
  BY <1>1, <1>3, BoundsAssumption DEF OperationTyped, Phases, Positions
<1>5. repairs /\ Ends(tip) /\ \A t \in Positions : events[t].links \notin {"temporary", "moved"}
  BY <1>1 DEF OperationIsInformed, Opened, InHand
<1>6. OperationIsInformed'
  <2>1. Ends(tip)'
    BY <1>1, <1>5, EndStays DEF Bounds
  <2>2. \A t \in Positions \ InHand' : events'[t].links \notin {"temporary", "moved"}
    <3> SUFFICES ASSUME NEW t \in Positions, t \notin InHand'
                 PROVE  events'[t].links \notin {"temporary", "moved"}
      OBVIOUS
    <3>1. CASE t # s
      BY <1>3, <1>5, <3>1
    <3>2. CASE t = s
      BY <1>1, <1>3, <3>2, MissingHasNoLink DEF InHand
    <3> QED
      BY <3>1, <3>2
  <2> QED
    BY <1>1, <1>3, <1>5, <2>1, <2>2 DEF OperationIsInformed
<1>7. OperationIsUnderway'
  BY <1>1, <1>3, <1>5 DEF OperationIsUnderway, Undertaken, Writing
<1> QED
  BY <1>2, <1>4, <1>6, <1>7, InvNext

LEMMA ReplaceEventKeepsInv ==
    ASSUME IInv, ReplaceEvent
    PROVE  IInv'
<1>1. /\ DiskInv /\ OperationTyped /\ at \in Positions
      /\ Ends(tip) /\ ~Closed /\ ~Referenced(at)
      /\ tip \in Nat /\ Last \in Positions /\ tip < at /\ at <= Last
      /\ OperationIsUnderway /\ OperationIsInformed
      /\ \A m \in transactions : ~Found(m)
  BY UndertakingTyped, InvParts DEF ReplaceEvent
<1>2. /\ pc = "publishing" /\ events[at].links = "one" /\ StartMove(at)
      /\ UNCHANGED <<transactions, staged, op, repairs, tip, at, told, faults>>
  BY DEF ReplaceEvent
<1>3. events[at] # Missing
  BY <1>2 DEF Missing
<1>4. DiskInv'
  BY <1>1, <1>2, <1>3, MoveStarts
<1>5. /\ \A t \in Positions \ {at} : events'[t] = events[t]
      /\ pc' = "moving" => events'[at].links = "moved"
      /\ pc' # "moving" => events'[at] = Missing
      /\ pc' \in {"publishing", "moving"}
  BY <1>1, <1>2, <1>3, MoveEffect
<1>6. OperationTyped'
  BY <1>1, <1>2, <1>5 DEF OperationTyped, Phases, Positions
<1>7. OperationIsInformed'
  <2>1. Ends(tip)'
    BY <1>1, <1>2, EndStays DEF Bounds
  <2>2. repairs => \A t \in Positions \ {at} : events'[t].links \notin {"temporary", "moved"}
    BY <1>1, <1>2, <1>5 DEF OperationIsInformed, InHand
  <2>3. pc' # "moving" => events'[at].links \notin {"temporary", "moved"}
    BY <1>5, MissingHasNoLink
  <2>4. repairs => \A t \in Positions \ InHand' : events'[t].links \notin {"temporary", "moved"}
    BY <1>2, <1>5, <2>2, <2>3 DEF InHand
  <2> QED
    BY <1>1, <1>2, <1>5, <2>1, <2>4 DEF OperationIsInformed
<1>8. OperationIsUnderway'
  <2>1. ~Closed' /\ \A m \in transactions' : ~Found(m)'
    BY <1>1, <1>2 DEF Closed, Found
  <2>2. Last' = Last /\ Last <= MaxSequence /\ at <= Last + 1
    BY <1>1, <1>2, BoundsAssumption DEF Last, Positions
  <2>3. \A s \in tip + 1..at - 1 :
           events'[s] = [links |-> "one",
                         content |-> [request |-> op, index |-> s - tip, base |-> tip]]
    <3>1. \A s \in tip + 1..at - 1 : s \in Positions \ {at}
      BY <1>1, BoundsAssumption DEF Positions
    <3> QED
      BY <1>1, <1>2, <1>5, <3>1 DEF OperationIsUnderway, Undertaken, Writing
  <2>4. pc' \notin {"linked", "marking", "staged", "committed", "answering"}
    BY <1>5
  <2> QED
    BY <1>1, <1>2, <2>1, <2>2, <2>3, <2>4 DEF OperationIsUnderway
<1> QED
  BY <1>4, <1>6, <1>7, <1>8, InvNext

LEMMA MoveKeepsInv ==
    ASSUME IInv, Move
    PROVE  IInv'
<1>1. /\ DiskInv /\ OperationTyped /\ OperationIsUnderway /\ OperationIsInformed
      /\ pc = "moving" /\ events' = [events EXCEPT ![at] = Missing]
      /\ UNCHANGED <<transactions, staged, quarantine, op, repairs, tip, at, told, faults>>
      /\ pc' = IF repairs THEN "collecting" ELSE "publishing"
  BY InvParts DEF Move, Goto
<1>2. at \in Positions /\ events[at].links = "moved" /\ Ends(tip)
  BY <1>1 DEF OperationIsInformed, Opened
<1>3. ~Referenced(at)
  BY <1>1, <1>2 DEF DiskInv, FilesAreInPlace, Missing
<1>4. DiskInv'
  BY <1>1, <1>2, <1>3, FileLeaves
<1>5. events'[at] = Missing /\ \A t \in Positions \ {at} : events'[t] = events[t]
  BY <1>1, <1>2, Vacated DEF DiskInv, DiskTyped
<1>6. OperationTyped'
  BY <1>1 DEF OperationTyped, Phases, Positions
<1>7. OperationIsInformed'
  <2>1. Ends(tip)'
    BY <1>1, <1>2, EndStays DEF Bounds
  <2>2. repairs => \A t \in Positions : events'[t].links \notin {"temporary", "moved"}
    BY <1>1, <1>5, MissingHasNoLink DEF OperationIsInformed, InHand
  <2> QED
    BY <1>1, <2>1, <2>2 DEF OperationIsInformed
<1>8. CASE repairs
  BY <1>1, <1>4, <1>6, <1>7, <1>8, InvNext DEF OperationIsUnderway, Undertaken, Writing
<1>9. CASE ~repairs
  <2>1. /\ tip \in Nat /\ Last \in Positions /\ tip < at /\ at <= Last
        /\ ~Closed /\ \A m \in transactions : ~Found(m)
    BY <1>1, <1>9, UndertakingTyped
  <2>2. ~Closed' /\ \A m \in transactions' : ~Found(m)'
    BY <1>1, <2>1 DEF Closed, Found
  <2>3. Last' = Last /\ Last <= MaxSequence /\ at <= Last + 1
    BY <1>1, <1>2, <2>1, BoundsAssumption DEF Last, Positions
  <2>4. \A s \in tip + 1..at - 1 :
           events'[s] = [links |-> "one",
                         content |-> [request |-> op, index |-> s - tip, base |-> tip]]
    <3>1. \A s \in tip + 1..at - 1 : s \in Positions \ {at}
      BY <1>2, <2>1, BoundsAssumption DEF Positions
    <3> QED
      BY <1>1, <1>5, <1>9, <3>1 DEF OperationIsUnderway, Undertaken
  <2>5. OperationIsUnderway'
    BY <1>1, <1>9, <2>1, <2>2, <2>3, <2>4 DEF OperationIsUnderway
  <2> QED
    BY <1>4, <1>6, <1>7, <2>5, InvNext
<1> QED
  BY <1>8, <1>9

LEMMA FinishMoveKeepsInv ==
    ASSUME IInv, NEW s \in Positions, FinishMove(s)
    PROVE  IInv'
<1>1. /\ DiskInv /\ OperationTyped /\ pc = "repairing" /\ pc' = "repairing"
      /\ events' = [events EXCEPT ![s] = Missing] /\ events[s].links = "moved"
      /\ UNCHANGED <<transactions, staged, quarantine, op, repairs, tip, at, told, faults>>
  BY InvParts DEF FinishMove
<1>2. ~Referenced(s)
  BY <1>1 DEF DiskInv, FilesAreInPlace, Missing
<1>3. DiskInv'
  BY <1>1, <1>2, FileLeaves
<1>4. OperationTyped'
  BY <1>1 DEF OperationTyped, Positions
<1>5. OperationIsInformed'
  BY <1>1 DEF OperationIsInformed, Opened
<1>6. OperationIsUnderway'
  BY <1>1 DEF OperationIsUnderway, Undertaken, Writing
<1> QED
  BY <1>3, <1>4, <1>5, <1>6, InvNext

-----------------------------------------------------------------------------
\* The steps on the markers.
LEMMA StageMarkerKeepsInv ==
    ASSUME IInv, StageMarker
    PROVE  IInv'
<1>1. /\ DiskInv /\ OperationTyped /\ OperationIsInformed /\ OperationIsUnderway
      /\ pc = "marking" /\ pc' = "staged" /\ staged' = TRUE
      /\ UNCHANGED <<events, transactions, quarantine, op, repairs, tip, at, told, faults>>
  BY InvParts DEF StageMarker, Goto
<1>2. DiskInv'
  BY <1>1, DiskStays
<1>3. OperationTyped'
  BY <1>1 DEF OperationTyped, Phases, Positions
<1>4. OperationIsInformed'
  <2>1. Ends(tip)'
    BY <1>1, EndStays DEF Bounds, OperationIsInformed, Opened
  <2> QED
    BY <1>1, <2>1 DEF OperationIsInformed
<1>5. OperationIsUnderway'
  BY <1>1 DEF OperationIsUnderway, Undertaken, Writing, Closed, Found, Last
<1> QED
  BY <1>2, <1>3, <1>4, <1>5, InvNext

\* The events of the batch are all there when the marker gets its name.
LEMMA BatchIsWritten ==
    ASSUME IInv, pc = "staged"
    PROVE  /\ NewMarker \in Marker /\ Ends(tip) /\ tip < Last
           /\ ~Closed /\ \A m \in transactions : ~Found(m)
           /\ \A s \in tip + 1..Last :
                /\ s \in Positions /\ ~Referenced(s)
                /\ events[s] = [links |-> "one", content |-> Reference(NewMarker, s)]
                /\ events[s] # Missing /\ events[s].content = Reference(NewMarker, s)
                /\ events[s].links = "one"
<1>1. DiskInv /\ OperationTyped /\ OperationIsInformed /\ OperationIsUnderway
  BY InvParts
<1>2. op \in Request /\ Size[op.command] \in Nat /\ Size[op.command] >= 1 /\ tip \in 0..MaxSequence
  BY <1>1, RequestTyped DEF OperationTyped
<1>3. /\ Last <= MaxSequence /\ at = Last + 1 /\ Ends(tip)
      /\ ~Closed /\ \A m \in transactions : ~Found(m)
  BY <1>1 DEF OperationIsInformed, OperationIsUnderway, Opened, Undertaken, Writing
<1>4. tip \in Nat /\ Last \in Nat /\ tip < Last /\ tip + 1 \in Positions /\ Last \in Positions
  BY <1>2, <1>3, BoundsAssumption DEF Last, Positions
<1>5. NewMarker \in Marker
  BY <1>2, <1>4 DEF NewMarker, Marker
<1>6. ASSUME NEW s \in tip + 1..Last
      PROVE  /\ s \in Positions /\ ~Referenced(s)
             /\ events[s] = [links |-> "one", content |-> Reference(NewMarker, s)]
             /\ events[s] # Missing /\ events[s].content = Reference(NewMarker, s)
             /\ events[s].links = "one"
  <2>1. s \in Positions /\ s > tip /\ s \in tip + 1..at - 1
    BY <1>3, <1>4, BoundsAssumption DEF Positions
  <2>2. ~Referenced(s)
    BY <1>1, <1>3, <1>4, <2>1, EndIsPast
  <2>3. events[s] = [links |-> "one",
                     content |-> [request |-> op, index |-> s - tip, base |-> tip]]
    BY <1>1, <2>1 DEF OperationIsUnderway, Undertaken, Writing
  <2>4. [request |-> op, index |-> s - tip, base |-> tip] = Reference(NewMarker, s)
    <3>1. s - (tip + 1) + 1 = s - tip /\ (tip + 1) - 1 = tip
      BY <1>4, <2>1 DEF Positions
    <3> QED
      BY <3>1 DEF Reference, NewMarker
  <2>5. [links |-> "one", content |-> Reference(NewMarker, s)] # Missing
    <3>1. [links |-> "one", content |-> Reference(NewMarker, s)].links # Missing.links
      BY DEF Missing
    <3> QED
      BY <3>1
  <2> QED
    BY <2>1, <2>2, <2>3, <2>4, <2>5
<1> QED
  BY <1>3, <1>4, <1>5, <1>6

LEMMA LinkMarkerKeepsInv ==
    ASSUME IInv, LinkMarker
    PROVE  IInv'
<1>1. /\ DiskInv /\ OperationTyped /\ pc = "staged" /\ pc' = "committed"
      /\ transactions' = transactions \cup {NewMarker} /\ staged' = FALSE
      /\ UNCHANGED <<events, quarantine, op, repairs, tip, at, told, faults>>
  BY InvParts DEF LinkMarker, Goto
<1>2. /\ NewMarker \in Marker /\ Ends(tip) /\ tip < Last
      /\ NewMarker.from = tip + 1 /\ NewMarker.to = Last
      /\ \A s \in tip + 1..Last :
            /\ s \in Positions
            /\ events[s] # Missing /\ events[s].content = Reference(NewMarker, s)
            /\ events[s].links = "one"
  BY <1>1, BatchIsWritten, NewMarkerFixed
<1>3. DiskTyped'
  BY <1>1, <1>2 DEF DiskInv, DiskTyped
<1>4. Intact'
  <2> SUFFICES ASSUME NEW m \in transactions', NEW s \in m.from..m.to
               PROVE  events[s] # Missing /\ events[s].content = Reference(m, s)
    BY <1>1 DEF Intact, Reference
  <2>1. CASE m \in transactions
    BY <1>1, <2>1 DEF DiskInv, Intact
  <2>2. CASE m = NewMarker
    BY <1>2, <2>2
  <2> QED
    BY <1>1, <2>1, <2>2
<1>5. FilesAreInPlace'
  <2> SUFFICES ASSUME NEW s \in Positions, events[s] # Missing
               PROVE  /\ events[s].content.base + events[s].content.index = s
                      /\ events[s].links = "moved" =>
                            events[s].content \in quarantine /\ ~Referenced(s)'
    BY <1>1 DEF FilesAreInPlace, Referenced
  <2>1. /\ events[s].content.base + events[s].content.index = s
        /\ events[s].links = "moved" => events[s].content \in quarantine /\ ~Referenced(s)
    BY <1>1 DEF DiskInv, FilesAreInPlace
  <2>2. Referenced(s)' <=> Referenced(s) \/ s \in tip + 1..Last
    BY <1>1, <1>2 DEF Referenced
  <2> QED
    BY <1>2, <2>1, <2>2
<1>6. BatchesFollow'
  <2>1. tip \in Nat /\ Last \in Nat
    BY <1>1, <1>2 DEF OperationTyped, Marker, Positions
  <2>2. NewMarker.from <= NewMarker.to
    BY <1>2, <2>1
  <2>3. NewMarker.from = 1 \/ \E p \in transactions : p.to + 1 = NewMarker.from
    BY <1>2, <2>1 DEF Ends, Bounds
  <2> QED
    BY <1>1, <2>2, <2>3 DEF DiskInv, BatchesFollow
<1>7. OperationTyped'
  BY <1>1 DEF OperationTyped, Phases, Positions
<1>8. OperationIsInformed'
  BY <1>1 DEF OperationIsInformed, Opened
<1>9. OperationIsUnderway'
  BY <1>1 DEF OperationIsUnderway, Undertaken, Writing, NewMarker, Last
<1> QED
  BY <1>3, <1>4, <1>5, <1>6, <1>7, <1>8, <1>9, InvNext DEF DiskInv

LEMMA UnlinkMarkerKeepsInv ==
    ASSUME IInv, UnlinkMarker
    PROVE  IInv'
<1>1. /\ DiskInv /\ OperationTyped /\ OperationIsUnderway /\ pc = "committed" /\ pc' = "answering"
      /\ transactions' = (transactions \ {NewMarker}) \cup {Fixed(NewMarker)}
      /\ UNCHANGED <<events, staged, quarantine, op, repairs, tip, at, told, faults>>
  BY InvParts DEF UnlinkMarker, Goto, Fixed
<1>2. NewMarker \in transactions
  BY <1>1 DEF OperationIsUnderway
<1>3. DiskInv'
  BY <1>1, <1>2, MarkerFixed, MarkersStay DEF DiskInv, DiskTyped
<1>4. OperationTyped'
  BY <1>1 DEF OperationTyped, Phases, Positions
<1>5. OperationIsInformed'
  BY <1>1 DEF OperationIsInformed, Opened
<1>6. OperationIsUnderway'
  <2>1. NewMarker' = NewMarker
    BY <1>1 DEF NewMarker, Last
  <2> QED
    BY <1>1, <2>1 DEF OperationIsUnderway, Undertaken, Writing, Fixed
<1> QED
  BY <1>3, <1>4, <1>5, <1>6, InvNext

LEMMA RemoveTemporaryKeepsInv ==
    ASSUME IInv, RemoveTemporary
    PROVE  IInv'
<1>1. /\ DiskInv /\ OperationTyped /\ pc = "repairing" /\ pc' = "repairing"
      /\ UNCHANGED <<quarantine, op, repairs, tip, at, told, faults>>
  BY InvParts DEF RemoveTemporary
<1>2. DiskInv'
  <2>1. CASE staged' = FALSE /\ UNCHANGED <<events, transactions>>
    BY <1>1, <2>1, DiskStays
  <2>2. ASSUME NEW s \in Positions, events[s].links = "temporary",
               events' = [events EXCEPT ![s].links = "one"],
               UNCHANGED <<transactions, staged>>
        PROVE  DiskInv'
    <3>1. events[s] # Missing
      BY <2>2 DEF Missing
    <3>2. \A t \in Positions \ {s} :
             events[t] # Missing /\ events[t].links = "moved" => events[t].content \in quarantine'
      BY <1>1 DEF DiskInv, FilesAreInPlace
    <3>3. staged' \in BOOLEAN /\ quarantine' \subseteq Content
      BY <1>1, <2>2 DEF DiskInv, DiskTyped
    <3> QED
      BY <1>1, <2>2, <3>1, <3>2, <3>3, LinkFixed
  <2>3. ASSUME NEW m \in transactions,
               transactions' = (transactions \ {m}) \cup {[m EXCEPT !.links = "one"]},
               UNCHANGED <<events, staged>>
        PROVE  DiskInv'
    <3>1. transactions' = (transactions \ {m}) \cup {Fixed(m)}
      BY <2>3 DEF Fixed
    <3> QED
      BY <1>1, <2>3, <3>1, MarkerFixed, MarkersStay DEF DiskInv, DiskTyped
  <2> QED
    BY <2>1, <2>2, <2>3 DEF RemoveTemporary
<1>3. OperationTyped'
  BY <1>1 DEF OperationTyped, Positions
<1>4. OperationIsInformed'
  BY <1>1 DEF OperationIsInformed, Opened
<1>5. OperationIsUnderway'
  BY <1>1 DEF OperationIsUnderway, Undertaken, Writing
<1> QED
  BY <1>2, <1>3, <1>4, <1>5, InvNext

\* A failed move takes its own content out of the quarantine and no other's:
\* contents say where they belong.
LEMMA FailKeepsInv ==
    ASSUME IInv, Fail
    PROVE  IInv'
<1>1. /\ DiskInv /\ OperationTyped /\ OperationIsInformed /\ OperationIsUnderway
      /\ Return /\ UNCHANGED told /\ Fault /\ staged' = FALSE
      /\ pc \in {"moving", "linked", "staged", "committed"}
  BY InvParts DEF Fail
<1>2. ASSUME pc = "moving" \/ pc = "linked", at \in Positions, events[at] # Missing
      PROVE  DiskInv'
  <2>1. /\ events' = [events EXCEPT ![at].links = "one"] /\ UNCHANGED transactions
        /\ quarantine' = IF pc = "moving" THEN quarantine \ {events[at].content} ELSE quarantine
    BY <1>2 DEF Fail
  <2>2. ASSUME NEW t \in Positions \ {at}, events[t] # Missing, events[t].links = "moved"
        PROVE  events[t].content \in quarantine'
    <3>1. /\ events[t].content \in quarantine
          /\ events[t].content.base + events[t].content.index = t
          /\ events[at].content.base + events[at].content.index = at
      BY <1>1, <1>2, <2>2 DEF DiskInv, FilesAreInPlace
    <3>2. events[t].content # events[at].content
      BY <2>2, <3>1
    <3> QED
      BY <2>1, <3>1, <3>2
  <2>3. quarantine' \subseteq Content
    BY <1>1, <2>1 DEF DiskInv, DiskTyped
  <2> QED
    BY <1>1, <1>2, <2>1, <2>2, <2>3, LinkFixed
<1>3. CASE pc = "moving"
  <2>1. at \in Positions /\ events[at].links = "moved" /\ events[at] # Missing
    BY <1>1, <1>3 DEF OperationIsInformed, Missing
  <2> QED
    BY <1>1, <1>2, <1>3, <2>1, FaultTyped, ReturnKeeps DEF OperationTyped
<1>4. CASE pc = "linked"
  <2>1. at \in Positions
    BY <1>4, UndertakingTyped
  <2>2. events[at].links = "temporary"
    BY <1>1, <1>4 DEF OperationIsUnderway
  <2>3. events[at] # Missing
    BY <2>2 DEF Missing
  <2> QED
    BY <1>1, <1>2, <1>4, <2>1, <2>3, FaultTyped, ReturnKeeps DEF OperationTyped
<1>5. CASE pc = "staged"
  <2>1. UNCHANGED <<events, transactions, quarantine>>
    BY <1>5 DEF Fail
  <2> QED
    BY <1>1, <2>1, DiskStays, FaultTyped, ReturnKeeps DEF OperationTyped
<1>6. CASE pc = "committed"
  <2>1. /\ UNCHANGED <<events, quarantine>>
        /\ transactions' = (transactions \ {NewMarker}) \cup {Fixed(NewMarker)}
    BY <1>6 DEF Fail, Fixed
  <2>2. NewMarker \in transactions
    BY <1>1, <1>6 DEF OperationIsUnderway
  <2>3. DiskInv'
    BY <1>1, <2>1, <2>2, MarkerFixed, MarkersStay DEF DiskInv, DiskTyped
  <2> QED
    BY <1>1, <2>3, FaultTyped, ReturnKeeps DEF OperationTyped
<1> QED
  BY <1>1, <1>3, <1>4, <1>5, <1>6

-----------------------------------------------------------------------------
LEMMA InitInv == Init => IInv
<1> SUFFICES ASSUME Init PROVE IInv
  OBVIOUS
<1>1. /\ events = [s \in Positions |-> Missing] /\ transactions = {} /\ staged = FALSE
      /\ quarantine = {} /\ pc = "idle" /\ tip = 0 /\ at = 0 /\ op \in Requests
      /\ repairs = FALSE /\ told = {} /\ faults = 0
  BY NobodyTyped DEF Init
<1>2. DiskInv
  BY <1>1 DEF DiskInv, DiskTyped, File, Intact, FilesAreInPlace, BatchesFollow
<1>3. OperationTyped
  <2>1. pc \in Phases /\ 0 \in 0..MaxSequence /\ 0 \in 0..MaxSequence + 1 /\ 0 \in 0..MaxFaults
    BY <1>1, BoundsAssumption DEF Phases
  <2> QED
    BY <1>1, <2>1 DEF OperationTyped
<1>4. OperationIsInformed /\ OperationIsUnderway
  BY <1>1 DEF OperationIsInformed, OperationIsUnderway, Opened, Writing, Undertaken
<1> QED
  BY <1>2, <1>3, <1>4, InvParts

LEMMA NextKeepsInv ==
    ASSUME IInv, [Next]_vars
    PROVE  IInv'
<1>1. CASE Step
  BY <1>1, RemoveTemporaryKeepsInv, FinishMoveKeepsInv, RepairedKeepsInv, ReplayKeepsInv,
     ReturningKeepsInv, MoveKeepsInv, CollectKeepsInv, CollectedKeepsInv, PrepareKeepsInv,
     LinkEventKeepsInv, UnlinkEventKeepsInv, KeepEventKeepsInv, ReplaceEventKeepsInv,
     StageMarkerKeepsInv, LinkMarkerKeepsInv, UnlinkMarkerKeepsInv
     DEF Step
<1>2. CASE UNCHANGED vars
  BY <1>2 DEF vars, disk, IInv, CommittedIsIntact, TypeOK, Reference, FilesAreInPlace,
     Referenced, BatchesFollow, OperationIsInformed, OperationIsUnderway, Opened, Writing,
     Undertaken, InHand, Ends, Bounds, HasTemporary, Closed, Found, Last, Mine, NewMarker
<1> QED
  BY <1>1, <1>2, OpenKeepsInv, ReturningKeepsInv, FailKeepsInv DEF Next

LEMMA InvHolds == Spec => []IInv
  BY InitInv, NextKeepsInv, PTL DEF Spec

\* A marker's events are on the disk exactly as the marker names them, whatever
\* was published, moved away or half written around them (event_store._publish,
\* secure_fs.quarantine), for streams, requests and faults of any number.
THEOREM CommittedBatchesStayIntact == Spec => []CommittedIsIntact
<1>1. IInv => CommittedIsIntact
  BY DEF IInv
<1> QED
  BY <1>1, InvHolds, PTL

-----------------------------------------------------------------------------
\* An operation that repairs the log finds it readable.
LEMMA RepairRecovers == IInv => CrashIsRecoverable
<1> SUFFICES ASSUME IInv, repairs
             PROVE  EveryOpenRecovers
  BY DEF CrashIsRecoverable
<1>1. DiskInv /\ OperationTyped /\ OperationIsInformed
  BY InvParts
<1>2. ASSUME pc = "replaying"
      PROVE  Replayable
  <2>1. /\ ~HasTemporary
        /\ \A s \in Positions : events[s].links \notin {"temporary", "moved"}
    BY <1>1, <1>2 DEF OperationIsInformed, InHand
  <2>2. ~staged /\ \A m \in transactions : m.links = "one"
    BY <1>1, <2>1, MarkerTyped DEF HasTemporary, DiskInv
  <2>3. ASSUME NEW m \in transactions, NEW s \in m.from..m.to
        PROVE  events[s] = [links |-> "one", content |-> Reference(m, s)]
    <3>1. s \in Positions /\ events[s] # Missing /\ events[s].content = Reference(m, s)
      BY <1>1, MarkerTyped DEF DiskInv, Intact
    <3>2. /\ events[s].links \in Links
          /\ events[s] = [links |-> events[s].links, content |-> events[s].content]
      BY <1>1, <3>1, FileCases DEF DiskInv, DiskTyped
    <3>3. events[s].links = "one"
      BY <2>1, <3>1, <3>2 DEF Links
    <3> QED
      BY <3>1, <3>2, <3>3
  <2> QED
    BY <1>1, <2>2, <2>3 DEF Replayable, DiskInv, BatchesFollow
<1>3. ASSUME pc = "publishing"
      PROVE  events[at].links \notin {"temporary", "moved"}
  <2>1. at \in Positions
    BY <1>3, UndertakingTyped
  <2> QED
    BY <1>1, <1>3, <2>1 DEF OperationIsInformed, InHand
<1> QED
  BY <1>2, <1>3 DEF EveryOpenRecovers

\* Whatever crashes and failures, of operations with and without the repairs, left
\* behind, an operation that repairs the directories (event_store.create,
\* secure_fs.recover_temporary_writes) can replay the log and publish over it.
THEOREM RepairsRecoverEveryCrash == Spec => []CrashIsRecoverable
  BY InvHolds, RepairRecovers, PTL

-----------------------------------------------------------------------------
\* A step that changes the file at s saves what it said.
Spares(s) ==
    events[s] # Missing /\ (events'[s] = Missing \/ events'[s].content # events[s].content)
        => events[s].content \in quarantine'

LEMMA RelinkSpares ==
    ASSUME events \in [Positions -> File], NEW s \in Positions, events[s] # Missing,
           NEW l \in Links, events' = [events EXCEPT ![s].links = l]
    PROVE  \A t \in Positions : Spares(t)
<1>1. /\ events'[s] # Missing /\ events'[s] = [links |-> l, content |-> events[s].content]
      /\ \A t \in Positions \ {s} : events'[t] = events[t]
  BY Relinked
<1> QED
  BY <1>1 DEF Spares

LEMMA VacateSpares ==
    ASSUME events \in [Positions -> File], NEW s \in Positions,
           events[s].content \in quarantine',
           events' = [events EXCEPT ![s] = Missing]
    PROVE  \A t \in Positions : Spares(t)
<1>1. \A t \in Positions \ {s} : events'[t] = events[t]
  BY Vacated
<1> QED
  BY <1>1 DEF Spares

LEMMA MoveSpares ==
    ASSUME events \in [Positions -> File], NEW s \in Positions, events[s] # Missing,
           StartMove(s)
    PROVE  \A t \in Positions : Spares(t)
  BY RelinkSpares, VacateSpares DEF StartMove, Links

LEMMA StepSpares ==
    ASSUME IInv, Next
    PROVE  \A t \in Positions : Spares(t)
<1>1. /\ events \in [Positions -> File] /\ DiskInv
      /\ OperationIsInformed /\ OperationIsUnderway
      /\ {"one", "temporary", "moved"} \subseteq Links
  BY InvParts DEF DiskInv, DiskTyped, Links
<1>2. \A s \in Positions : events[s].links \in Links =>
          /\ events[s] # Missing
          /\ events[s].links = "moved" => events[s].content \in quarantine
  BY <1>1 DEF DiskInv, FilesAreInPlace, Links, Missing
<1>3. CASE UNCHANGED events
  BY <1>3 DEF Spares
<1>4. ASSUME RemoveTemporary
      PROVE  \A t \in Positions : Spares(t)
  <2>1. CASE UNCHANGED events
    BY <2>1 DEF Spares
  <2>2. CASE \E s \in Positions : /\ events[s].links = "temporary"
                                  /\ events' = [events EXCEPT ![s].links = "one"]
    BY <1>1, <1>2, <2>2, RelinkSpares
  <2> QED
    BY <1>4, <2>1, <2>2 DEF RemoveTemporary
<1>5. ASSUME NEW s \in Positions, FinishMove(s)
      PROVE  \A t \in Positions : Spares(t)
  BY <1>1, <1>2, <1>5, VacateSpares DEF FinishMove
<1>6. ASSUME Move
      PROVE  \A t \in Positions : Spares(t)
  <2>1. at \in Positions /\ events[at].links = "moved"
    BY <1>1, <1>6 DEF Move, OperationIsInformed
  <2> QED
    BY <1>1, <1>2, <1>6, <2>1, VacateSpares DEF Move
<1>7. ASSUME NEW s \in Positions, Collect(s)
      PROVE  \A t \in Positions : Spares(t)
  BY <1>1, <1>7, MoveSpares DEF Collect, Orphans
<1>8. ASSUME ReplaceEvent
      PROVE  \A t \in Positions : Spares(t)
  <2>1. at \in Positions /\ events[at].links = "one"
    BY <1>8, UndertakingTyped DEF ReplaceEvent
  <2> QED
    BY <1>1, <1>2, <1>8, <2>1, MoveSpares DEF ReplaceEvent
<1>9. ASSUME LinkEvent
      PROVE  \A t \in Positions : Spares(t)
  BY <1>1, <1>9 DEF LinkEvent, Spares
<1>10. ASSUME pc = "linked", events' = [events EXCEPT ![at].links = "one"]
       PROVE  \A t \in Positions : Spares(t)
  <2>1. at \in Positions /\ events[at].links = "temporary"
    BY <1>1, <1>10, UndertakingTyped DEF OperationIsUnderway
  <2> QED
    BY <1>1, <1>2, <1>10, <2>1, RelinkSpares
<1>11. ASSUME pc = "moving", events' = [events EXCEPT ![at].links = "one"]
       PROVE  \A t \in Positions : Spares(t)
  <2>1. at \in Positions /\ events[at].links = "moved"
    BY <1>1, <1>11 DEF OperationIsInformed
  <2> QED
    BY <1>1, <1>2, <1>11, <2>1, RelinkSpares
<1>12. ASSUME UnlinkEvent
       PROVE  \A t \in Positions : Spares(t)
  BY <1>10, <1>12 DEF UnlinkEvent
<1>13. ASSUME Fail
       PROVE  \A t \in Positions : Spares(t)
  BY <1>3, <1>10, <1>11, <1>13 DEF Fail
<1>14. ASSUME NEW r \in Requests, Open(r)
       PROVE  UNCHANGED events
  BY <1>14 DEF Open, disk
<1>15. ASSUME \/ Repaired \/ (\E n \in Bounds : Replay(n)) \/ ReplayFails \/ Collected
              \/ (\E m \in transactions : Known(m)) \/ RefuseClosed \/ Prepare
              \/ KeepEvent \/ UnreadableEvent \/ StageMarker \/ LinkMarker \/ UnlinkMarker
              \/ Answer \/ Crash
       PROVE  UNCHANGED events
  BY <1>15 DEF Repaired, Replay, ReplayFails, Collected, Known, RefuseClosed, Prepare, KeepEvent,
     UnreadableEvent, StageMarker, LinkMarker, UnlinkMarker, Answer, Crash, disk
<1> QED
  BY <1>3, <1>4, <1>5, <1>6, <1>7, <1>8, <1>9, <1>12, <1>13, <1>14, <1>15 DEF Next, Step

\* An event file leaves events/ only for the quarantine, and never changes what it
\* says there: recovery (recover_quarantine_moves), retries (_publish) and failures
\* of a move destroy nothing an earlier attempt wrote.
THEOREM NothingIsEverDestroyed == Spec => NothingIsDestroyed
<1>1. IInv /\ [Next]_vars =>
         [\A s \in Positions :
            events[s] # Missing /\ (events'[s] = Missing \/ events'[s].content # events[s].content)
                => events[s].content \in quarantine']_vars
  BY StepSpares DEF Spares
<1> QED
  BY <1>1, InvHolds, PTL DEF Spec, NothingIsDestroyed

-----------------------------------------------------------------------------
\* The log as its callers see it.
Receipts == {Receipt(m) : m \in transactions}

LEMMA PromiseTerms ==
    /\ Promise!Bounds = Bounds
    /\ Promise!Closed <=> Closed
    /\ \A n : Promise!Ends(n) <=> Ends(n)
<1>0. \A m : Receipt(m).to = m.to /\ Receipt(m).command = m.request.command
  BY DEF Receipt
<1>1. Promise!Bounds = Bounds
  <2>1. \A n : n \in Promise!Bounds <=> n = 0 \/ \E m \in transactions : n = Receipt(m).to
    BY DEF Promise!Bounds
  <2>2. \A n : n \in Bounds <=> n = 0 \/ \E m \in transactions : n = m.to
    BY DEF Bounds
  <2>3. \A n : n \in Promise!Bounds <=> n \in Bounds
    BY <1>0, <2>1, <2>2
  <2> QED
    BY <2>3, Zenon DEF Promise!Bounds, Bounds
<1>2. Promise!Closed <=> Closed
  <2>1. Promise!Closed <=> \E m \in transactions : Receipt(m).command \in Closing
    BY DEF Promise!Closed
  <2> QED
    BY <1>0, <2>1 DEF Closed
<1> QED
  BY <1>1, <1>2 DEF Promise!Ends, Ends

LEMMA LinkIsAppend ==
    ASSUME IInv, LinkMarker
    PROVE  Promise!Append(op.command, op.digest) /\ op.command \in Commands /\ op.digest \in Digests
<1>1. pc = "staged" /\ op \in Requests /\ transactions' = transactions \cup {NewMarker} /\ told' = told
  BY InvParts DEF LinkMarker, OperationTyped
<1>2. Ends(tip) /\ ~Closed /\ \A m \in transactions : ~Found(m)
  BY <1>1, BatchIsWritten
<1>3. Receipts' = Receipts \cup {Receipt(NewMarker)}
  BY <1>1 DEF Receipts, Receipt
<1>4. Receipt(NewMarker) = [command |-> op.command, digest |-> op.digest,
                            from |-> tip + 1, to |-> tip + Size[op.command]]
  BY DEF Receipt, NewMarker, Last
<1>5. \A r \in Receipts : r.command # op.command
  BY <1>2 DEF Receipts, Receipt, Found
<1>6. tip \in Promise!Bounds /\ Promise!Ends(tip) /\ ~Promise!Closed
  BY <1>2, PromiseTerms DEF Ends
<1>7. op.command \in Commands /\ op.digest \in Digests
  BY <1>1, RequestTyped
<1> QED
  BY <1>1, <1>3, <1>4, <1>5, <1>6, <1>7 DEF Promise!Append, Receipts

LEMMA FixKeepsReceipts ==
    ASSUME transactions \subseteq Marker, NEW m \in transactions,
           transactions' = (transactions \ {m}) \cup {Fixed(m)}
    PROVE  Receipts' = Receipts
<1>1. Receipt(Fixed(m)) = Receipt(m)
  BY FixedTyped DEF Receipt
<1>2. \A r : r \in Receipts' <=> r \in Receipts
  <2>1. \A r : r \in Receipts' <=> \E p \in transactions' : r = Receipt(p)
    BY DEF Receipts, Receipt
  <2>2. \A r : r \in Receipts <=> \E p \in transactions : r = Receipt(p)
    BY DEF Receipts
  <2> QED
    BY <1>1, <2>1, <2>2
<1> QED
  BY <1>2, Zenon DEF Receipts

LEMMA StepKeepsPromise ==
    ASSUME IInv, [Next]_vars
    PROVE  [Promise!Next]_(Promise!vars)
<1> DEFINE Stutter == Receipts' = Receipts /\ told' = told
<1>1. Stutter => UNCHANGED Promise!vars
  BY DEF Promise!vars, Receipts
<1>2. ASSUME LinkMarker
      PROVE  Promise!Next
  BY <1>2, LinkIsAppend DEF Promise!Next
<1>3. ASSUME NEW r \in Receipts, told' = told \cup {r}, UNCHANGED transactions
      PROVE  Promise!Next
  <2>1. Receipts' = Receipts
    BY <1>3 DEF Receipts, Receipt
  <2> QED
    BY <1>3, <2>1 DEF Promise!Next, Promise!Tell, Receipts
<1>4. ASSUME NEW m \in transactions, Known(m)
      PROVE  Promise!Next \/ Stutter
  BY <1>3, <1>4 DEF Known, Receipts, Receipt, disk
<1>5. ASSUME Answer
      PROVE  Promise!Next
  <2>1. [NewMarker EXCEPT !.links = "one"] \in transactions
    BY <1>5, InvParts DEF Answer, OperationIsUnderway
  <2>2. Receipt(NewMarker) \in Receipts
    BY <2>1, NewMarkerFixed DEF Receipts
  <2> QED
    BY <1>3, <1>5, <2>2 DEF Answer, disk
<1>6. ASSUME NEW m \in transactions, UNCHANGED told,
             transactions' = (transactions \ {m}) \cup {[m EXCEPT !.links = "one"]}
      PROVE  Stutter
  <2>1. transactions \subseteq Marker /\ transactions' = (transactions \ {m}) \cup {Fixed(m)}
    BY <1>6, InvParts DEF DiskInv, DiskTyped, Fixed
  <2> QED
    BY <1>6, <2>1, FixKeepsReceipts
<1>7. ASSUME pc = "committed"
      PROVE  NewMarker \in transactions
  BY <1>7, InvParts DEF OperationIsUnderway
<1>8. ASSUME UNCHANGED <<transactions, told>>
      PROVE  Stutter
  BY <1>8 DEF Receipts, Receipt
<1>9. ASSUME UnlinkMarker
      PROVE  Stutter
  BY <1>6, <1>7, <1>9 DEF UnlinkMarker
<1>10. ASSUME RemoveTemporary
       PROVE  Stutter
  BY <1>6, <1>8, <1>10 DEF RemoveTemporary
<1>11. ASSUME Fail
       PROVE  Stutter
  BY <1>6, <1>7, <1>8, <1>11 DEF Fail
<1>12. ASSUME \/ (\E r \in Requests : Open(r)) \/ (\E s \in Positions : FinishMove(s) \/ Collect(s))
              \/ Repaired \/ (\E n \in Bounds : Replay(n)) \/ ReplayFails \/ Move \/ Collected
              \/ RefuseClosed \/ Prepare \/ LinkEvent \/ UnlinkEvent
              \/ KeepEvent \/ ReplaceEvent \/ UnreadableEvent \/ StageMarker \/ Crash
              \/ UNCHANGED vars
       PROVE  Stutter
  <2>1. UNCHANGED <<transactions, told>>
    BY <1>12 DEF Open, FinishMove, Collect, Repaired, Replay, ReplayFails, Move, Collected,
       RefuseClosed, Prepare, LinkEvent, UnlinkEvent, KeepEvent, ReplaceEvent, UnreadableEvent,
       StageMarker, Crash, disk, vars
  <2> QED
    BY <1>8, <2>1
<1> HIDE DEF Stutter
<1> QED
  BY <1>1, <1>2, <1>4, <1>5, <1>9, <1>10, <1>11, <1>12 DEF Next, Step

\* Refinement: the link of the marker commits the whole batch, at the end of the
\* stream, once per command and never after the quiesce, and a caller is told
\* nothing but receipts of committed batches (event_store.commit, _publish).
THEOREM LogKeepsItsPromise == Spec => KeepsPromise
<1>1. Init => Promise!Init
  BY DEF Init, Promise!Init
<1>2. IInv /\ [Next]_vars => [Promise!Next]_(Promise!vars)
  BY StepKeepsPromise
<1> QED
  BY <1>1, <1>2, InvHolds, PTL DEF Spec, KeepsPromise, Promise!Spec
===============================================================================
