------------------------------- MODULE ChatProofs -------------------------------
(***************************************************************************)
(* Proofs about the open chat: the history survives what fails and what    *)
(* crashes, the file lock keeps other processes off it until a worker      *)
(* outlives its close, a pending reply has a worker, and a page that is up *)
(* to date shows the state.  They hold for any number of processes,        *)
(* requests, failing saves and pages.                                      *)
(***************************************************************************)
EXTENDS Chat, SequenceTheorems, TLAPS

\* No history has a question twice.
Distinct(h) == \A i, j \in DOMAIN h : h[i].req = h[j].req => i = j

Histories == {memory[p] : p \in Procs} \cup (IF disk = None THEN {} ELSE {disk})
QuestionsAreDistinct == \A h \in Histories : Distinct(h)

\* Nothing is left of a process that is down.
DownIsBlank ==
    \A p \in Procs : stage[p] = "down" =>
        memory[p] = <<>> /\ active[p] = None /\ worker[p] = "none" /\ unsaved[p] = {}

StartedInOrder == \A p \in Procs : stage[p] # "down" => p <= started

StreamsAreServed == \A c \in Pages : page[c] # None => stage[page[c]] # "down"

NoPageNoView == \A c \in Pages : page[c] = None => view[c] = None

\* The invariant that holds however late a worker ends.
Inv ==
    /\ TypeOK /\ QuestionsAreDistinct /\ DownIsBlank /\ StartedInOrder
    /\ StreamsAreServed /\ NoPageNoView

-----------------------------------------------------------------------------
\* Does d hold the questions of h, in their places, and its complete answers?
Covers(d, h) ==
    \A i \in DOMAIN h :
        /\ i \in DOMAIN d /\ d[i].req = h[i].req
        /\ h[i].status = "complete" => d[i] = h[i]

\* Until a worker outlives its close only the owner of the lock has a worker, and what it remembers is saved;
\* what the pages were told is what the owner remembers, or the file.
Owned ==
    /\ \A p \in Procs :
        /\ lock = p <=> stage[p] \in {"up", "closing"}
        /\ stage[p] = "released" => worker[p] = "none"
        /\ lock = p =>
              disk # None /\ Covers(disk, memory[p]) /\ accepted \subseteq Asked(memory[p])
    /\ lock = None => AcceptedIsDurable

\* The reply an active request waits for is the last, unless its retry could not be
\* saved, and no other reply is pending.
AttendedBy(h, r, u) ==
    /\ r # None => LatestIs(h, r) \/ r \in u
    /\ \A i \in DOMAIN h : h[i].status = "pending" <=> (r = h[i].req \/ h[i].req \in u)
Attended == \A p \in Procs : AttendedBy(memory[p], active[p], unsaved[p])

-----------------------------------------------------------------------------
\* Replies and histories.
Statuses == Settled \cup {"pending"}
Texts == {"", "part", "whole"}

LEMMA HistoryShape ==
    ASSUME NEW h \in History
    PROVE  /\ Len(h) \in Nat /\ DOMAIN h = 1..Len(h)
           /\ \A i \in DOMAIN h : h[i] \in Reply
           /\ h # <<>> => Len(h) \in DOMAIN h
           /\ h # None
<1>1. Len(h) \in Nat /\ DOMAIN h = 1..Len(h) /\ \A i \in 1..Len(h) : h[i] \in Reply
  BY LenProperties, ElementOfSeq DEF History
<1>2. h # <<>> => Len(h) \in Nat \ {0}
  BY EmptySeq DEF History
<1> QED
  BY <1>1, <1>2, NoneAssumption

LEMMA NoHistory == <<>> \in History /\ DOMAIN <<>> = {} /\ Distinct(<<>>)
  BY EmptySeq DEF History, Distinct

\* SetLast changes the last reply, and not the question it answers.
LEMMA SetLastFacts ==
    ASSUME NEW h \in History, h # <<>>, NEW status \in Statuses, NEW text \in Texts
    PROVE  /\ SetLast(h, status, text) \in History
           /\ Len(SetLast(h, status, text)) = Len(h)
           /\ DOMAIN SetLast(h, status, text) = DOMAIN h
           /\ \A i \in DOMAIN h : SetLast(h, status, text)[i].req = h[i].req
           /\ \A i \in DOMAIN h : i # Len(h) => SetLast(h, status, text)[i] = h[i]
           /\ SetLast(h, status, text)[Len(h)].status = status
<1> DEFINE n == Len(h)
           e == [h[n] EXCEPT !.status = status, !.text = text]
<1>1. n \in 1..Len(h) /\ DOMAIN h = 1..Len(h) /\ h[n] \in Reply
  BY HistoryShape
<1> HIDE DEF n
<1>2. e \in Reply /\ e.req = h[n].req /\ e.status = status
  <2> DEFINE m == h[n]
  <2>1. m \in Reply /\ e = [m EXCEPT !.status = status, !.text = text]
    BY <1>1
  <2> HIDE DEF m, e
  <2>2. e \in Reply /\ e.req = m.req /\ e.status = status
    BY <2>1 DEF Reply, Statuses, Texts
  <2> QED
    BY <2>2 DEF m
<1>3. SetLast(h, status, text) = [h EXCEPT ![n] = e]
  BY DEF SetLast, n
<1> HIDE DEF e
<1>4. /\ [h EXCEPT ![n] = e] \in Seq(Reply)
      /\ Len([h EXCEPT ![n] = e]) = Len(h)
      /\ \A j \in 1..Len(h) : [h EXCEPT ![n] = e][j] = IF j = n THEN e ELSE h[j]
  BY <1>1, <1>2, ExceptSeq DEF History
<1>5. DOMAIN [h EXCEPT ![n] = e] = DOMAIN h
  OBVIOUS
<1> QED
  BY <1>1, <1>2, <1>3, <1>4, <1>5 DEF n, History

LEMMA InterruptedFacts ==
    ASSUME NEW h \in History
    PROVE  /\ Interrupted(h) \in History
           /\ DOMAIN Interrupted(h) = DOMAIN h
           /\ \A i \in DOMAIN h :
                /\ Interrupted(h)[i].req = h[i].req
                /\ Interrupted(h)[i].status # "pending"
                /\ Interrupted(h)[i].status = "complete" => Interrupted(h)[i] = h[i]
<1>1. Len(h) \in Nat /\ DOMAIN h = 1..Len(h) /\ \A i \in DOMAIN h : h[i] \in Reply
  BY HistoryShape
<1>2. DOMAIN Interrupted(h) = DOMAIN h
  BY DEF Interrupted
<1>3. ASSUME NEW i \in DOMAIN h
      PROVE  /\ Interrupted(h)[i] \in Reply
             /\ Interrupted(h)[i].req = h[i].req
             /\ Interrupted(h)[i].status # "pending"
             /\ Interrupted(h)[i].status = "complete" => Interrupted(h)[i] = h[i]
  <2>1. h[i] \in Reply
    BY <1>1
  <2>2. Interrupted(h)[i] = IF h[i].status = "pending"
                            THEN [h[i] EXCEPT !.status = "error"] ELSE h[i]
    BY DEF Interrupted
  <2>3. /\ [h[i] EXCEPT !.status = "error"] \in Reply
        /\ [h[i] EXCEPT !.status = "error"].req = h[i].req
        /\ [h[i] EXCEPT !.status = "error"].status = "error"
    BY <2>1 DEF Reply, Settled
  <2> QED
    BY <2>1, <2>2, <2>3
<1>4. Interrupted(h) = [i \in 1..Len(h) |-> Interrupted(h)[i]]
  BY <1>1 DEF Interrupted
<1>5. Interrupted(h) \in [1..Len(h) -> Reply]
  BY <1>1, <1>3, <1>4
<1>6. Interrupted(h) \in History
  BY <1>1, <1>5, SeqDef DEF History
<1> QED
  BY <1>2, <1>3, <1>6

NewReply(r) == [req |-> r, status |-> "pending", text |-> ""]

LEMMA AppendFacts ==
    ASSUME NEW h \in History, NEW r \in Requests
    PROVE  /\ Append(h, NewReply(r)) \in History
           /\ Len(Append(h, NewReply(r))) = Len(h) + 1
           /\ DOMAIN Append(h, NewReply(r)) = 1..Len(h) + 1
           /\ \A i \in DOMAIN h : Append(h, NewReply(r))[i] = h[i]
           /\ Append(h, NewReply(r))[Len(h) + 1] = NewReply(r)
<1>1. NewReply(r) \in Reply
  BY DEF NewReply, Reply
<1>2. Len(h) \in Nat /\ DOMAIN h = 1..Len(h)
  BY HistoryShape
<1>3. /\ Append(h, NewReply(r)) \in Seq(Reply)
      /\ Len(Append(h, NewReply(r))) = Len(h) + 1
      /\ \A i \in 1..Len(h) : Append(h, NewReply(r))[i] = h[i]
      /\ Append(h, NewReply(r))[Len(h) + 1] = NewReply(r)
  BY <1>1, AppendProperties DEF History
<1>4. DOMAIN Append(h, NewReply(r)) = 1..Len(h) + 1
  BY <1>3, HistoryShape DEF History
<1> QED
  BY <1>2, <1>3, <1>4 DEF History

\* Two histories of the same questions are both without repetition.
LEMMA SameQuestions ==
    ASSUME NEW g, NEW h, DOMAIN g = DOMAIN h, \A i \in DOMAIN h : g[i].req = h[i].req
    PROVE  /\ Distinct(h) => Distinct(g)
           /\ Asked(g) = Asked(h)
<1>1. Distinct(h) => Distinct(g)
  BY DEF Distinct
<1>2. \A r : r \in Asked(g) <=> r \in Asked(h)
  <2>1. \A r : r \in Asked(g) <=> \E i \in DOMAIN g : r = g[i].req
    BY DEF Asked
  <2>2. \A r : r \in Asked(h) <=> \E i \in DOMAIN h : r = h[i].req
    BY DEF Asked
  <2> QED
    BY <2>1, <2>2
<1>3. Asked(g) = Asked(h)
  BY <1>2, Zenon DEF Asked
<1> QED
  BY <1>1, <1>3

LEMMA NewQuestion ==
    ASSUME NEW h \in History, NEW r \in Requests, ~Known(h, r), Distinct(h)
    PROVE  /\ Distinct(Append(h, NewReply(r)))
           /\ Asked(Append(h, NewReply(r))) = Asked(h) \cup {r}
<1> DEFINE g == Append(h, NewReply(r))
<1>1. /\ Len(h) \in Nat /\ DOMAIN h = 1..Len(h) /\ DOMAIN g = 1..Len(h) + 1
      /\ \A i \in DOMAIN h : g[i] = h[i]
      /\ g[Len(h) + 1].req = r
  <2>1. NewReply(r).req = r
    BY DEF NewReply
  <2> QED
    BY <2>1, AppendFacts, HistoryShape
<1>2. \A i \in DOMAIN h : h[i].req # r
  BY DEF Known, Asked
<1> HIDE DEF g
<1>3. Distinct(g)
  <2> SUFFICES ASSUME NEW i \in DOMAIN g, NEW j \in DOMAIN g, g[i].req = g[j].req
               PROVE  i = j
    BY DEF Distinct
  <2>1. \A k \in DOMAIN g : k \in DOMAIN h \/ k = Len(h) + 1
    BY <1>1
  <2> QED
    BY <1>1, <1>2, <2>1 DEF Distinct
<1>4. \A q : q \in Asked(g) <=> q \in Asked(h) \cup {r}
  <2>1. \A q : q \in Asked(g) <=> \E i \in DOMAIN g : q = g[i].req
    BY DEF Asked
  <2>2. \A q : q \in Asked(h) <=> \E i \in DOMAIN h : q = h[i].req
    BY DEF Asked
  <2>3. \A k : k \in DOMAIN g <=> k \in DOMAIN h \/ k = Len(h) + 1
    BY <1>1
  <2> QED
    BY <1>1, <2>1, <2>2, <2>3
<1>5. Asked(g) = Asked(h) \cup {r}
  BY <1>4
<1> QED
  BY <1>3, <1>5 DEF g

-----------------------------------------------------------------------------
\* What is typed: the histories, the control, the views.
HistoriesTyped == disk \in History \cup {None} /\ memory \in [Procs -> History]

ControlTyped ==
    /\ lock \in Procs \cup {None}
    /\ stage \in [Procs -> {"down", "up", "closing", "released"}]
    /\ active \in [Procs -> Requests \cup {None}]
    /\ partial \in [Procs -> {"", "part"}]
    /\ cancel \in [Procs -> BOOLEAN]
    /\ worker \in [Procs -> {"none", "asking"} \cup Settled]
    /\ page \in [Pages -> Procs \cup {None}]
    /\ accepted \in SUBSET Requests
    /\ outlived \in BOOLEAN
    /\ unsaved \in [Procs -> SUBSET Requests]

BoundsTyped ==
    sent \in 0 .. MaxRequests /\ started \in 0 .. MaxProcs /\ failed \in 0 .. MaxFailures

ViewTyped == view \in [Pages -> Snapshots \cup {None}]

LEMMA TypeParts == TypeOK <=> HistoriesTyped /\ ControlTyped /\ BoundsTyped /\ ViewTyped
  BY DEF TypeOK, HistoriesTyped, ControlTyped, BoundsTyped, ViewTyped

LEMMA InvNext ==
    ASSUME HistoriesTyped', ControlTyped', BoundsTyped', ViewTyped', QuestionsAreDistinct',
           DownIsBlank', StartedInOrder', StreamsAreServed', NoPageNoView'
    PROVE  Inv'
  BY DEF Inv, TypeOK, HistoriesTyped, ControlTyped, BoundsTyped, ViewTyped

\* An action of p writes a history without repetitions to its memory, to the file,
\* to both or to none.
Writes(p) ==
    /\ \E h \in History : Distinct(h) /\ memory' = [memory EXCEPT ![p] = h]
    /\ disk' = disk \/ (disk' \in History /\ Distinct(disk'))

LEMMA MemoryIsDistinct ==
    ASSUME Inv, NEW p \in Procs
    PROVE  memory[p] \in History /\ Distinct(memory[p])
  BY DEF Inv, TypeOK, QuestionsAreDistinct, Histories

LEMMA DiskIsDistinct ==
    ASSUME Inv
    PROVE  disk # None => disk \in History /\ Distinct(disk)
  BY DEF Inv, TypeOK, QuestionsAreDistinct, Histories

LEMMA WritesKeepHistories ==
    ASSUME Inv, NEW p \in Procs, Writes(p)
    PROVE  HistoriesTyped' /\ QuestionsAreDistinct'
<1>1. PICK h \in History : Distinct(h) /\ memory' = [memory EXCEPT ![p] = h]
  BY DEF Writes
<1>2. /\ disk' \in History \cup {None}
      /\ disk' # None => Distinct(disk')
  BY DiskIsDistinct, NoneAssumption DEF Writes, Inv, TypeOK
<1>3. \A q \in Procs : memory'[q] \in History /\ Distinct(memory'[q])
  BY <1>1, MemoryIsDistinct DEF Inv, TypeOK
<1>4. memory' \in [Procs -> History]
  BY <1>1 DEF Inv, TypeOK
<1> QED
  BY <1>2, <1>3, <1>4 DEF HistoriesTyped, QuestionsAreDistinct, Histories, Distinct

LEMMA UntouchedHistories ==
    ASSUME Inv, UNCHANGED <<disk, memory>>
    PROVE  HistoriesTyped' /\ QuestionsAreDistinct'
<1>1. HistoriesTyped'
  BY DEF Inv, TypeOK, HistoriesTyped
<1>2. Histories' = Histories
  BY DEF Histories
<1> QED
  BY <1>1, <1>2 DEF Inv, QuestionsAreDistinct, Distinct

LEMMA SaveWrites ==
    ASSUME NEW h \in History, Distinct(h), NEW outcome, Save(h, outcome)
    PROVE  disk' = disk \/ (disk' \in History /\ Distinct(disk'))
  BY DEF Save

\* What a start loads.
Loaded == IF disk = None THEN <<>> ELSE Interrupted(disk)

LEMMA LoadedFacts ==
    ASSUME Inv
    PROVE  /\ Loaded \in History /\ Distinct(Loaded)
           /\ \A i \in DOMAIN Loaded : Loaded[i].status # "pending"
           /\ Loaded = disk => disk # None
           /\ disk # None =>
                /\ DOMAIN Loaded = DOMAIN disk /\ Asked(Loaded) = Asked(disk)
                /\ \A i \in DOMAIN disk :
                    /\ Loaded[i].req = disk[i].req
                    /\ Loaded[i].status = "complete" => Loaded[i] = disk[i]
<1>1. CASE disk = None
  BY <1>1, NoHistory, NoneAssumption DEF Loaded
<1>2. CASE disk # None
  BY <1>2, DiskIsDistinct, InterruptedFacts, SameQuestions, NoneAssumption DEF Loaded
<1> QED
  BY <1>1, <1>2

LEMMA StartsWhenDown ==
    ASSUME Inv, NEW p \in Procs, NEW outcome, Start(p, outcome)
    PROVE  stage[p] = "down"
<1>1. started \in Nat /\ p = started + 1
  <2>1. started \in 0 .. MaxProcs
    BY TypeParts DEF Inv, BoundsTyped
  <2>2. p = started + 1
    BY DEF Start
  <2> QED
    BY <2>1, <2>2, BoundAssumption
<1>2. ~(p <= started)
  BY <1>1
<1> QED
  BY <1>2 DEF Inv, StartedInOrder

LEMMA StartWrites ==
    ASSUME Inv, NEW p \in Procs, NEW outcome, Start(p, outcome)
    PROVE  Writes(p)
<1>1. Loaded \in History /\ Distinct(Loaded)
  BY LoadedFacts
<1>2. disk' = disk \/ disk' = Loaded
  BY DEF Start, Save, Loaded
<1>3. memory' = memory \/ memory' = [memory EXCEPT ![p] = Loaded]
  BY DEF Start, Loaded
<1>4. memory = [memory EXCEPT ![p] = memory[p]]
  BY DEF Inv, TypeOK
<1> QED
  BY <1>1, <1>2, <1>3, <1>4, MemoryIsDistinct DEF Writes

LEMMA SubmitWrites ==
    ASSUME Inv, NEW p \in Procs, NEW r \in Requests, NEW outcome, Submit(p, r, outcome)
    PROVE  Writes(p)
<1> DEFINE after == Append(memory[p], NewReply(r))
<1>1. memory[p] \in History /\ Distinct(memory[p])
  BY MemoryIsDistinct
<1>2. after \in History /\ Distinct(after)
  BY <1>1, AppendFacts, NewQuestion DEF Submit
<1>3. /\ Save(after, outcome)
      /\ memory' = [memory EXCEPT ![p] = AfterAdd(memory[p], after, outcome)]
  BY DEF Submit, NewReply
<1> HIDE DEF after
<1>4. AfterAdd(memory[p], after, outcome) \in {memory[p], after}
  BY DEF AfterAdd
<1> QED
  BY <1>1, <1>2, <1>3, <1>4, SaveWrites DEF Writes

LEMMA SetLastDistinct ==
    ASSUME NEW h \in History, h # <<>>, Distinct(h), NEW status \in Statuses, NEW text \in Texts
    PROVE  /\ SetLast(h, status, text) \in History /\ Distinct(SetLast(h, status, text))
           /\ Asked(SetLast(h, status, text)) = Asked(h)
  BY SetLastFacts, SameQuestions

LEMMA RetryWrites ==
    ASSUME Inv, NEW p \in Procs, NEW r \in Requests, NEW outcome, Retry(p, r, outcome)
    PROVE  Writes(p)
<1> DEFINE h == SetLast(memory[p], "pending", "")
<1>1. memory[p] \in History /\ Distinct(memory[p]) /\ memory[p] # <<>>
  BY MemoryIsDistinct DEF Retry, LatestIs
<1>2. h \in History /\ Distinct(h)
  BY <1>1, SetLastDistinct DEF Statuses, Texts
<1>3. memory' = [memory EXCEPT ![p] = h] /\ memory'[p] = h /\ Save(memory'[p], outcome)
  BY DEF Retry, Inv, TypeOK
<1> HIDE DEF h
<1> QED
  BY <1>2, <1>3, SaveWrites DEF Writes

\* The text and the outcome a worker saves.
AnswerText(p) == IF worker[p] = "complete" THEN "whole" ELSE partial[p]
Finished(p) == SetLast(memory[p], worker[p], AnswerText(p))

LEMMA FinishedFacts ==
    ASSUME Inv, NEW p \in Procs, worker[p] \in Settled, LatestIs(memory[p], active[p])
    PROVE  /\ memory[p] \in History /\ memory[p] # <<>> /\ Distinct(memory[p])
           /\ worker[p] \in Statuses /\ AnswerText(p) \in Texts
           /\ Finished(p) \in History /\ Distinct(Finished(p)) /\ Finished(p) # <<>>
           /\ Asked(Finished(p)) = Asked(memory[p])
<1>1. memory[p] \in History /\ memory[p] # <<>> /\ Distinct(memory[p])
  BY MemoryIsDistinct DEF LatestIs
<1>2. worker[p] \in Statuses /\ AnswerText(p) \in Texts
  BY DEF Statuses, AnswerText, Texts, Inv, TypeOK
<1>3. Finished(p) \in History /\ Distinct(Finished(p)) /\ Asked(Finished(p)) = Asked(memory[p])
  BY <1>1, <1>2, SetLastDistinct DEF Finished
<1>4. Len(Finished(p)) = Len(memory[p]) /\ Len(memory[p]) # 0
  BY <1>1, <1>2, SetLastFacts, EmptySeq DEF Finished, History
<1> QED
  BY <1>1, <1>2, <1>3, <1>4, EmptySeq

LEMMA FinishWrites ==
    ASSUME Inv, NEW p \in Procs, NEW outcome, Finish(p, outcome)
    PROVE  Writes(p)
<1>1. CASE LatestIs(memory[p], active[p])
  <2>1. /\ Finished(p) \in History /\ Distinct(Finished(p)) /\ Finished(p) # <<>>
        /\ AnswerText(p) \in Texts
    BY <1>1, FinishedFacts DEF Finish
  <2>2. /\ SetLast(Finished(p), "error", AnswerText(p)) \in History
        /\ Distinct(SetLast(Finished(p), "error", AnswerText(p)))
    BY <2>1, SetLastDistinct DEF Statuses, Settled
  <2>3. /\ Save(Finished(p), outcome)
        /\ memory' = [memory EXCEPT ![p] = AfterFinish(Finished(p), AnswerText(p), outcome)]
    BY <1>1 DEF Finish, Finished, AnswerText
  <2> QED
    BY <2>1, <2>2, <2>3, SaveWrites DEF Writes, AfterFinish
<1>2. CASE ~LatestIs(memory[p], active[p])
  <2>1. UNCHANGED <<disk, memory>>
    BY <1>2 DEF Finish
  <2>2. memory = [memory EXCEPT ![p] = memory[p]]
    BY DEF Inv, TypeOK
  <2> QED
    BY <2>1, <2>2, MemoryIsDistinct DEF Writes
<1> QED
  BY <1>1, <1>2

LEMMA GoneWrites ==
    ASSUME Inv, NEW p \in Procs, Gone(p)
    PROVE  Writes(p)
  BY NoHistory DEF Gone, Writes

-----------------------------------------------------------------------------
\* A step is one of a process or of a page, and a process changes itself only.
ProcessStep(p) ==
    \/ \E outcome \in SaveOutcome :
        \/ Start(p, outcome)
        \/ \E r \in Requests : Submit(p, r, outcome) \/ Retry(p, r, outcome)
        \/ Finish(p, outcome)
    \/ \E r \in Requests : SubmitAgain(p, r)
    \/ Stop(p) \/ Update(p) \/ (\E outcome \in Settled : HostEnds(p, outcome))
    \/ Close(p) \/ ReleaseLock(p) \/ Exit(p) \/ Crash(p)

PageStep(c) == (\E p \in Procs : Connect(c, p) \/ Stream(c, p)) \/ Leave(c)

LEMMA NextIs ==
    ASSUME Next
    PROVE  (\E p \in Procs : ProcessStep(p)) \/ (\E c \in Pages : PageStep(c))
<1>1. ASSUME NEW p \in Procs, WorkerStep(p)
      PROVE  ProcessStep(p)
  BY <1>1 DEF WorkerStep, ProcessStep
<1>2. ASSUME NEW c \in Pages, NEW p \in Procs, Connect(c, p) \/ Stream(c, p)
      PROVE  PageStep(c)
  BY <1>2 DEF PageStep
<1>3. ASSUME NEW c \in Pages, Leave(c)
      PROVE  PageStep(c)
  BY <1>3 DEF PageStep
<1> QED
  BY <1>1, <1>2, <1>3 DEF Next, ProcessStep

Others(p) ==
    \A q \in Procs \ {p} :
        /\ stage'[q] = stage[q] /\ memory'[q] = memory[q] /\ active'[q] = active[q]
        /\ partial'[q] = partial[q] /\ cancel'[q] = cancel[q] /\ worker'[q] = worker[q]
        /\ unsaved'[q] = unsaved[q]

LEMMA ActsAlone ==
    ASSUME Inv, NEW p \in Procs, ProcessStep(p)
    PROVE  Others(p)
<1> USE DEF Inv, TypeOK, Others
<1>1. ASSUME NEW outcome \in SaveOutcome, Start(p, outcome)
      PROVE  Others(p)
  BY <1>1 DEF Start, failures
<1>2. ASSUME NEW outcome \in SaveOutcome, NEW r \in Requests, Submit(p, r, outcome)
      PROVE  Others(p)
  BY <1>2 DEF Submit, Begin, NoBegin, failures
<1>3. ASSUME NEW outcome \in SaveOutcome, NEW r \in Requests, Retry(p, r, outcome)
      PROVE  Others(p)
  BY <1>3 DEF Retry, Begin, NoBegin
<1>4. ASSUME NEW outcome \in SaveOutcome, Finish(p, outcome)
      PROVE  Others(p)
  BY <1>4 DEF Finish, Rest
<1>5. ASSUME NEW r \in Requests, SubmitAgain(p, r)
      PROVE  Others(p)
  BY <1>5 DEF SubmitAgain, Begin, NoBegin, failures
<1>6. ASSUME NEW outcome \in Settled, HostEnds(p, outcome)
      PROVE  Others(p)
  BY <1>6 DEF HostEnds, failures
<1>7. ASSUME Stop(p) \/ Update(p) \/ Close(p) \/ ReleaseLock(p)
      PROVE  Others(p)
  BY <1>7 DEF Stop, Update, Close, ReleaseLock, failures
<1>8. ASSUME Gone(p)
      PROVE  Others(p)
  BY <1>8 DEF Gone
<1> QED
  BY <1>1, <1>2, <1>3, <1>4, <1>5, <1>6, <1>7, <1>8 DEF ProcessStep, Exit, Crash

\* The control variables stay typed.
LEMMA BeginTyped ==
    ASSUME ControlTyped, NEW p \in Procs, NEW r \in Requests,
           Begin(p, r) \/ NoBegin, UNCHANGED <<lock, stage, page, outlived>>,
           accepted' \in SUBSET Requests, unsaved' \in [Procs -> SUBSET Requests]
    PROVE  ControlTyped'
<1>1. /\ lock' \in Procs \cup {None} /\ stage' \in [Procs -> {"down", "up", "closing", "released"}]
      /\ page' \in [Pages -> Procs \cup {None}] /\ accepted' \in SUBSET Requests
      /\ outlived' \in BOOLEAN /\ unsaved' \in [Procs -> SUBSET Requests]
  BY DEF ControlTyped
<1>2. CASE Begin(p, r)
  <2>1. active' \in [Procs -> Requests \cup {None}] /\ partial' \in [Procs -> {"", "part"}]
    BY <1>2 DEF Begin, ControlTyped
  <2>2. cancel' \in [Procs -> BOOLEAN] /\ worker' \in [Procs -> {"none", "asking"} \cup Settled]
    BY <1>2 DEF Begin, ControlTyped
  <2> QED
    BY <1>1, <2>1, <2>2 DEF ControlTyped
<1>3. CASE NoBegin
  BY <1>1, <1>3 DEF NoBegin, ControlTyped
<1> QED
  BY <1>2, <1>3

LEMMA ProcessControlTyped ==
    ASSUME Inv, NEW p \in Procs, ProcessStep(p)
    PROVE  ControlTyped'
<1>0. ControlTyped
  BY TypeParts DEF Inv
<1>1. ASSUME NEW outcome \in SaveOutcome, Start(p, outcome)
      PROVE  ControlTyped'
  <2>1. UNCHANGED <<active, partial, cancel, worker, page, accepted, outlived, unsaved>>
    BY <1>1 DEF Start, pages, failures
  <2>2. (lock' = p /\ stage' = [stage EXCEPT ![p] = "up"]) \/ UNCHANGED <<lock, stage>>
    BY <1>1 DEF Start
  <2> QED
    BY <1>0, <2>1, <2>2 DEF ControlTyped
<1>2. ASSUME NEW outcome \in SaveOutcome, NEW r \in Requests, Submit(p, r, outcome)
      PROVE  ControlTyped'
  <2>1. /\ Begin(p, r) \/ NoBegin
        /\ UNCHANGED <<lock, stage, page, outlived, unsaved>> /\ accepted' \in SUBSET Requests
    BY <1>0, <1>2 DEF Submit, ControlTyped, failures
  <2>2. unsaved' \in [Procs -> SUBSET Requests]
    BY <1>0, <2>1 DEF ControlTyped
  <2> QED
    BY <1>0, <2>1, <2>2, BeginTyped
<1>3. ASSUME NEW outcome \in SaveOutcome, NEW r \in Requests, Retry(p, r, outcome)
      PROVE  ControlTyped'
  <2>1. /\ Begin(p, r) \/ NoBegin
        /\ UNCHANGED <<lock, stage, page, outlived, accepted>>
    BY <1>3 DEF Retry
  <2>2. unsaved' = unsaved \/ unsaved' = [unsaved EXCEPT ![p] = @ \cup {r}]
    BY <1>3 DEF Retry
  <2>3. unsaved' \in [Procs -> SUBSET Requests] /\ accepted' \in SUBSET Requests
    <3>1. unsaved[p] \cup {r} \in SUBSET Requests
      BY <1>0 DEF ControlTyped
    <3> QED
      BY <1>0, <2>1, <2>2, <3>1 DEF ControlTyped
  <2> QED
    BY <1>0, <2>1, <2>3, BeginTyped
<1>4. ASSUME NEW outcome \in SaveOutcome, Finish(p, outcome)
      PROVE  ControlTyped'
  <2>1. unsaved' = unsaved \/ unsaved' = [unsaved EXCEPT ![p] = @ \ {active[p]}]
    BY <1>4 DEF Finish
  <2>2. unsaved' \in [Procs -> SUBSET Requests]
    BY <1>0, <2>1 DEF ControlTyped
  <2> QED
    BY <1>0, <1>4, <2>2 DEF Finish, Rest, ControlTyped
<1>5. ASSUME NEW r \in Requests, SubmitAgain(p, r)
      PROVE  ControlTyped'
  <2>1. /\ Begin(p, r) \/ NoBegin
        /\ UNCHANGED <<lock, stage, page, outlived, unsaved>> /\ accepted' \in SUBSET Requests
    BY <1>0, <1>5 DEF SubmitAgain, ControlTyped, failures
  <2>2. unsaved' \in [Procs -> SUBSET Requests]
    BY <1>0, <2>1 DEF ControlTyped
  <2> QED
    BY <1>0, <2>1, <2>2, BeginTyped
<1>6. ASSUME NEW outcome \in Settled, HostEnds(p, outcome)
      PROVE  ControlTyped'
  BY <1>0, <1>6 DEF HostEnds, ControlTyped, pages, failures
<1>7. ASSUME Stop(p)
      PROVE  ControlTyped'
  BY <1>0, <1>7 DEF Stop, ControlTyped, pages, failures
<1>8. ASSUME Update(p)
      PROVE  ControlTyped'
  BY <1>0, <1>8 DEF Update, ControlTyped, failures
<1>9. ASSUME Close(p)
      PROVE  ControlTyped'
  BY <1>0, <1>9 DEF Close, ControlTyped, failures
<1>10. ASSUME ReleaseLock(p)
       PROVE  ControlTyped'
  BY <1>0, <1>10 DEF ReleaseLock, ControlTyped, pages
<1>11. ASSUME Gone(p)
       PROVE  ControlTyped'
  BY <1>0, <1>11 DEF Gone, ControlTyped
<1> QED
  BY <1>1, <1>2, <1>3, <1>4, <1>5, <1>6, <1>7, <1>8, <1>9, <1>10, <1>11
     DEF ProcessStep, Exit, Crash

\* The bounds.
LEMMA SaveBounds ==
    ASSUME BoundsTyped, NEW h, NEW outcome, Save(h, outcome)
    PROVE  failed' \in 0 .. MaxFailures
  BY BoundAssumption DEF BoundsTyped, Save

LEMMA ProcessBounds ==
    ASSUME Inv, NEW p \in Procs, ProcessStep(p)
    PROVE  BoundsTyped' /\ started <= started'
<1>0. BoundsTyped /\ started \in Nat
  BY TypeParts, BoundAssumption DEF Inv, BoundsTyped
<1>1. ASSUME NEW outcome \in SaveOutcome, Start(p, outcome)
      PROVE  BoundsTyped' /\ started <= started'
  <2>1. failed' \in 0 .. MaxFailures
    BY <1>0, <1>1, SaveBounds DEF Start, BoundsTyped
  <2>2. sent' = sent /\ p = started + 1 /\ started' \in {started, p}
    BY <1>1 DEF Start
  <2> QED
    BY <1>0, <2>1, <2>2 DEF BoundsTyped, Procs
<1>2. ASSUME NEW outcome \in SaveOutcome, NEW r \in Requests, Submit(p, r, outcome)
      PROVE  BoundsTyped' /\ started <= started'
  <2>1. failed' \in 0 .. MaxFailures
    BY <1>0, <1>2, SaveBounds DEF Submit
  <2>2. started' = started /\ sent' = IF r = sent + 1 THEN r ELSE sent
    BY <1>2 DEF Submit
  <2>3. r \in 0 .. MaxRequests
    BY BoundAssumption DEF Requests
  <2> QED
    BY <1>0, <2>1, <2>2, <2>3 DEF BoundsTyped
<1>3. ASSUME NEW outcome \in SaveOutcome, NEW r \in Requests, Retry(p, r, outcome)
      PROVE  BoundsTyped' /\ started <= started'
  <2>1. failed' \in 0 .. MaxFailures
    BY <1>0, <1>3, SaveBounds DEF Retry
  <2>2. started' = started /\ sent' = sent
    BY <1>3 DEF Retry
  <2> QED
    BY <1>0, <2>1, <2>2 DEF BoundsTyped
<1>4. ASSUME NEW outcome \in SaveOutcome, Finish(p, outcome)
      PROVE  BoundsTyped' /\ started <= started'
  <2>1. failed' \in 0 .. MaxFailures
    BY <1>0, <1>4, SaveBounds DEF Finish, BoundsTyped
  <2>2. started' = started /\ sent' = sent
    BY <1>4 DEF Finish
  <2> QED
    BY <1>0, <2>1, <2>2 DEF BoundsTyped
<1>5. ASSUME UNCHANGED bounds
      PROVE  BoundsTyped' /\ started <= started'
  BY <1>0, <1>5 DEF BoundsTyped, bounds
<1>6. ASSUME \/ \E r \in Requests : SubmitAgain(p, r)
             \/ Stop(p) \/ Update(p) \/ (\E outcome \in Settled : HostEnds(p, outcome))
             \/ Close(p) \/ ReleaseLock(p) \/ Gone(p)
      PROVE  UNCHANGED bounds
  BY <1>6 DEF SubmitAgain, Stop, Update, HostEnds, Close, ReleaseLock, Gone
<1> QED
  BY <1>1, <1>2, <1>3, <1>4, <1>5, <1>6 DEF ProcessStep, Exit, Crash

LEMMA ProcessWrites ==
    ASSUME Inv, NEW p \in Procs, ProcessStep(p)
    PROVE  Writes(p) \/ UNCHANGED <<disk, memory>>
<1>1. ASSUME (\E r \in Requests : SubmitAgain(p, r))
             \/ Stop(p) \/ Update(p) \/ (\E outcome \in Settled : HostEnds(p, outcome))
             \/ Close(p) \/ ReleaseLock(p)
      PROVE  UNCHANGED <<disk, memory>>
  BY <1>1 DEF SubmitAgain, Stop, Update, HostEnds, Close, ReleaseLock
<1> QED
  BY <1>1, StartWrites, SubmitWrites, RetryWrites, FinishWrites, GoneWrites
     DEF ProcessStep, Exit, Crash

LEMMA ProcessKeepsBlank ==
    ASSUME Inv, NEW p \in Procs, ProcessStep(p)
    PROVE  DownIsBlank' /\ StartedInOrder' /\ StreamsAreServed'
<1> DEFINE Kept == DownIsBlank' /\ StartedInOrder' /\ StreamsAreServed'
<1>0. /\ Others(p) /\ ControlTyped /\ ControlTyped' /\ started \in Nat /\ started' \in Nat
      /\ started <= started'
  BY ActsAlone, ProcessControlTyped, ProcessBounds, TypeParts, BoundAssumption DEF Inv, BoundsTyped
<1>a. \A q \in Procs : q \in Nat
  BY BoundAssumption DEF Procs
<1>1. ASSUME stage'[p] # "down", p <= started', UNCHANGED page
      PROVE  Kept
  <2>1. \A q \in Procs : stage[q] # "down" => stage'[q] # "down"
    BY <1>0, <1>1 DEF Others
  <2>2. DownIsBlank'
    BY <1>0, <1>1 DEF Others, Inv, DownIsBlank
  <2>3. ASSUME NEW c \in Pages, page[c] # None
        PROVE  stage'[page[c]] # "down"
    <3>1. page[c] \in Procs /\ stage[page[c]] # "down"
      BY <1>0, <2>3 DEF Inv, StreamsAreServed, ControlTyped
    <3> QED
      BY <2>1, <3>1
  <2>4. \A q \in Procs \ {p} : stage'[q] = stage[q] /\ (stage[q] # "down" => q <= started)
    BY <1>0 DEF Others, Inv, StartedInOrder
  <2>5. StartedInOrder'
    BY <1>0, <1>a, <1>1, <2>4 DEF StartedInOrder
  <2> QED
    BY <1>1, <2>2, <2>3, <2>5 DEF StreamsAreServed
<1>2. ASSUME Gone(p)
      PROVE  Kept
  <2>1. memory'[p] = <<>> /\ active'[p] = None /\ worker'[p] = "none" /\ unsaved'[p] = {}
    BY <1>2 DEF Gone, Inv, TypeOK
  <2>2. DownIsBlank'
    BY <1>0, <2>1 DEF Others, Inv, DownIsBlank
  <2>3. StreamsAreServed'
    <3> SUFFICES ASSUME NEW c \in Pages, page'[c] # None
                 PROVE  stage'[page'[c]] # "down"
      BY DEF StreamsAreServed
    <3>1. page'[c] = page[c] /\ page[c] # p
      BY <1>2 DEF Gone
    <3>2. page[c] \in Procs \ {p} /\ stage[page[c]] # "down"
      BY <1>0, <3>1 DEF Inv, StreamsAreServed, ControlTyped
    <3> QED
      BY <1>0, <3>1, <3>2 DEF Others
  <2>4. stage'[p] = "down" /\ started' = started
    BY <1>0, <1>2 DEF Gone, bounds, ControlTyped
  <2>5. StartedInOrder'
    BY <1>0, <2>4 DEF StartedInOrder, Others, Inv
  <2> QED
    BY <2>2, <2>3, <2>5
<1>3. ASSUME NEW outcome \in SaveOutcome, Start(p, outcome)
      PROVE  Kept
  <2>1. CASE outcome = "saved"
    <3>1. stage'[p] # "down" /\ started' = p /\ UNCHANGED page
      BY <1>0, <1>3, <2>1 DEF Start, pages, ControlTyped
    <3> QED
      BY <1>a, <1>1, <3>1
  <2>2. CASE outcome # "saved"
    <3>1. UNCHANGED <<page, stage, memory, active, worker, unsaved, started>>
      BY <1>3, <2>2 DEF Start, pages, failures
    <3> QED
      BY <3>1 DEF Inv, DownIsBlank, StreamsAreServed, StartedInOrder
  <2> QED
    BY <2>1, <2>2
<1>4. ASSUME stage[p] # "down", stage'[p] # "down", UNCHANGED page
      PROVE  Kept
  <2>1. p <= started'
    BY <1>0, <1>a, <1>4 DEF Inv, StartedInOrder
  <2> QED
    BY <1>1, <1>4, <2>1
<1>5. worker[p] # "none" \/ active[p] # None => stage[p] # "down"
  BY DEF Inv, DownIsBlank
<1>6. ASSUME \E outcome \in SaveOutcome, r \in Requests : Submit(p, r, outcome) \/ Retry(p, r, outcome)
      PROVE  Kept
  BY <1>4, <1>6 DEF Submit, Retry
<1>7. ASSUME (\E r \in Requests : SubmitAgain(p, r)) \/ Stop(p)
      PROVE  Kept
  BY <1>4, <1>5, <1>7 DEF SubmitAgain, Stop, pages
<1>8. ASSUME (\E outcome \in SaveOutcome : Finish(p, outcome)) \/ Update(p)
             \/ (\E outcome \in Settled : HostEnds(p, outcome))
      PROVE  Kept
  BY <1>4, <1>5, <1>8 DEF Finish, Update, HostEnds, pages, Settled
<1>9. ASSUME Close(p) \/ ReleaseLock(p)
      PROVE  Kept
  <2>1. stage[p] # "down" /\ stage'[p] # "down" /\ UNCHANGED page
    BY <1>0, <1>9 DEF Close, ReleaseLock, pages, ControlTyped
  <2> QED
    BY <1>4, <2>1
<1> QED
  BY <1>2, <1>3, <1>6, <1>7, <1>8, <1>9 DEF ProcessStep, Exit, Crash

LEMMA SnapshotTyped ==
    ASSUME Inv, NEW p \in Procs
    PROVE  Snapshot(p) \in Snapshots
<1>1. memory[p] \in History /\ partial[p] \in Texts
  BY DEF Inv, TypeOK, Texts
<1>2. ASSUME memory[p] # <<>>
      PROVE  [memory[p] EXCEPT ![Len(memory[p])].text = partial[p]] \in History
  <2> DEFINE h == memory[p]
             n == Len(h)
             m == h[n]
             e == [m EXCEPT !.text = partial[p]]
  <2>1. h \in History /\ n \in 1..Len(h) /\ m \in Reply
    BY <1>1, <1>2, HistoryShape
  <2> HIDE DEF m
  <2>2. e \in Reply
    BY <1>1, <2>1 DEF Reply, Texts
  <2>3. [h EXCEPT ![n].text = partial[p]] = [h EXCEPT ![n] = e]
    BY DEF m
  <2> HIDE DEF e, n, h
  <2>4. [h EXCEPT ![n] = e] \in Seq(Reply)
    BY <2>1, <2>2, ExceptSeq DEF History
  <2> QED
    BY <2>3, <2>4 DEF History, h, n
<1>3. LatestIs(memory[p], active[p]) => memory[p] # <<>>
  BY DEF LatestIs
<1> QED
  BY <1>1, <1>2, <1>3 DEF Snapshot, Snapshots

LEMMA ProcessKeepsViewTyped ==
    ASSUME Inv, NEW p \in Procs, ProcessStep(p)
    PROVE  ViewTyped' /\ NoPageNoView'
<1>1. ViewTyped
  BY TypeParts DEF Inv
<1>2. Changed(p) \/ UNCHANGED view
  BY DEF ProcessStep, Start, Submit, Retry, Finish, SubmitAgain, Begin, NoBegin, Stop, Update,
         HostEnds, Close, ReleaseLock, Exit, Crash, Gone, pages
<1>3. UNCHANGED page \/ Gone(p)
  BY DEF ProcessStep, Start, Submit, Retry, Finish, SubmitAgain, Stop, Update,
         HostEnds, Close, ReleaseLock, Exit, Crash, pages
<1>4. ViewTyped' /\ \A c \in Pages : view'[c] \in {view[c], None}
  BY <1>1, <1>2 DEF ViewTyped, Changed
<1>5. CASE UNCHANGED page
  BY <1>4, <1>5 DEF Inv, NoPageNoView
<1>6. CASE Gone(p)
  <2>1. \A c \in Pages : page[c] = p => view'[c] = None
    BY <1>6 DEF Gone, Changed
  <2>2. \A c \in Pages : page[c] # p => page'[c] = page[c]
    BY <1>6 DEF Gone
  <2> QED
    BY <1>4, <2>1, <2>2 DEF Inv, NoPageNoView
<1> QED
  BY <1>3, <1>4, <1>5, <1>6

LEMMA PageKeepsInv ==
    ASSUME Inv, NEW c \in Pages, PageStep(c)
    PROVE  Inv' /\ UNCHANGED <<disk, lock, process, accepted, bounds, failures>>
<1>1. UNCHANGED <<disk, lock, process, accepted, bounds, failures>>
  BY DEF PageStep, Connect, Stream, Leave
<1>2. ControlTyped /\ BoundsTyped /\ ViewTyped
  BY TypeParts DEF Inv
<1>3. HistoriesTyped' /\ QuestionsAreDistinct' /\ DownIsBlank' /\ StartedInOrder'
  BY <1>1, UntouchedHistories DEF Inv, DownIsBlank, StartedInOrder, process, bounds, failures
<1>4. ControlTyped' /\ BoundsTyped'
  <2>1. page' \in [Pages -> Procs \cup {None}]
    BY <1>2 DEF ControlTyped, PageStep, Connect, Stream, Leave, Disconnect
  <2> QED
    BY <1>1, <1>2, <2>1 DEF ControlTyped, BoundsTyped, process, bounds, failures
<1>5. ViewTyped'
  <2>1. ASSUME NEW p \in Procs, Stream(c, p)
        PROVE  ViewTyped'
    BY <1>2, <2>1, SnapshotTyped DEF Stream, Disconnect, ViewTyped
  <2>2. ASSUME UNCHANGED view \/ Leave(c)
        PROVE  ViewTyped'
    BY <1>2, <2>2 DEF Leave, Disconnect, ViewTyped
  <2> QED
    BY <2>1, <2>2 DEF PageStep, Connect
<1>6. StreamsAreServed'
  <2> SUFFICES ASSUME NEW d \in Pages, page'[d] # None
               PROVE  stage[page'[d]] # "down"
    BY <1>1 DEF StreamsAreServed, process
  <2>1. \A p \in Procs : Connect(c, p) => stage[p] # "down"
    BY DEF Connect
  <2>2. page'[d] = page[d] \/ \E p \in Procs : Connect(c, p) /\ page'[d] = p
    BY <1>2 DEF PageStep, Connect, Stream, Leave, Disconnect, ControlTyped
  <2> QED
    BY <2>1, <2>2 DEF Inv, StreamsAreServed
<1>7. NoPageNoView'
  <2> SUFFICES ASSUME NEW d \in Pages, page'[d] = None
               PROVE  view'[d] = None
    BY DEF NoPageNoView
  <2>1. ASSUME NEW p \in Procs, Connect(c, p)
        PROVE  page[d] = None /\ view' = view
    BY <2>1, NoneAssumption DEF Connect, Inv, TypeOK
  <2>2. ASSUME NEW p \in Procs, Stream(c, p)
        PROVE  view'[d] = None \/ (page[d] = None /\ view'[d] = view[d])
    BY <2>2, NoneAssumption DEF Stream, Disconnect, Inv, TypeOK
  <2>3. ASSUME Leave(c)
        PROVE  view'[d] = None \/ (page[d] = None /\ view'[d] = view[d])
    BY <2>3 DEF Leave, Disconnect, Inv, TypeOK
  <2> QED
    BY <2>1, <2>2, <2>3 DEF PageStep, Inv, NoPageNoView
<1> QED
  BY <1>1, <1>3, <1>4, <1>5, <1>6, <1>7, InvNext

LEMMA ProcessKeepsInv ==
    ASSUME Inv, NEW p \in Procs, ProcessStep(p)
    PROVE  Inv'
<1>1. HistoriesTyped' /\ QuestionsAreDistinct'
  BY ProcessWrites, WritesKeepHistories, UntouchedHistories
<1>2. ControlTyped' /\ BoundsTyped' /\ ViewTyped' /\ NoPageNoView'
  BY ProcessControlTyped, ProcessBounds, ProcessKeepsViewTyped
<1>3. DownIsBlank' /\ StartedInOrder' /\ StreamsAreServed'
  BY ProcessKeepsBlank
<1> QED
  BY <1>1, <1>2, <1>3, InvNext

LEMMA InitInv == Init => Inv
<1> SUFFICES ASSUME Init PROVE Inv
  OBVIOUS
<1>1. HistoriesTyped
  BY NoHistory DEF Init, HistoriesTyped
<1>2. ControlTyped
  BY DEF Init, ControlTyped
<1>3. ViewTyped /\ BoundsTyped
  <2>1. ViewTyped
    BY DEF Init, ViewTyped
  <2>2. sent = 0 /\ started = 0 /\ failed = 0
    BY DEF Init
  <2> QED
    BY <2>1, <2>2, BoundAssumption DEF BoundsTyped
<1>4. QuestionsAreDistinct
  <2>1. \A h \in Histories : h = <<>>
    BY DEF Init, Histories
  <2> QED
    BY <2>1, NoHistory DEF QuestionsAreDistinct
<1>5. DownIsBlank /\ StartedInOrder /\ StreamsAreServed /\ NoPageNoView
  BY DEF Init, DownIsBlank, StartedInOrder, StreamsAreServed, NoPageNoView
<1> QED
  BY <1>1, <1>2, <1>3, <1>4, <1>5, TypeParts DEF Inv

LEMMA StutterKeepsInv ==
    ASSUME Inv, UNCHANGED vars
    PROVE  Inv'
<1>0. UNCHANGED <<disk, memory>>
  BY DEF vars, process
<1>1. HistoriesTyped' /\ QuestionsAreDistinct'
  BY <1>0, UntouchedHistories
<1>2. ControlTyped' /\ BoundsTyped' /\ ViewTyped'
  BY TypeParts DEF Inv, ControlTyped, BoundsTyped, ViewTyped, vars, process, pages, bounds, failures
<1>3. DownIsBlank' /\ StartedInOrder' /\ StreamsAreServed' /\ NoPageNoView'
  BY DEF Inv, DownIsBlank, StartedInOrder, StreamsAreServed, NoPageNoView,
         vars, process, pages, bounds, failures
<1> QED
  BY <1>1, <1>2, <1>3, InvNext

LEMMA InvHolds == Spec => []Inv
<1>1. Inv /\ [Next]_vars => Inv'
  BY NextIs, ProcessKeepsInv, PageKeepsInv, StutterKeepsInv
<1> QED
  BY <1>1, InitInv, PTL DEF Spec

-----------------------------------------------------------------------------
\* Histories that cover each other.
LEMMA CoversItself == \A h : Covers(h, h)
  BY DEF Covers

LEMMA CoversAsked ==
    ASSUME NEW d, NEW h, Covers(d, h)
    PROVE  Asked(h) \subseteq Asked(d)
  BY DEF Covers, Asked

LEMMA CoversUnfinished ==
    ASSUME NEW d, NEW h \in History, NEW g, Covers(d, h),
           DOMAIN g = DOMAIN h, \A i \in DOMAIN h : g[i].req = h[i].req,
           \A i \in DOMAIN h : i # Len(h) => g[i] = h[i],
           g[Len(h)].status # "complete"
    PROVE  Covers(d, g)
  BY DEF Covers

LEMMA CoversSetLast ==
    ASSUME NEW d, NEW h \in History, h # <<>>, Covers(d, h),
           NEW status \in Statuses, NEW text \in Texts, status # "complete"
    PROVE  Covers(d, SetLast(h, status, text))
  BY SetLastFacts, CoversUnfinished

LEMMA CoversAppend ==
    ASSUME NEW h \in History, NEW r \in Requests
    PROVE  Covers(Append(h, NewReply(r)), h)
<1>1. Len(h) \in Nat /\ DOMAIN h = 1..Len(h)
  BY HistoryShape
<1> QED
  BY <1>1, AppendFacts DEF Covers

-----------------------------------------------------------------------------
\* Until a worker outlives its close the owner of the lock is the only one that writes.
LEMMA OwnerKeepsOwned ==
    ASSUME Inv, Owned, NEW p \in Procs, lock = p, lock' = p, Others(p),
           stage'[p] \in {"up", "closing"}, disk' # None,
           Covers(disk', memory'[p]), accepted' \subseteq Asked(memory'[p])
    PROVE  Owned'
<1>1. p # None
  BY NoneAssumption
<1>2. ASSUME NEW q \in Procs \ {p}
      PROVE  /\ lock' # q /\ stage'[q] \notin {"up", "closing"}
             /\ stage'[q] = "released" => worker'[q] = "none"
  BY <1>2 DEF Owned, Others
<1> QED
  BY <1>1, <1>2 DEF Owned, Covers, Asked

LEMMA OwnerLeaves ==
    ASSUME Inv, Owned, NEW p \in Procs, lock = p, lock' = None, Others(p),
           stage'[p] \in {"down", "released"}, stage'[p] = "released" => worker'[p] = "none",
           UNCHANGED <<disk, accepted>>
    PROVE  Owned'
<1>1. None \notin Procs
  BY NoneAssumption
<1>2. accepted \subseteq Asked(disk) /\ disk # None
  BY CoversAsked DEF Owned
<1>3. AcceptedIsDurable'
  BY <1>2 DEF AcceptedIsDurable, Asked
<1>4. ASSUME NEW q \in Procs \ {p}
      PROVE  /\ stage'[q] \notin {"up", "closing"}
             /\ stage'[q] = "released" => worker'[q] = "none"
  BY <1>4 DEF Owned, Others
<1> QED
  BY <1>1, <1>3, <1>4 DEF Owned

\* A process that is not the owner does nothing that shows.
LEMMA BystanderKeepsOwned ==
    ASSUME Inv, Owned, NEW p \in Procs, lock # p, Others(p),
           stage'[p] \in {"down", "released"}, stage'[p] = "released" => worker'[p] = "none",
           UNCHANGED <<disk, accepted, lock>>
    PROVE  Owned'
<1>1. ASSUME NEW q \in Procs
      PROVE  /\ lock = q <=> stage'[q] \in {"up", "closing"}
             /\ stage'[q] = "released" => worker'[q] = "none"
             /\ lock = q => disk # None /\ Covers(disk, memory'[q]) /\ accepted \subseteq Asked(memory'[q])
  BY <1>1 DEF Owned, Others
<1>2. lock = None => AcceptedIsDurable'
  BY DEF Owned, AcceptedIsDurable, Asked
<1> QED
  BY <1>1, <1>2 DEF Owned, Covers, Asked

LEMMA StartOwned ==
    ASSUME Inv, Owned, NEW p \in Procs, NEW outcome \in SaveOutcome, Start(p, outcome), Others(p)
    PROVE  Owned'
<1>0. None \notin Procs /\ lock = None /\ accepted' = accepted
  BY NoneAssumption DEF Start, LockIsFree
<1>1. /\ Loaded \in History /\ Loaded # None /\ accepted \subseteq Asked(Loaded)
      /\ disk # None => Asked(Loaded) = Asked(disk)
      /\ Loaded = disk => disk # None
  BY <1>0, LoadedFacts, NoneAssumption DEF Owned, AcceptedIsDurable
<1>2. \A q \in Procs : stage[q] \notin {"up", "closing"}
  BY <1>0 DEF Owned
<1>3. CASE outcome = "saved"
  <2>1. disk' = Loaded /\ memory'[p] = Loaded /\ lock' = p /\ stage'[p] = "up"
    BY <1>3 DEF Start, Save, Loaded, Inv, TypeOK
  <2>2. ASSUME NEW q \in Procs \ {p}
        PROVE  /\ lock' # q /\ stage'[q] \notin {"up", "closing"}
               /\ stage'[q] = "released" => worker'[q] = "none"
    BY <1>2, <2>1, <2>2 DEF Owned, Others
  <2>3. Covers(disk', memory'[p]) /\ accepted' \subseteq Asked(memory'[p]) /\ disk' # None
    BY <1>0, <1>1, <2>1, CoversItself
  <2> QED
    BY <1>0, <2>1, <2>2, <2>3 DEF Owned, Covers, Asked
<1>4. CASE outcome # "saved"
  <2>1. disk' \in {disk, Loaded} /\ UNCHANGED <<lock, stage, worker>>
    BY <1>4 DEF Start, Save, Loaded
  <2>2. disk' = disk => AcceptedIsDurable'
    BY <1>0 DEF Owned, AcceptedIsDurable, Asked
  <2>3. disk' = Loaded => AcceptedIsDurable'
    BY <1>0, <1>1 DEF AcceptedIsDurable, Asked
  <2> QED
    BY <1>0, <1>2, <2>1, <2>2, <2>3 DEF Owned
<1> QED
  BY <1>3, <1>4

LEMMA SubmitOwned ==
    ASSUME Inv, Owned, NEW p \in Procs, NEW r \in Requests, NEW outcome \in SaveOutcome,
           Submit(p, r, outcome), Others(p)
    PROVE  Owned'
<1> DEFINE after == Append(memory[p], NewReply(r))
<1>1. /\ stage[p] = "up" /\ lock = p /\ disk # None /\ Covers(disk, memory[p])
      /\ accepted \subseteq Asked(memory[p])
  BY DEF Submit, Owned
<1>2. memory[p] \in History /\ after \in History /\ after # None
  <2>1. memory[p] \in History
    BY MemoryIsDistinct
  <2> QED
    BY <2>1, AppendFacts, NoneAssumption
<1>3. Covers(after, memory[p]) /\ Asked(after) = Asked(memory[p]) \cup {r}
  BY <1>2, CoversAppend, NewQuestion, MemoryIsDistinct DEF Submit
<1>4. /\ Save(after, outcome) /\ UNCHANGED <<lock, stage>>
      /\ memory' = [memory EXCEPT ![p] = AfterAdd(memory[p], after, outcome)]
      /\ accepted' = IF outcome = "saved" THEN accepted \cup {r} ELSE accepted
  BY DEF Submit, NewReply
<1> HIDE DEF after
<1>5. memory'[p] = IF outcome = "saved" THEN after ELSE memory[p]
  BY <1>4 DEF AfterAdd, Inv, TypeOK
<1>6. disk' = IF outcome = "kept" THEN disk ELSE after
  BY <1>4 DEF Save
<1>7. disk' # None /\ Covers(disk', memory'[p]) /\ accepted' \subseteq Asked(memory'[p])
  BY <1>1, <1>2, <1>3, <1>4, <1>5, <1>6, CoversItself
<1> QED
  BY <1>1, <1>4, <1>7, OwnerKeepsOwned

LEMMA RetryOwned ==
    ASSUME Inv, Owned, NEW p \in Procs, NEW r \in Requests, NEW outcome \in SaveOutcome,
           Retry(p, r, outcome), Others(p)
    PROVE  Owned'
<1> DEFINE h == SetLast(memory[p], "pending", "")
<1>1. /\ stage[p] = "up" /\ lock = p /\ disk # None /\ Covers(disk, memory[p])
      /\ accepted \subseteq Asked(memory[p]) /\ accepted' = accepted /\ UNCHANGED <<lock, stage>>
  BY DEF Retry, Owned
<1>2. memory[p] \in History /\ Distinct(memory[p]) /\ memory[p] # <<>>
  BY MemoryIsDistinct DEF Retry, LatestIs
<1>3. "pending" \in Statuses /\ "" \in Texts
  BY DEF Statuses, Texts
<1>4. h \in History /\ h # None /\ Asked(h) = Asked(memory[p]) /\ Covers(disk, h)
  BY <1>1, <1>2, <1>3, SetLastDistinct, CoversSetLast, NoneAssumption
<1>5. memory'[p] = h /\ (disk' = disk \/ disk' = h)
  BY DEF Retry, Save, Inv, TypeOK
<1> HIDE DEF h
<1>6. disk' # None /\ Covers(disk', memory'[p]) /\ accepted' \subseteq Asked(memory'[p])
  BY <1>1, <1>4, <1>5, CoversItself
<1> QED
  BY <1>1, <1>6, OwnerKeepsOwned

LEMMA FinishOwned ==
    ASSUME Inv, Owned, NEW p \in Procs, NEW outcome \in SaveOutcome,
           Finish(p, outcome), lock = p, Others(p)
    PROVE  Owned'
<1>1. /\ stage[p] \in {"up", "closing"} /\ disk # None /\ Covers(disk, memory[p])
      /\ accepted \subseteq Asked(memory[p]) /\ accepted' = accepted /\ UNCHANGED <<lock, stage>>
  BY DEF Finish, Owned
<1>2. CASE ~LatestIs(memory[p], active[p])
  <2>1. UNCHANGED <<disk, memory>>
    BY <1>2 DEF Finish
  <2> QED
    BY <1>1, <2>1, OwnerKeepsOwned
<1>3. CASE LatestIs(memory[p], active[p])
  <2> DEFINE f == Finished(p)
             g == SetLast(f, "error", AnswerText(p))
  <2>1. /\ memory[p] \in History /\ memory[p] # <<>> /\ AnswerText(p) \in Texts
        /\ worker[p] \in Statuses
        /\ f \in History /\ Distinct(f) /\ f # <<>> /\ Asked(f) = Asked(memory[p])
    BY <1>3, FinishedFacts DEF Finish
  <2>2. "error" \in Statuses
    BY DEF Statuses, Settled
  <2>3. g \in History /\ Asked(g) = Asked(f) /\ Covers(f, g)
    BY <2>1, <2>2, SetLastDistinct, CoversSetLast, CoversItself
  <2>4. Covers(disk, g)
    <3>1. /\ DOMAIN f = DOMAIN memory[p] /\ Len(f) = Len(memory[p])
          /\ \A i \in DOMAIN memory[p] : f[i].req = memory[p][i].req
          /\ \A i \in DOMAIN memory[p] : i # Len(memory[p]) => f[i] = memory[p][i]
      BY <2>1, SetLastFacts DEF Finished
    <3>2. /\ DOMAIN g = DOMAIN f /\ g[Len(f)].status = "error"
          /\ \A i \in DOMAIN f : g[i].req = f[i].req
          /\ \A i \in DOMAIN f : i # Len(f) => g[i] = f[i]
      BY <2>1, <2>2, SetLastFacts
    <3> HIDE DEF f, g
    <3> QED
      BY <1>1, <2>1, <3>1, <3>2, CoversUnfinished
  <2>5. /\ Save(f, outcome)
        /\ memory' = [memory EXCEPT ![p] = AfterFinish(f, AnswerText(p), outcome)]
    BY <1>3 DEF Finish, Finished, AnswerText
  <2> HIDE DEF f
  <2>6. /\ memory'[p] = IF outcome = "saved" THEN f ELSE g
        /\ disk' = IF outcome = "kept" THEN disk ELSE f
    BY <2>5 DEF AfterFinish, Save, Inv, TypeOK
  <2> HIDE DEF g
  <2>7. disk' # None /\ Covers(disk', memory'[p]) /\ accepted' \subseteq Asked(memory'[p])
    BY <1>1, <2>1, <2>3, <2>4, <2>6, CoversItself, NoneAssumption
  <2> QED
    BY <1>1, <2>7, OwnerKeepsOwned
<1> QED
  BY <1>2, <1>3

LEMMA ProcessKeepsOwned ==
    ASSUME ~outlived', Inv, Owned, NEW p \in Procs, ProcessStep(p)
    PROVE  Owned'
<1>0. /\ Others(p) /\ ControlTyped'
      /\ stage[p] \in {"down", "up", "closing", "released"}
      /\ lock = p <=> stage[p] \in {"up", "closing"}
      /\ lock = p => disk # None /\ Covers(disk, memory[p]) /\ accepted \subseteq Asked(memory[p])
      /\ worker[p] # "none" => lock = p
      /\ stage[p] = "released" => worker[p] = "none"
  <2>1. worker[p] # "none" => stage[p] # "down" /\ stage[p] # "released"
    BY DEF Inv, DownIsBlank, Owned
  <2> QED
    BY <2>1, ActsAlone, ProcessControlTyped DEF Inv, TypeOK, Owned
<1>1. ASSUME lock = p, UNCHANGED <<disk, lock, memory>>, stage'[p] \in {"up", "closing"},
             accepted' \subseteq Asked(memory[p])
      PROVE  Owned'
  BY <1>0, <1>1, OwnerKeepsOwned
<1>2. ASSUME NEW r \in Requests, SubmitAgain(p, r)
      PROVE  Owned'
  <2>1. r \in Asked(memory[p]) /\ accepted' = accepted \cup {r} /\ UNCHANGED <<disk, lock, stage, memory>>
    BY <1>2 DEF SubmitAgain, Known
  <2> QED
    BY <1>0, <1>1, <1>2, <2>1 DEF SubmitAgain
<1>3. ASSUME Stop(p)
      PROVE  Owned'
  <2>1. UNCHANGED <<disk, lock, stage, memory, accepted, worker>>
    BY <1>3 DEF Stop
  <2>2. CASE lock = p
    BY <1>0, <1>1, <2>1, <2>2
  <2>3. CASE lock # p
    BY <1>0, <1>3, <2>1, <2>3, BystanderKeepsOwned DEF Stop
  <2> QED
    BY <2>2, <2>3
<1>4. ASSUME Update(p) \/ (\E outcome \in Settled : HostEnds(p, outcome))
      PROVE  Owned'
  <2>1. UNCHANGED <<disk, lock, stage, memory, accepted>> /\ worker[p] # "none"
    BY <1>4 DEF Update, HostEnds
  <2> QED
    BY <1>0, <1>1, <2>1
<1>5. ASSUME NEW outcome \in SaveOutcome, Finish(p, outcome)
      PROVE  Owned'
  <2>1. worker[p] # "none"
    BY <1>5 DEF Finish, Settled
  <2> QED
    BY <1>0, <1>5, <2>1, FinishOwned
<1>6. ASSUME Close(p)
      PROVE  Owned'
  <2>1. UNCHANGED <<disk, lock, memory, accepted>> /\ stage[p] = "up" /\ stage'[p] = "closing"
    BY <1>6 DEF Close, Inv, TypeOK
  <2> QED
    BY <1>0, <1>1, <2>1
<1>7. ASSUME ReleaseLock(p)
      PROVE  Owned'
  <2>1. /\ UNCHANGED <<disk, accepted, worker>> /\ stage[p] = "closing" /\ worker[p] = "none"
        /\ stage'[p] = "released" /\ lock' = None
    BY <1>7 DEF ReleaseLock, Inv, TypeOK
  <2> QED
    BY <1>0, <2>1, OwnerLeaves
<1>8. ASSUME Gone(p)
      PROVE  Owned'
  <2>1. /\ UNCHANGED <<disk, accepted>> /\ stage'[p] = "down" /\ worker'[p] = "none"
        /\ lock' = IF lock = p THEN None ELSE lock
    BY <1>8 DEF Gone, Inv, TypeOK
  <2>2. CASE lock = p
    BY <1>0, <2>1, <2>2, OwnerLeaves
  <2>3. CASE lock # p
    BY <1>0, <2>1, <2>3, BystanderKeepsOwned
  <2> QED
    BY <2>2, <2>3
<1> QED
  BY <1>0, <1>2, <1>3, <1>4, <1>5, <1>6, <1>7, <1>8, StartOwned, SubmitOwned, RetryOwned
     DEF ProcessStep, Exit, Crash

LEMMA OwnedStays ==
    ASSUME Owned, UNCHANGED <<disk, lock, process, accepted>>
    PROVE  Owned'
  BY DEF Owned, Covers, Asked, AcceptedIsDurable, process

LEMMA OutlivedStays ==
    ASSUME NEW p \in Procs, ProcessStep(p), ~outlived'
    PROVE  ~outlived
  BY DEF ProcessStep, Start, Submit, Retry, Finish, SubmitAgain, Stop, Update, HostEnds,
         Close, ReleaseLock, Exit, Crash, Gone, failures

OwnedYet == ~outlived => Owned

LEMMA OwnedHolds == Spec => [](Inv /\ OwnedYet)
<1>1. Init => Inv /\ OwnedYet
  <2>1. Init => Owned
    BY NoneAssumption DEF Init, Owned, AcceptedIsDurable
  <2> QED
    BY <2>1, InitInv DEF OwnedYet
<1>2. Inv /\ OwnedYet /\ [Next]_vars => (Inv /\ OwnedYet)'
  <2> SUFFICES ASSUME Inv, OwnedYet, [Next]_vars
               PROVE  (Inv /\ OwnedYet)'
    OBVIOUS
  <2>1. ASSUME NEW p \in Procs, ProcessStep(p)
        PROVE  (Inv /\ OwnedYet)'
    BY <2>1, ProcessKeepsInv, ProcessKeepsOwned, OutlivedStays DEF OwnedYet
  <2>2. ASSUME NEW c \in Pages, PageStep(c)
        PROVE  (Inv /\ OwnedYet)'
    BY <2>2, PageKeepsInv, OwnedStays DEF OwnedYet, failures
  <2>3. CASE UNCHANGED vars
    <3>1. UNCHANGED <<disk, lock, process, accepted, outlived>>
      BY <2>3 DEF vars, failures
    <3> QED
      BY <2>3, <3>1, StutterKeepsInv, OwnedStays DEF OwnedYet
  <2> QED
    BY <2>1, <2>2, <2>3, NextIs
<1> QED
  BY <1>1, <1>2, PTL DEF Spec

LEMMA OwnedMeans ==
    ASSUME Inv, OwnedYet
    PROVE  HistoryIsKept /\ LockFencesOthers
<1>0. SUFFICES ASSUME ~outlived
               PROVE  HistoryIsKept /\ LockFencesOthers
  BY DEF Inv, QuestionsAreDistinct, Histories, Distinct, HistoryIsKept, NoQuestionTwice,
         LockFencesOthers
<1> USE <1>0 DEF OwnedYet
<1>1. TypeOK /\ NoQuestionTwice
  BY DEF Inv, QuestionsAreDistinct, Histories, Distinct, NoQuestionTwice
<1>2. AcceptedIsDurable
  <2>1. CASE lock = None
    BY <2>1 DEF Owned
  <2>2. CASE lock # None
    <3>1. lock \in Procs
      BY <2>2 DEF Inv, TypeOK
    <3>2. disk # None /\ Covers(disk, memory[lock]) /\ accepted \subseteq Asked(memory[lock])
      BY <3>1 DEF Owned
    <3> QED
      BY <3>2, CoversAsked DEF AcceptedIsDurable
  <2> QED
    BY <2>1, <2>2
<1>3. ASSUME NEW p \in Procs, stage[p] = "up"
      PROVE  disk # None /\ Covers(disk, memory[p])
  BY <1>3 DEF Owned
<1>4. CompleteIsSaved
  BY <1>3 DEF CompleteIsSaved, Covers
<1>5. LockFencesOthers
  BY <1>3, CoversAsked DEF LockFencesOthers
<1> QED
  BY <1>1, <1>2, <1>4, <1>5 DEF HistoryIsKept

\* Whatever save fails, whoever crashes and whatever is delivered again: a question
\* stays one and, until a worker outlives its close, what a page was told is accepted
\* is in the file, and so is every answer shown as complete (ChatStore, _answer).
THEOREM HistorySurvives == Spec => []HistoryIsKept
  BY OwnedHolds, OwnedMeans, PTL

\* And no other process changes the file of the one that owns the chat: the only way
\* past the file lock is a worker that outlives its close (ChatStore.__init__, close).
THEOREM TheLockFences == Spec => []LockFencesOthers
  BY OwnedHolds, OwnedMeans, PTL

\* However late a worker ends, no history, in memory or in the file, has a question
\* twice, and every history is well formed (ChatStore.add, _validate).
THEOREM QuestionsAreAskedOnce == Spec => [](TypeOK /\ NoQuestionTwice)
<1>1. Inv => TypeOK /\ NoQuestionTwice
  BY DEF Inv, QuestionsAreDistinct, Histories, Distinct, NoQuestionTwice
<1> QED
  BY <1>1, InvHolds, PTL

-----------------------------------------------------------------------------
\* A pending reply has a worker, or its retry could not be saved.
LEMMA NoneIsNotAsked ==
    ASSUME NEW h \in History
    PROVE  \A i \in DOMAIN h : h[i].req # None
<1>1. ASSUME NEW i \in DOMAIN h
      PROVE  h[i].req # None
  <2>1. h[i] \in Reply
    BY HistoryShape
  <2> QED
    BY <2>1, NoneAssumption DEF Reply
<1> QED
  BY <1>1

LEMMA NothingPending ==
    ASSUME NEW h \in History, \A i \in DOMAIN h : h[i].status # "pending"
    PROVE  AttendedBy(h, None, {})
  BY NoneIsNotAsked DEF AttendedBy

LEMMA NotAnswering ==
    ASSUME NEW h \in History, NEW u, AttendedBy(h, None, u), NEW i \in DOMAIN h
    PROVE  h[i].status = "pending" <=> h[i].req \in u
<1>1. h[i] \in Reply
  BY HistoryShape
<1> QED
  BY <1>1, NoneAssumption DEF AttendedBy, Reply

LEMMA OthersAttended ==
    ASSUME Attended, NEW p \in Procs, Others(p),
           AttendedBy(memory'[p], active'[p], unsaved'[p])
    PROVE  Attended'
<1>1. \A q \in Procs : AttendedBy(memory'[q], active'[q], unsaved'[q])
  BY DEF Attended, Others
<1> QED
  BY <1>1 DEF Attended, AttendedBy, LatestIs, Latest

\* All but the last are as before, and the last is pending for r.
LEMMA LastPending ==
    ASSUME NEW h \in History, NEW r \in Requests, NEW u, h # <<>>, Distinct(h),
           Latest(h).req = r, Latest(h).status = "pending",
           \A i \in DOMAIN h : i # Len(h) => (h[i].status = "pending" <=> h[i].req \in u)
    PROVE  AttendedBy(h, r, u) /\ AttendedBy(h, None, u \cup {r})
<1>1. Len(h) \in DOMAIN h /\ None # r
  BY HistoryShape, NoneAssumption
<1>2. \A i \in DOMAIN h : i # Len(h) => h[i].req # r
  BY <1>1 DEF Distinct, Latest
<1>3. \A i \in DOMAIN h : h[i].req # None
  BY NoneIsNotAsked
<1>4. AttendedBy(h, r, u)
  BY <1>1, <1>2 DEF AttendedBy, Latest, LatestIs
<1>5. AttendedBy(h, None, u \cup {r})
  BY <1>1, <1>2, <1>3 DEF AttendedBy, Latest
<1> QED
  BY <1>4, <1>5

LEMMA SubmitAttended ==
    ASSUME Inv, Attended, NEW p \in Procs, NEW r \in Requests, NEW outcome \in SaveOutcome,
           Submit(p, r, outcome), Others(p)
    PROVE  Attended'
<1> DEFINE after == Append(memory[p], NewReply(r))
           u == unsaved[p]
<1>1. /\ memory[p] \in History /\ Distinct(memory[p]) /\ active[p] = None /\ ~Known(memory[p], r)
      /\ AttendedBy(memory[p], None, u) /\ p \in DOMAIN memory /\ p \in DOMAIN active
  BY MemoryIsDistinct DEF Submit, Attended, Inv, TypeOK
<1>2. /\ memory' = [memory EXCEPT ![p] = AfterAdd(memory[p], after, outcome)]
      /\ unsaved'[p] = u
  BY DEF Submit, NewReply, failures
<1>3. CASE outcome = "saved"
  <2>1. /\ after \in History /\ Distinct(after) /\ Len(after) = Len(memory[p]) + 1
        /\ Len(memory[p]) \in Nat /\ DOMAIN memory[p] = 1..Len(memory[p])
        /\ DOMAIN after = 1..Len(memory[p]) + 1
        /\ \A i \in DOMAIN memory[p] : after[i] = memory[p][i]
        /\ after[Len(memory[p]) + 1] = NewReply(r)
    BY <1>1, AppendFacts, NewQuestion, HistoryShape
  <2>2. NewReply(r).req = r /\ NewReply(r).status = "pending"
    BY DEF NewReply
  <2>3. memory'[p] = after /\ active'[p] = r
    BY <1>1, <1>2, <1>3 DEF AfterAdd, Submit, Begin
  <2> HIDE DEF after, u
  <2>4. after # <<>>
    BY <2>1, EmptySeq
  <2>5. \A i \in DOMAIN after : i # Len(after) => (after[i].status = "pending" <=> after[i].req \in u)
    BY <1>1, <2>1, NotAnswering
  <2>6. AttendedBy(after, r, u)
    BY <2>1, <2>2, <2>4, <2>5, LastPending DEF Latest
  <2> QED
    BY <1>2, <2>3, <2>6, OthersAttended
<1>4. CASE outcome # "saved"
  <2>1. memory'[p] = memory[p] /\ active'[p] = None
    BY <1>1, <1>2, <1>4 DEF AfterAdd, Submit, NoBegin
  <2> QED
    BY <1>1, <1>2, <2>1, OthersAttended
<1> QED
  BY <1>3, <1>4

LEMMA RetryAttended ==
    ASSUME Inv, Attended, NEW p \in Procs, NEW r \in Requests, NEW outcome \in SaveOutcome,
           Retry(p, r, outcome), Others(p)
    PROVE  Attended'
<1> DEFINE m == memory[p]
           h == SetLast(m, "pending", "")
           u == unsaved[p]
<1>1. /\ m \in History /\ Distinct(m) /\ m # <<>> /\ active[p] = None /\ Latest(m).req = r
      /\ AttendedBy(m, None, u)
  BY MemoryIsDistinct DEF Retry, Attended, LatestIs
<1>2. "pending" \in Statuses /\ "" \in Texts
  BY DEF Statuses, Texts
<1>3. /\ memory'[p] = h
      /\ outcome = "saved" => active'[p] = r /\ unsaved'[p] = u
      /\ outcome # "saved" => active'[p] = None /\ unsaved'[p] = u \cup {r}
  BY <1>1 DEF Retry, Begin, NoBegin, Inv, TypeOK
<1> HIDE DEF m, u
<1>4. /\ h \in History /\ Len(h) = Len(m) /\ DOMAIN h = DOMAIN m /\ Distinct(h)
      /\ \A i \in DOMAIN m : h[i].req = m[i].req
      /\ \A i \in DOMAIN m : i # Len(m) => h[i] = m[i]
      /\ h[Len(m)].status = "pending" /\ Len(m) \in DOMAIN m
  <2>1. h \in History /\ Distinct(h)
    BY <1>1, <1>2, SetLastDistinct
  <2>2. Len(m) \in DOMAIN m
    BY <1>1, HistoryShape
  <2> QED
    BY <1>1, <1>2, <2>1, <2>2, SetLastFacts, ZenonT(60)
<1> HIDE DEF h
<1>5. h # <<>> /\ Latest(h).req = r /\ Latest(h).status = "pending"
  BY <1>1, <1>4, NoHistory DEF Latest
<1>6. \A i \in DOMAIN h : i # Len(h) => (h[i].status = "pending" <=> h[i].req \in u)
  BY <1>1, <1>4, NotAnswering
<1>7. AttendedBy(h, r, u) /\ AttendedBy(h, None, u \cup {r})
  BY <1>4, <1>5, <1>6, LastPending
<1> QED
  BY <1>3, <1>7, OthersAttended

\* The last reply, for r, is settled, and all others are as before.
LEMMA LastSettled ==
    ASSUME NEW m \in History, m # <<>>, Distinct(m), NEW r \in Requests, NEW u,
           AttendedBy(m, r, u), Latest(m).req = r,
           NEW h \in History, DOMAIN h = DOMAIN m, h[Len(m)].status # "pending",
           \A i \in DOMAIN m : h[i].req = m[i].req,
           \A i \in DOMAIN m : i # Len(m) => h[i] = m[i]
    PROVE  AttendedBy(h, None, u \ {r})
<1>1. Len(m) \in DOMAIN m /\ m[Len(m)].req = r
  BY HistoryShape DEF Latest
<1>2. \A i \in DOMAIN m : i # Len(m) => m[i].req # r
  BY <1>1 DEF Distinct
<1>3. \A i \in DOMAIN h : h[i].req # None
  BY NoneIsNotAsked
<1> QED
  BY <1>1, <1>2, <1>3 DEF AttendedBy

LEMMA FinishAttended ==
    ASSUME Inv, Attended, NEW p \in Procs, NEW outcome \in SaveOutcome,
           Finish(p, outcome), Others(p)
    PROVE  Attended'
<1> DEFINE m == memory[p]
           r == active[p]
           u == unsaved[p]
<1>1. /\ m \in History /\ AttendedBy(m, r, u) /\ active'[p] = None
      /\ r \in Requests \cup {None} /\ None \notin Requests
  BY NoneAssumption DEF Finish, Rest, Attended, Inv, TypeOK
<1>2. CASE LatestIs(m, r)
  <2> DEFINE f == Finished(p)
             g == SetLast(f, "error", AnswerText(p))
  <2>1. /\ m # <<>> /\ worker[p] \in Statuses /\ AnswerText(p) \in Texts /\ Distinct(m)
        /\ f \in History /\ f # <<>> /\ worker[p] # "pending"
    BY <1>2, FinishedFacts DEF Finish, Settled
  <2>2. "error" \in Statuses /\ Latest(m).req = r /\ Len(m) \in DOMAIN m /\ r \in Requests
    <3>1. m[Len(m)] \in Reply
      BY <1>1, <2>1, HistoryShape
    <3> QED
      BY <1>1, <1>2, <2>1, <3>1, HistoryShape DEF Statuses, Settled, LatestIs, Latest, Reply
  <2>3. /\ DOMAIN f = DOMAIN m /\ Len(f) = Len(m) /\ f[Len(m)].status = worker[p]
        /\ \A i \in DOMAIN m : f[i].req = m[i].req
        /\ \A i \in DOMAIN m : i # Len(m) => f[i] = m[i]
    BY <1>1, <2>1, SetLastFacts DEF Finished
  <2>4. /\ g \in History /\ DOMAIN g = DOMAIN f /\ g[Len(f)].status = "error"
        /\ \A i \in DOMAIN f : g[i].req = f[i].req
        /\ \A i \in DOMAIN f : i # Len(f) => g[i] = f[i]
    BY <2>1, <2>2, SetLastFacts
  <2>5. /\ memory' = [memory EXCEPT ![p] = AfterFinish(f, AnswerText(p), outcome)]
        /\ unsaved' = [unsaved EXCEPT ![p] = @ \ {r}]
    BY <1>2 DEF Finish, Finished, AnswerText
  <2> HIDE DEF f
  <2>6. (memory'[p] = f \/ memory'[p] = g) /\ unsaved'[p] = u \ {r}
    BY <2>5 DEF AfterFinish, Inv, TypeOK
  <2> HIDE DEF g, m, r, u
  <2>7. AttendedBy(f, None, u \ {r})
    BY <1>1, <2>1, <2>2, <2>3, LastSettled
  <2>8. AttendedBy(g, None, u \ {r})
    BY <1>1, <2>1, <2>2, <2>3, <2>4, LastSettled
  <2> QED
    BY <1>1, <2>6, <2>7, <2>8, OthersAttended
<1>3. CASE ~LatestIs(m, r)
  <2>1. memory'[p] = m /\ unsaved'[p] = u
    BY <1>3 DEF Finish
  <2>2. AttendedBy(m, None, u)
    <3>1. r = None \/ r \in u
      BY <1>1, <1>3 DEF AttendedBy
    <3>2. \A i \in DOMAIN m : m[i].req # None
      BY <1>1, NoneIsNotAsked
    <3> QED
      BY <1>1, <3>1, <3>2 DEF AttendedBy
  <2> QED
    BY <1>1, <2>1, <2>2, OthersAttended
<1> QED
  BY <1>2, <1>3

LEMMA ProcessKeepsAttended ==
    ASSUME Inv, Attended, NEW p \in Procs, ProcessStep(p)
    PROVE  Attended'
<1>0. /\ Others(p) /\ AttendedBy(memory[p], active[p], unsaved[p]) /\ memory[p] \in History
      /\ unsaved[p] \in SUBSET Requests
  BY ActsAlone, MemoryIsDistinct DEF Attended, Inv, TypeOK
<1>1. ASSUME UNCHANGED <<memory, active, unsaved>>
      PROVE  Attended'
  BY <1>0, <1>1, OthersAttended
<1>2. ASSUME NEW outcome \in SaveOutcome, Start(p, outcome)
      PROVE  Attended'
  <2>1. memory' = memory \/ memory' = [memory EXCEPT ![p] = Loaded]
    BY <1>2 DEF Start, Loaded
  <2>2. UNCHANGED <<active, unsaved>>
    BY <1>2 DEF Start, failures
  <2>3. CASE memory' = memory
    BY <1>1, <2>2, <2>3
  <2>4. CASE memory' = [memory EXCEPT ![p] = Loaded]
    <3>1. active[p] = None /\ unsaved[p] = {}
      <4>1. stage[p] = "down"
        BY <1>2, StartsWhenDown
      <4> QED
        BY <4>1 DEF Inv, DownIsBlank
    <3>2. memory'[p] = Loaded
      BY <2>4 DEF Inv, TypeOK
    <3>3. AttendedBy(Loaded, None, {})
      BY LoadedFacts, NothingPending
    <3> QED
      BY <1>0, <2>2, <3>1, <3>2, <3>3, OthersAttended
  <2> QED
    BY <2>1, <2>3, <2>4
<1>3. ASSUME NEW r \in Requests, SubmitAgain(p, r)
      PROVE  Attended'
  <2> DEFINE again == active[p] = None
                      /\ \E i \in DOMAIN memory[p] :
                            memory[p][i].req = r /\ memory[p][i].status = "pending"
  <2>1. CASE again
    <3>1. r \in unsaved[p] /\ AttendedBy(memory[p], None, unsaved[p])
      BY <1>0, <2>1, NotAnswering
    <3>2. \A i \in DOMAIN memory[p] : memory[p][i].req # None
      BY <1>0, NoneIsNotAsked
    <3>3. AttendedBy(memory[p], r, unsaved[p])
      BY <3>1, <3>2 DEF AttendedBy
    <3>4. UNCHANGED <<memory, unsaved>> /\ active'[p] = r
      BY <1>3, <2>1 DEF SubmitAgain, Begin, failures, Inv, TypeOK
    <3> QED
      BY <1>0, <3>3, <3>4, OthersAttended
  <2>2. CASE ~again
    BY <1>1, <1>3, <2>2 DEF SubmitAgain, NoBegin, failures
  <2> QED
    BY <2>1, <2>2
<1>4. ASSUME \/ Stop(p) \/ Update(p) \/ (\E outcome \in Settled : HostEnds(p, outcome))
             \/ Close(p) \/ ReleaseLock(p)
      PROVE  Attended'
  BY <1>1, <1>4 DEF Stop, Update, HostEnds, Close, ReleaseLock, failures
<1>5. ASSUME Gone(p)
      PROVE  Attended'
  <2>1. memory'[p] = <<>> /\ active'[p] = None /\ unsaved'[p] = {}
    BY <1>5 DEF Gone, Inv, TypeOK
  <2> QED
    BY <1>0, <2>1, NoHistory, NothingPending, OthersAttended
<1> QED
  BY <1>0, <1>2, <1>3, <1>4, <1>5, SubmitAttended, RetryAttended, FinishAttended
     DEF ProcessStep, Exit, Crash

LEMMA AttendedHolds == Spec => []Attended
<1>1. Init => Inv /\ Attended
  <2>1. Init => Attended
    <3>1. AttendedBy(<<>>, None, {})
      BY NoHistory, NothingPending
    <3> QED
      BY <3>1 DEF Init, Attended
  <2> QED
    BY <2>1, InitInv
<1>2. ASSUME Inv, Attended, UNCHANGED <<memory, active, unsaved>>
      PROVE  Attended'
  BY <1>2 DEF Attended, AttendedBy, LatestIs, Latest
<1>3. Inv /\ Attended /\ [Next]_vars => (Inv /\ Attended)'
  <2> SUFFICES ASSUME Inv, Attended, [Next]_vars
               PROVE  (Inv /\ Attended)'
    OBVIOUS
  <2>1. ASSUME NEW p \in Procs, ProcessStep(p)
        PROVE  (Inv /\ Attended)'
    BY <2>1, ProcessKeepsInv, ProcessKeepsAttended
  <2>2. ASSUME NEW c \in Pages, PageStep(c)
        PROVE  (Inv /\ Attended)'
    BY <1>2, <2>2, PageKeepsInv DEF process, failures
  <2>3. CASE UNCHANGED vars
    BY <1>2, <2>3, StutterKeepsInv DEF vars, process, failures
  <2> QED
    BY <2>1, <2>2, <2>3, NextIs
<1> QED
  BY <1>1, <1>3, PTL DEF Spec

\* A reply is pending in memory exactly while its request is being answered, or since
\* the save of its retry failed, however late workers end and whatever else fails
\* (ChatRuntime.submit, retry, _start, _answer).
THEOREM PendingRepliesAreAttended == Spec => []PendingIsAttended
<1>1. Attended => PendingIsAttended
  BY DEF Attended, AttendedBy, PendingIsAttended
<1> QED
  BY <1>1, AttendedHolds, PTL

-----------------------------------------------------------------------------
\* Every change of what a page would be sent wakes its stream.
Shown(p) == <<memory[p], active[p], partial[p]>>

LEMMA SnapshotStays ==
    ASSUME NEW p, Shown(p)' = Shown(p)
    PROVE  Snapshot(p)' = Snapshot(p)
  BY DEF Shown, Snapshot, LatestIs, Latest

\* Does the snapshot show this one, but for the replies in u?
ShowsBut(snapshot, now, u) ==
    /\ snapshot.busy = now.busy
    /\ DOMAIN snapshot.messages = DOMAIN now.messages
    /\ \A i \in DOMAIN now.messages :
        now.messages[i].req \in u \/ snapshot.messages[i] = now.messages[i]

LEMMA ShowsStays ==
    ASSUME NEW p, NEW snapshot, Shows(snapshot, p), Shown(p)' = Shown(p), unsaved'[p] = unsaved[p]
    PROVE  ShowsBut(snapshot, Snapshot(p)', unsaved'[p])
<1>1. Snapshot(p)' = Snapshot(p)
  BY SnapshotStays
<1> QED
  BY <1>1 DEF Shows, ShowsBut

\* A retry that could not be saved.
Unshown(p) ==
    \E r \in Requests :
        /\ memory[p] # <<>> /\ Latest(memory[p]).req = r
        /\ memory'[p] = SetLast(memory[p], "pending", "")
        /\ active[p] = None /\ active'[p] = None
        /\ unsaved'[p] = unsaved[p] \cup {r}

LEMMA UnshownShows ==
    ASSUME Inv, NEW p \in Procs, Unshown(p), NEW snapshot, Shows(snapshot, p)
    PROVE  ShowsBut(snapshot, Snapshot(p)', unsaved'[p])
<1> DEFINE m == memory[p]
           h == SetLast(m, "pending", "")
<1>1. PICK r \in Requests :
        /\ m # <<>> /\ Latest(m).req = r /\ memory'[p] = h
        /\ active[p] = None /\ active'[p] = None /\ unsaved'[p] = unsaved[p] \cup {r}
  BY DEF Unshown
<1>2. m \in History /\ "pending" \in Statuses /\ "" \in Texts
  BY MemoryIsDistinct DEF Statuses, Texts
<1> HIDE DEF m
<1>3. /\ h \in History /\ Len(h) = Len(m) /\ DOMAIN h = DOMAIN m
      /\ \A i \in DOMAIN m : h[i].req = m[i].req
      /\ \A i \in DOMAIN m : i # Len(m) => h[i] = m[i]
  <2>1. m # <<>>
    BY <1>1
  <2> QED
    BY <1>2, <2>1, SetLastFacts, ZenonT(60)
<1> HIDE DEF h
<1>4. ~LatestIs(m, None) /\ ~LatestIs(h, None)
  <2>1. ASSUME NEW g \in History, LatestIs(g, None)
        PROVE  FALSE
    BY <2>1, HistoryShape, NoneIsNotAsked DEF LatestIs, Latest
  <2> QED
    BY <1>2, <1>3, <2>1
<1>5. Snapshot(p).messages = m /\ Snapshot(p).busy = FALSE
  BY <1>1, <1>4 DEF Snapshot, m
<1>6. Snapshot(p)'.messages = h /\ Snapshot(p)'.busy = FALSE
  BY <1>1, <1>4 DEF Snapshot, LatestIs, Latest
<1>7. \A i \in DOMAIN h : i = Len(m) => h[i].req = r
  BY <1>1, <1>3 DEF Latest
<1>8. /\ snapshot.busy = FALSE /\ DOMAIN snapshot.messages = DOMAIN m
      /\ \A i \in DOMAIN m : m[i].req \in unsaved[p] \/ snapshot.messages[i] = m[i]
  BY <1>5 DEF Shows
<1>9. /\ DOMAIN snapshot.messages = DOMAIN h
      /\ \A i \in DOMAIN h : h[i].req \in unsaved'[p] \/ snapshot.messages[i] = h[i]
  BY <1>1, <1>3, <1>7, <1>8
<1> QED
  BY <1>6, <1>8, <1>9 DEF ShowsBut

ShownKept(p) ==
    /\ stage'[p] = stage[p] /\ UNCHANGED <<view, page>>
    /\ Shown(p)' = Shown(p) /\ unsaved'[p] = unsaved[p]

LEMMA ProcessWakesPages ==
    ASSUME Inv, NEW p \in Procs, ProcessStep(p)
    PROVE  \/ Changed(p) /\ \A c \in Pages : page'[c] \in {page[c], None}
           \/ ShownKept(p)
           \/ stage'[p] = stage[p] /\ UNCHANGED <<view, page>> /\ Unshown(p)
           \/ stage'[p] # "up" /\ UNCHANGED <<view, page>>
           \/ stage[p] = "down" /\ UNCHANGED <<view, page>>
<1> USE DEF Inv, TypeOK
<1>1. ASSUME NEW outcome \in SaveOutcome, Start(p, outcome)
      PROVE  stage[p] = "down" /\ UNCHANGED <<view, page>>
  BY <1>1, StartsWhenDown DEF Start, pages
<1>2. ASSUME NEW outcome \in SaveOutcome, NEW r \in Requests, Submit(p, r, outcome)
      PROVE  (Changed(p) /\ UNCHANGED page) \/ ShownKept(p)
  BY <1>2 DEF Submit, Begin, NoBegin, AfterAdd, Shown, ShownKept, failures
<1>3. ASSUME NEW outcome \in SaveOutcome, NEW r \in Requests, Retry(p, r, outcome)
      PROVE  \/ Changed(p) /\ UNCHANGED page
             \/ stage'[p] = stage[p] /\ UNCHANGED <<view, page>> /\ Unshown(p)
  <2>1. CASE outcome = "saved"
    BY <1>3, <2>1 DEF Retry, Begin
  <2>2. CASE outcome # "saved"
    <3>1. UNCHANGED <<stage, view, page, active>> /\ active[p] = None
      BY <1>3, <2>2 DEF Retry, NoBegin
    <3>2. /\ memory[p] # <<>> /\ Latest(memory[p]).req = r
          /\ memory'[p] = SetLast(memory[p], "pending", "")
          /\ unsaved'[p] = unsaved[p] \cup {r}
      BY <1>3, <2>2 DEF Retry, LatestIs
    <3> QED
      BY <3>1, <3>2 DEF Unshown
  <2> QED
    BY <2>1, <2>2
<1>4. ASSUME NEW outcome \in SaveOutcome, Finish(p, outcome)
      PROVE  Changed(p) /\ UNCHANGED page
  BY <1>4 DEF Finish
<1>5. ASSUME NEW r \in Requests, SubmitAgain(p, r)
      PROVE  (Changed(p) /\ UNCHANGED page) \/ ShownKept(p)
  BY <1>5 DEF SubmitAgain, Begin, NoBegin, Shown, ShownKept, failures
<1>6. ASSUME Stop(p) \/ (\E outcome \in Settled : HostEnds(p, outcome))
      PROVE  ShownKept(p)
  BY <1>6 DEF Stop, HostEnds, Shown, ShownKept, pages, failures
<1>7. ASSUME Update(p) \/ Close(p)
      PROVE  Changed(p) /\ UNCHANGED page
  BY <1>7 DEF Update, Close
<1>8. ASSUME ReleaseLock(p)
      PROVE  stage'[p] # "up" /\ UNCHANGED <<view, page>>
  BY <1>8 DEF ReleaseLock, pages
<1>9. ASSUME Gone(p)
      PROVE  Changed(p) /\ \A c \in Pages : page'[c] \in {page[c], None}
  BY <1>9 DEF Gone
<1> QED
  BY <1>1, <1>2, <1>3, <1>4, <1>5, <1>6, <1>7, <1>8, <1>9 DEF ProcessStep, Exit, Crash

LEMMA ProcessKeepsView ==
    ASSUME Inv, ViewIsCurrent, NEW p \in Procs, ProcessStep(p)
    PROVE  ViewIsCurrent'
<1>1. Others(p) /\ None \notin Procs
  BY ActsAlone, NoneAssumption
<1>2. SUFFICES ASSUME NEW c \in Pages, NEW q \in Procs,
                      page'[c] = q, view'[c] # None, stage'[q] = "up"
               PROVE  ShowsBut(view'[c], Snapshot(q)', unsaved'[q])
  BY DEF ViewIsCurrent, Shows, ShowsBut
<1>3. page[c] = q /\ view'[c] = view[c] /\ (q = p => ~Changed(p))
  BY <1>1, <1>2, ProcessWakesPages DEF Changed, ShownKept
<1>4. CASE q # p
  <2>1. stage[q] = "up" /\ Shown(q)' = Shown(q) /\ unsaved'[q] = unsaved[q]
    BY <1>1, <1>2, <1>4 DEF Others, Shown
  <2>2. Shows(view[c], q)
    BY <1>2, <1>3, <2>1 DEF ViewIsCurrent
  <2> QED
    BY <1>3, <2>1, <2>2, ShowsStays
<1>5. CASE q = p
  <2>1. stage[p] # "down"
    BY <1>1, <1>3, <1>5 DEF Inv, StreamsAreServed
  <2>2. stage[p] = "up" /\ (ShownKept(p) \/ Unshown(p))
    BY <1>2, <1>3, <1>5, <2>1, ProcessWakesPages DEF ShownKept
  <2>3. Shows(view[c], p)
    BY <1>2, <1>3, <1>5, <2>2 DEF ViewIsCurrent
  <2> QED
    BY <1>3, <1>5, <2>2, <2>3, ShowsStays, UnshownShows DEF ShownKept
<1> QED
  BY <1>4, <1>5

LEMMA ShowsItself == \A p : Shows(Snapshot(p), p)
  BY DEF Shows

LEMMA PageKeepsView ==
    ASSUME Inv, ViewIsCurrent, NEW c \in Pages, PageStep(c)
    PROVE  ViewIsCurrent'
<1>1. UNCHANGED <<process, unsaved>> /\ None \notin Procs
  BY PageKeepsInv, NoneAssumption DEF failures
<1>2. \A p \in Procs : Snapshot(p)' = Snapshot(p) /\ stage'[p] = stage[p]
  BY <1>1, SnapshotStays DEF Shown, process
<1>3. SUFFICES ASSUME NEW d \in Pages, NEW p \in Procs,
                      page'[d] = p, view'[d] # None, stage[p] = "up"
               PROVE  Shows(view'[d], p)
  BY <1>1, <1>2 DEF ViewIsCurrent, Shows
<1>4. CASE \E q \in Procs : Stream(c, q) /\ ~Closed(q) /\ d = c
  <2>1. PICK q \in Procs : Stream(c, q) /\ ~Closed(q) /\ d = c
    BY <1>4
  <2>2. q = p /\ view'[d] = Snapshot(q)
    BY <1>3, <2>1 DEF Stream, Inv, TypeOK
  <2> QED
    BY <2>2, ShowsItself
<1>5. CASE ~\E q \in Procs : Stream(c, q) /\ ~Closed(q) /\ d = c
  <2>1. view'[d] = view[d] /\ (page[d] = p \/ view[d] = None)
    <3>1. ASSUME NEW q \in Procs, Connect(c, q)
          PROVE  view' = view /\ (page[d] = p \/ d = c)
      BY <1>3, <3>1 DEF Connect, Inv, TypeOK
    <3>2. ASSUME NEW q \in Procs, Stream(c, q)
          PROVE  view'[d] = view[d] /\ page[d] = p
      BY <1>1, <1>3, <1>5, <3>2 DEF Stream, Disconnect, Inv, TypeOK
    <3>3. ASSUME Leave(c)
          PROVE  view'[d] = view[d] /\ page[d] = p
      BY <1>1, <1>3, <3>3 DEF Leave, Disconnect, Inv, TypeOK
    <3>4. ASSUME NEW q \in Procs, Connect(c, q), d = c
          PROVE  view[d] = None
      BY <3>4 DEF Connect, Inv, NoPageNoView
    <3> QED
      BY <3>1, <3>2, <3>3, <3>4 DEF PageStep
  <2> QED
    BY <1>3, <2>1 DEF ViewIsCurrent
<1> QED
  BY <1>4, <1>5

\* A page that has seen the current revision shows the current state of its runtime,
\* but for replies whose retry could not be saved (ChatRuntime._changed against every
\* change of ChatRuntime.snapshot): the safety part of PagesFollow.
THEOREM PagesShowTheState == Spec => []ViewIsCurrent
<1>1. Init => Inv /\ ViewIsCurrent
  <2>1. Init => ViewIsCurrent
    BY DEF Init, ViewIsCurrent
  <2> QED
    BY <2>1, InitInv
<1>2. Inv /\ ViewIsCurrent /\ [Next]_vars => (Inv /\ ViewIsCurrent)'
  <2> SUFFICES ASSUME Inv, ViewIsCurrent, [Next]_vars
               PROVE  (Inv /\ ViewIsCurrent)'
    OBVIOUS
  <2>1. ASSUME NEW p \in Procs, ProcessStep(p)
        PROVE  (Inv /\ ViewIsCurrent)'
    BY <2>1, ProcessKeepsInv, ProcessKeepsView
  <2>2. ASSUME NEW c \in Pages, PageStep(c)
        PROVE  (Inv /\ ViewIsCurrent)'
    BY <2>2, PageKeepsInv, PageKeepsView
  <2>3. CASE UNCHANGED vars
    <3>1. ViewIsCurrent'
      BY <2>3 DEF ViewIsCurrent, Shows, Snapshot, LatestIs, Latest, vars, process, pages, failures
    <3> QED
      BY <2>3, <3>1, StutterKeepsInv
  <2> QED
    BY <2>1, <2>2, <2>3, NextIs
<1> QED
  BY <1>1, <1>2, PTL DEF Spec
===============================================================================
