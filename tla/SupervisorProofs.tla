--------------------------- MODULE SupervisorProofs ---------------------------
(***************************************************************************)
(* Proofs about the supervisors of Host owners: a result is published for  *)
(* the claim it was submitted for, and a work is given to at most          *)
(* MaxTenures owners, for any number of supervisors, attempts and faults.  *)
(***************************************************************************)
EXTENDS Supervisor, FiniteSetTheorems, TLAPS

\* Only a thread that serves its claim has one.
Serving == {"serving", "publishing", "renewing"}
ClaimsAreServed == \A s \in Owners : pc[s] \notin Serving => active[s] = 0

Inv == ResultsAnswerTheirWork /\ ClaimsAreServed

-----------------------------------------------------------------------------
\* What a supervisor keeps, and what it keeps to itself.
SupervisorTyped ==
    /\ pc \in [Owners -> Places]
    /\ saw \in [Owners -> Handles] /\ active \in [Owners -> Handles]
    /\ queued \in [Owners -> Handles] /\ taken \in [Owners -> Handles]
    /\ due \subseteq Owners /\ disturbed \subseteq Owners

TenureTyped ==
    /\ attempt \in 1..MaxAttempts /\ used \subseteq Owners
    /\ holder \in used \cup {None} /\ outcome \in Outcomes
    /\ Cardinality(used) <= MaxTenures

LEMMA TypeParts ==
    TypeOK <=> /\ SupervisorTyped /\ TenureTyped
               /\ closing \in [Owners -> BOOLEAN] /\ orphan \in BOOLEAN
  BY DEF TypeOK, SupervisorTyped, TenureTyped

\* The work's own state changes only as the leases promise.
LEMMA TenureStepTyped ==
    ASSUME TenureTyped, TenureNext \/ UNCHANGED tenure
    PROVE  TenureTyped'
<1> USE DEF TenureTyped
<1>1. ASSUME NEW o \in Owners, Grant(o)
      PROVE  TenureTyped'
  <2>1. IsFiniteSet(used)
    BY TenureAssumption, FS_Subset
  <2>2. Cardinality(used) \in Nat /\ Cardinality(used \cup {o}) = Cardinality(used) + 1
    BY <1>1, <2>1, FS_CardinalityType, FS_AddElement DEF Grant
  <2> QED
    BY <1>1, <2>2, TenureAssumption DEF Grant
<1>2. ASSUME NEW r \in Outcomes, Settle(r)
      PROVE  TenureTyped'
  BY <1>2 DEF Settle
<1>3. ASSUME Requeue
      PROVE  TenureTyped'
  BY <1>3, TenureAssumption, FS_EmptySet DEF Requeue
<1>4. CASE Lapse
  BY <1>4 DEF Lapse
<1>5. CASE UNCHANGED tenure
  BY <1>5 DEF tenure
<1>6. "published" \in Outcomes /\ "failed" \in Outcomes /\ "superseded" \in Outcomes
  BY DEF Outcomes
<1> QED
  BY <1>1, <1>2, <1>3, <1>4, <1>5, <1>6
     DEF TenureNext, Publish, Fail, Exhaust, Supersede

\* What one supervisor s may make of its own state: the pairs of every other one stay.
Alone(s) ==
    /\ pc' = [pc EXCEPT ![s] = pc'[s]] /\ active' = [active EXCEPT ![s] = active'[s]]
    /\ queued' = [queued EXCEPT ![s] = queued'[s]] /\ taken' = [taken EXCEPT ![s] = taken'[s]]

Answers(s) ==
    /\ queued[s] # 0 => queued[s] = active[s]
    /\ pc[s] = "publishing" => taken[s] = active[s]
    /\ pc[s] \notin Serving => active[s] = 0

LEMMA InvParts == Inv <=> TypeOK /\ \A s \in Owners : Answers(s)
  BY DEF Inv, ResultsAnswerTheirWork, ClaimsAreServed, Answers

\* A step of one supervisor keeps what holds of the others.
LEMMA OneActs ==
    ASSUME Inv, NEW s \in Owners, TypeOK', Alone(s), Answers(s)'
    PROVE  Inv'
<1> SUFFICES ASSUME NEW t \in Owners, t # s
             PROVE  Answers(t)'
  BY InvParts DEF Inv, ResultsAnswerTheirWork, ClaimsAreServed, Answers
<1>1. Answers(t)
  BY InvParts
<1>2. /\ pc'[t] = pc[t] /\ active'[t] = active[t]
      /\ queued'[t] = queued[t] /\ taken'[t] = taken[t]
  BY DEF Alone, Inv, ResultsAnswerTheirWork, TypeOK
<1> QED
  BY <1>1, <1>2 DEF Answers

-----------------------------------------------------------------------------
\* What becomes of a supervisor's state: it is moved, sent back, or emptied.
LEMMA Moved ==
    ASSUME Inv, NEW s \in Owners, NEW place \in Places, Proceed(s, place),
           place \notin {"publishing"}, place \in Serving \/ pc[s] \notin Serving
    PROVE  SupervisorTyped' /\ Alone(s) /\ Answers(s)'
<1>1. SupervisorTyped
  BY TypeParts DEF Inv, ResultsAnswerTheirWork
<1>2. Answers(s)
  BY InvParts
<1> QED
  BY <1>1, <1>2 DEF Proceed, Goto, held, SupervisorTyped, Alone, Answers

LEMMA SentBack ==
    ASSUME Inv, NEW s \in Owners, GoBack(s), pc[s] \notin Serving
    PROVE  SupervisorTyped' /\ Alone(s) /\ Answers(s)'
<1>1. SupervisorTyped
  BY TypeParts DEF Inv, ResultsAnswerTheirWork
<1>2. Answers(s)
  BY InvParts
<1>3. "waiting" \in Places /\ 0 \in Handles
  BY TenureAssumption DEF Places, Calls, Handles
<1> QED
  BY <1>1, <1>2, <1>3 DEF GoBack, Goto, SupervisorTyped, Alone, Answers

LEMMA Emptied ==
    ASSUME Inv, NEW s \in Owners,
           \/ End(s)
           \/ Clear(s) /\ Goto(s, "waiting") /\ UNCHANGED saw
    PROVE  SupervisorTyped' /\ Alone(s) /\ Answers(s)'
<1>1. SupervisorTyped
  BY TypeParts DEF Inv, ResultsAnswerTheirWork
<1>2. /\ pc' = [pc EXCEPT ![s] = "off"] \/ pc' = [pc EXCEPT ![s] = "waiting"]
      /\ saw' = saw \/ saw' = [saw EXCEPT ![s] = 0]
      /\ Forgotten(s)
  BY DEF End, Clear, Goto
<1>3. "waiting" \in Places /\ "off" \in Places /\ 0 \in Handles
  BY TenureAssumption DEF Places, Calls, Handles
<1>4. pc' \in [Owners -> Places] /\ saw' \in [Owners -> Handles]
      /\ active' \in [Owners -> Handles] /\ queued' \in [Owners -> Handles]
      /\ taken' \in [Owners -> Handles] /\ due' \subseteq Owners /\ disturbed' \subseteq Owners
  BY <1>1, <1>2, <1>3 DEF SupervisorTyped, Forgotten
<1>5. /\ pc'[s] \in {"off", "waiting"} /\ active'[s] = 0 /\ queued'[s] = 0 /\ taken'[s] = 0
  BY <1>1, <1>2 DEF SupervisorTyped, Forgotten
<1> QED
  BY <1>1, <1>2, <1>4, <1>5 DEF SupervisorTyped, Alone, Answers, Forgotten

LEMMA PlacesListed ==
    /\ Places = {"off", "serving", "waiting", "claiming", "reclaiming", "recording",
                 "registering", "publishing", "renewing"}
    /\ 0 \in Handles /\ 1..MaxAttempts \subseteq Handles
  BY TenureAssumption DEF Places, Calls, Handles

\* A step of the thread: the state the supervisor is left with.
LEMMA ThreadKeeps ==
    ASSUME Inv, NEW s \in Owners,
           \/ Wait(s) \/ Claim(s) \/ Reclaim(s) \/ Record(s) \/ Register(s)
           \/ Serve(s) \/ Publishing(s) \/ Renewing(s)
    PROVE  SupervisorTyped' /\ Alone(s) /\ Answers(s)'
<1>1. SupervisorTyped /\ attempt \in Handles
  BY TypeParts, PlacesListed DEF Inv, ResultsAnswerTheirWork, TenureTyped
<1>2. Answers(s)
  BY InvParts
<1>3. CASE Wait(s)
  <2>1. pc[s] \notin Serving
    BY <1>3 DEF Wait, Serving
  <2>2. CASE /\ Goto(s, "claiming") /\ saw' = [saw EXCEPT ![s] = attempt]
             /\ UNCHANGED <<active, queued, taken, due, disturbed>>
    BY <1>1, <1>2, <2>1, <2>2, PlacesListed DEF Goto, SupervisorTyped, Alone, Answers, Serving
  <2> QED
    BY <1>3, <2>2, Emptied DEF Wait
<1>4. CASE Claim(s)
  <2>1. pc[s] \notin Serving /\ {"registering", "reclaiming"} \subseteq Places
    BY <1>4, PlacesListed DEF Claim, Serving
  <2> QED
    BY <1>4, <2>1, Moved, SentBack, Emptied DEF Claim, Obtain
<1>5. CASE Reclaim(s)
  <2>1. pc[s] \notin Serving /\ {"registering", "recording"} \subseteq Places
    BY <1>5, PlacesListed DEF Reclaim, Serving
  <2> QED
    BY <1>5, <2>1, Moved, SentBack, Emptied DEF Reclaim, Obtain
<1>6. CASE Record(s)
  BY <1>6, SentBack DEF Record, Serving
<1>7. CASE Register(s)
  <2>1. pc[s] \notin Serving
    BY <1>7 DEF Register, Serving
  <2>2. CASE /\ Goto(s, "serving") /\ active' = [active EXCEPT ![s] = saw[s]]
             /\ saw' = [saw EXCEPT ![s] = 0] /\ UNCHANGED <<queued, taken, due, disturbed>>
    <3>1. queued[s] = 0
      BY <1>2, <2>1 DEF Answers
    <3> QED
      BY <1>1, <2>2, <3>1, PlacesListed DEF Goto, SupervisorTyped, Alone, Answers, Serving
  <2> QED
    BY <1>7, <2>2, Emptied DEF Register
<1>8. CASE Serve(s)
  <2>1. pc[s] = "serving" /\ pc[s] \in Serving /\ "renewing" \in Places
    BY <1>8, PlacesListed DEF Serve, Serving
  <2>2. CASE /\ queued[s] # 0 /\ taken' = [taken EXCEPT ![s] = queued[s]]
             /\ queued' = [queued EXCEPT ![s] = 0]
             /\ Goto(s, "publishing") /\ UNCHANGED <<saw, active, due, disturbed>>
    BY <1>1, <1>2, <2>1, <2>2, PlacesListed DEF Goto, SupervisorTyped, Alone, Answers, Serving
  <2>3. CASE Proceed(s, "renewing")
    BY <2>1, <2>3, Moved DEF Serving
  <2> QED
    BY <1>8, <2>2, <2>3, Emptied DEF Serve
<1>9. CASE Publishing(s)
  <2>1. CASE /\ Goto(s, AfterRefusal(s)) /\ taken' = [taken EXCEPT ![s] = 0]
             /\ UNCHANGED <<saw, active, queued, due, disturbed>>
    <3>1. AfterRefusal(s) \in {"renewing", "serving"}
      BY DEF AfterRefusal
    <3> HIDE DEF AfterRefusal
    <3> QED
      BY <1>1, <1>2, <2>1, <3>1, PlacesListed DEF Goto, SupervisorTyped, Alone, Answers, Serving
  <2> QED
    BY <1>9, <2>1, Emptied DEF Publishing
<1>10. CASE Renewing(s)
  <2>1. CASE /\ Goto(s, "serving") /\ due' = due \ {s}
             /\ UNCHANGED <<saw, active, queued, taken, disturbed>>
    BY <1>1, <1>2, <2>1, PlacesListed DEF Goto, SupervisorTyped, Alone, Answers, Serving
  <2> QED
    BY <1>10, <2>1, Emptied DEF Renewing
<1> QED
  BY <1>3, <1>4, <1>5, <1>6, <1>7, <1>8, <1>9, <1>10

\* Whatever a supervisor or the environment does to the work, the leases allow it.
LEMMA TenureSteps ==
    ASSUME Inv, [Next]_vars
    PROVE  TenureNext \/ UNCHANGED tenure
<1>1. ASSUME NEW s \in Owners, Step(s)
      PROVE  TenureNext \/ UNCHANGED tenure
  BY <1>1 DEF Step, Wait, Claim, Reclaim, Record, Register, Serve, Publishing, Renewing,
     Obtain, TenureNext
<1>2. ASSUME NEW s \in Owners,
             Start(s) \/ RenewalDue(s) \/ Submit(s) \/ Close(s) \/ Kill(s)
      PROVE  UNCHANGED tenure
  BY <1>2 DEF Start, RenewalDue, Submit, Close, Kill
<1>3. CASE Restart
  <2>1. holder' = None /\ UNCHANGED <<attempt, used, outcome>>
    BY <1>3 DEF Restart
  <2> QED
    BY <2>1 DEF TenureNext, Lapse, tenure
<1>4. CASE Expire \/ NeutralEvent \/ Withdraw
  BY <1>4 DEF Expire, NeutralEvent, Withdraw, TenureNext
<1>5. CASE UNCHANGED vars
  BY <1>5 DEF vars
<1> QED
  BY <1>1, <1>2, <1>3, <1>4, <1>5 DEF Next

\* The parts of the type that are neither the work's nor one supervisor's.
LEMMA RestTyped ==
    ASSUME TypeOK, [Next]_vars
    PROVE  closing' \in [Owners -> BOOLEAN] /\ orphan' \in BOOLEAN
<1> USE DEF TypeOK
<1>1. ASSUME NEW s \in Owners, Step(s)
      PROVE  closing' \in [Owners -> BOOLEAN] /\ orphan' \in BOOLEAN
  BY <1>1 DEF Step
<1>2. ASSUME NEW s \in Owners,
             Start(s) \/ RenewalDue(s) \/ Submit(s) \/ Close(s) \/ Kill(s)
      PROVE  closing' \in [Owners -> BOOLEAN] /\ orphan' \in BOOLEAN
  BY <1>2 DEF Start, RenewalDue, Submit, Close, Kill
<1>3. CASE Restart \/ Expire \/ NeutralEvent \/ Withdraw
  BY <1>3 DEF Restart, Expire, NeutralEvent, Withdraw
<1>4. CASE UNCHANGED vars
  BY <1>4 DEF vars
<1> QED
  BY <1>1, <1>2, <1>3, <1>4 DEF Next

LEMMA RestartKeeps ==
    ASSUME Inv, Restart
    PROVE  SupervisorTyped' /\ \A s \in Owners : Answers(s)'
<1> DEFINE ended == {s \in Owners : pc[s] \in Calls}
           Kept(f) == [s \in Owners |-> IF s \in ended THEN 0 ELSE f[s]]
<1>1. /\ pc' = [s \in Owners |-> IF s \in ended THEN "off" ELSE pc[s]]
      /\ saw' = Kept(saw) /\ active' = Kept(active)
      /\ queued' = Kept(queued) /\ taken' = Kept(taken)
      /\ disturbed' = disturbed \ ended /\ due' = due \ ended
  BY DEF Restart
<1>2. SupervisorTyped
  BY TypeParts DEF Inv, ResultsAnswerTheirWork
<1>3. SupervisorTyped'
  BY <1>1, <1>2, PlacesListed DEF SupervisorTyped
<1>4. ASSUME NEW s \in Owners
      PROVE  Answers(s)'
  <2>1. Answers(s)
    BY InvParts
  <2>2. CASE s \in ended
    BY <1>1, <2>2 DEF Answers
  <2>3. CASE s \notin ended
    BY <1>1, <2>1, <2>3 DEF Answers
  <2> QED
    BY <2>2, <2>3
<1> QED
  BY <1>3, <1>4

-----------------------------------------------------------------------------
LEMMA InitInv == FairSpec => Inv
<1> SUFFICES ASSUME Init PROVE Inv
  BY DEF FairSpec
<1>1. used = {} /\ attempt = 1 /\ holder = None /\ outcome = "open"
  BY DEF Init, TenureInit
<1>2. TenureTyped
  BY <1>1, TenureAssumption, FS_EmptySet DEF TenureTyped, Outcomes
<1>3. SupervisorTyped /\ \A s \in Owners : Answers(s)
  BY PlacesListed DEF Init, SupervisorTyped, Answers, Serving
<1>4. TypeOK
  BY <1>2, <1>3, TypeParts DEF Init
<1> QED
  BY <1>3, <1>4, InvParts

LEMMA NextInv == Inv /\ [Next]_vars => Inv'
<1> SUFFICES ASSUME Inv, [Next]_vars PROVE Inv'
  OBVIOUS
<1>1. TypeOK /\ SupervisorTyped /\ TenureTyped
  BY TypeParts DEF Inv, ResultsAnswerTheirWork
<1>2. TenureTyped' /\ closing' \in [Owners -> BOOLEAN] /\ orphan' \in BOOLEAN
  BY <1>1, TenureSteps, TenureStepTyped, RestTyped
<1>3. SupervisorTyped' => TypeOK'
  BY <1>2, TypeParts DEF TypeOK, SupervisorTyped, TenureTyped
<1>4. ASSUME NEW s \in Owners, SupervisorTyped', Alone(s), Answers(s)'
      PROVE  Inv'
  BY <1>3, <1>4, OneActs
<1>5. ASSUME SupervisorTyped', \A s \in Owners : Answers(s)'
      PROVE  Inv'
  BY <1>3, <1>5 DEF Inv, ResultsAnswerTheirWork, ClaimsAreServed, Answers
<1>6. ASSUME NEW s \in Owners, Step(s)
      PROVE  Inv'
  BY <1>4, <1>6, ThreadKeeps DEF Step
<1>7. ASSUME NEW s \in Owners, Start(s)
      PROVE  Inv'
  <2>1. ~Running(s) /\ Goto(s, "waiting") /\ UNCHANGED held
    BY <1>7 DEF Start
  <2>2. SupervisorTyped' /\ Alone(s) /\ Answers(s)'
    BY <1>1, <2>1, InvParts, PlacesListed
       DEF Running, Goto, held, SupervisorTyped, Alone, Answers, Serving
  <2> QED
    BY <1>4, <2>2
<1>8. ASSUME NEW s \in Owners, Kill(s)
      PROVE  Inv'
  BY <1>4, <1>8, Emptied DEF Kill
<1>9. ASSUME NEW s \in Owners, Submit(s)
      PROVE  Inv'
  <2>1. queued' = [queued EXCEPT ![s] = active[s]] /\ UNCHANGED thread /\ UNCHANGED disturbed
    BY <1>9 DEF Submit
  <2>2. SupervisorTyped' /\ Alone(s) /\ Answers(s)'
    BY <1>1, <2>1, InvParts DEF thread, SupervisorTyped, Alone, Answers
  <2> QED
    BY <1>4, <2>2
<1>10. CASE Restart
  BY <1>5, <1>10, RestartKeeps
<1>11. CASE \/ \E s \in Owners : RenewalDue(s) \/ Close(s)
            \/ Expire \/ NeutralEvent \/ Withdraw \/ UNCHANGED vars
  <2>1. UNCHANGED <<pc, saw, active, taken, queued>> /\ due' \subseteq Owners
    BY <1>1, <1>11 DEF RenewalDue, Close, Expire, NeutralEvent, Withdraw, vars, thread,
       SupervisorTyped
  <2>2. disturbed' \subseteq Owners
    BY <1>1, <1>11 DEF RenewalDue, Close, Expire, NeutralEvent, Withdraw, vars, thread,
       SupervisorTyped, TenureTyped
  <2>3. SupervisorTyped' /\ \A s \in Owners : Answers(s)'
    BY <1>1, <2>1, <2>2, InvParts DEF SupervisorTyped, Answers
  <2> QED
    BY <1>5, <2>3
<1> QED
  BY <1>6, <1>7, <1>8, <1>9, <1>10, <1>11 DEF Next

THEOREM InvHolds == FairSpec => []Inv
  BY InitInv, NextInv, PTL DEF FairSpec

\* A submission is published for the claim it was submitted for, and a work has
\* at most MaxTenures owners and MaxAttempts identities, whatever supervisors
\* run, die or are closed, and however often the runtime restarts.
THEOREM SubmissionsAnswerTheirWork == FairSpec => []ResultsAnswerTheirWork
  BY InvHolds, PTL DEF Inv

\* Every step of the supervisors and of what surrounds them uses the work only
\* as WorkTenure, and so the leases, allow.
THEOREM SupervisorsKeepTenures == FairSpec => TenureInit /\ [][TenureNext]_tenure
<1>1. Init => TenureInit
  BY DEF Init
<1>2. Inv /\ [Next]_vars => [TenureNext]_tenure
  BY TenureSteps
<1> QED
  BY <1>1, <1>2, InvHolds, PTL DEF FairSpec
===============================================================================
