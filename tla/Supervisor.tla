------------------------------ MODULE Supervisor ------------------------------
(***************************************************************************)
(* The supervisors that keep Host owners alive                             *)
(* (xsync_v2/host_supervisor.py), over the leases WorkTenure promises and  *)
(* Lease implements.  A supervisor waits for work, claims or reclaims it,  *)
(* registers a handle for the claim, and then publishes what the Host      *)
(* submits for the handle and renews the lease in between.  The Host       *)
(* submits and closes from threads of its own, the runtime may die under   *)
(* any call, and a supervisor may be killed.                               *)
(*                                                                         *)
(* A supervisor has one owner id for life, and a Host starts each new one  *)
(* under a new id; an id that does not occur in the current work's history *)
(* is as good as a new one.  An owner holds a work at most once, so the    *)
(* identity of the work stands for the claim and for its handle.           *)
(*                                                                         *)
(* The evidence stays as the work's trigger found it.                      *)
(***************************************************************************)
EXTENDS WorkTenure

CONSTANTS
    MaxRunning,     \* bound: supervisors that run at a time
    MaxFaults       \* bound: deaths of the runtime, supervisors that are killed or
                    \* closed, and exports while a claim is held, taken together

ASSUME FaultAssumption == MaxRunning \in Nat /\ MaxFaults \in Nat

VARIABLES
    pc,             \* what the thread of each supervisor does
    saw,            \* the identity its wait returned
    active,         \* the claim whose handle it advertises, or 0
    queued,         \* the handle of the queued submission, or 0
    taken,          \* the handle of the submission being published, or 0
    closing,
    due,            \* supervisors whose renewal is due
    disturbed,      \* claims that no longer match the log's sequence
    orphan,         \* does a lease of a dead runtime still have time to run?
    faults

thread == <<pc, saw, active, taken, due>>
Fault == faults < MaxFaults /\ faults' = faults + 1
vars == <<tenure, thread, queued, closing, disturbed, orphan, faults>>

-----------------------------------------------------------------------------
Calls == {"waiting", "claiming", "reclaiming", "recording", "registering",
          "publishing", "renewing"}
Places == Calls \cup {"off", "serving"}
Handles == 0..MaxAttempts

Running(s) == pc[s] # "off"
Goto(s, place) == pc' = [pc EXCEPT ![s] = place]

Init ==
    /\ TenureInit
    /\ pc = [s \in Owners |-> "off"]
    /\ saw = [s \in Owners |-> 0] /\ active = [s \in Owners |-> 0]
    /\ queued = [s \in Owners |-> 0] /\ taken = [s \in Owners |-> 0]
    /\ closing = [s \in Owners |-> FALSE]
    /\ due = {} /\ disturbed = {} /\ orphan = FALSE
    /\ faults = 0

\* What a supervisor keeps of a claim it gives up: nothing.
Forgotten(s) ==
    /\ active' = [active EXCEPT ![s] = 0]
    /\ queued' = [queued EXCEPT ![s] = 0]
    /\ taken' = [taken EXCEPT ![s] = 0]
    /\ disturbed' = disturbed \ {s} /\ due' = due \ {s}

\* Mutant: the submission queued for the old claim stays.
ClearedButQueued(s) ==
    /\ active' = [active EXCEPT ![s] = 0]
    /\ taken' = [taken EXCEPT ![s] = 0]
    /\ disturbed' = disturbed \ {s} /\ due' = due \ {s}
    /\ UNCHANGED queued

\* _clear_active: a submission accepted meanwhile goes with the claim.
Clear(s) == Forgotten(s)

\* The thread ends, whatever the reason.
End(s) == Goto(s, "off") /\ Forgotten(s) /\ saw' = [saw EXCEPT ![s] = 0]

\* What a call that changes nothing but the place leaves alone.
held == <<saw, active, queued, taken, due, disturbed>>

Proceed(s, place) == Goto(s, place) /\ UNCHANGED held

GoBack(s) ==
    /\ Goto(s, "waiting") /\ saw' = [saw EXCEPT ![s] = 0]
    /\ UNCHANGED <<active, queued, taken, due, disturbed>>

Start(s) ==
    /\ ~Running(s) /\ s \notin used /\ outcome = "open"
    /\ Cardinality({t \in Owners : Running(t)}) < MaxRunning
    /\ Goto(s, "waiting")
    /\ closing' = [closing EXCEPT ![s] = FALSE]
    /\ UNCHANGED <<tenure, held, orphan, faults>>

-----------------------------------------------------------------------------
\* Is the work a supervisor saw, or has claimed, still the work?
Current(id) == outcome = "open" /\ attempt = id

Wait(s) ==
    /\ pc[s] = "waiting" /\ UNCHANGED tenure
    /\ \/ closing[s] /\ End(s)
       \/ /\ ~closing[s] /\ outcome = "open"
          /\ Goto(s, "claiming") /\ saw' = [saw EXCEPT ![s] = attempt]
          /\ UNCHANGED <<active, queued, taken, due, disturbed>>
       \/ outcome = "superseded" /\ End(s)     \* SESSION_DEACTIVATED

\* A lease is granted; the handle is registered by the next call.
Obtain(s) == Grant(s) /\ Proceed(s, "registering")

Claim(s) ==
    /\ pc[s] = "claiming"
    /\ \/ used = {} /\ Current(saw[s]) /\ Obtain(s)
       \/ /\ UNCHANGED tenure
          /\ \/ outcome # "open" /\ End(s)     \* NO_RUNNABLE_WORK
             \/ /\ outcome = "open"
                /\ attempt # saw[s] \/ (used # {} /\ (holder # None \/ orphan))
                /\ GoBack(s)
             \/ /\ Current(saw[s]) /\ used # {} /\ holder = None /\ ~orphan
                /\ Proceed(s, "reclaiming")

\* Mutant: used-up work is left for somebody else to notice.
ReclaimUnlessExhausted(s) ==
    /\ pc[s] = "reclaiming"
    /\ \/ Current(saw[s]) /\ Obtain(s)
       \/ UNCHANGED tenure /\ s \in used /\ holder = None /\ Current(saw[s]) /\ End(s)
       \/ /\ UNCHANGED tenure
          /\ ~Current(saw[s]) \/ holder # None \/ Cardinality(used) = MaxTenures
          /\ GoBack(s)

Reclaim(s) ==
    /\ pc[s] = "reclaiming"
    /\ \/ Current(saw[s]) /\ Obtain(s)
       \/ /\ UNCHANGED tenure
          /\ \/ (~Current(saw[s]) \/ holder # None) /\ GoBack(s)
             \/ /\ Current(saw[s]) /\ holder = None /\ s \in used
                /\ End(s)                       \* OWNER_ID_REUSED
             \/ /\ Current(saw[s]) /\ holder = None /\ s \notin used
                /\ Cardinality(used) = MaxTenures
                /\ Proceed(s, "recording")

\* The locks were released since the proof was made: somebody else may have
\* recorded another one.
Record(s) ==
    /\ pc[s] = "recording"
    /\ IF Current(saw[s]) THEN Exhaust ELSE UNCHANGED tenure
    /\ GoBack(s)

Register(s) ==
    /\ pc[s] = "registering" /\ UNCHANGED tenure
    /\ IF Current(saw[s]) /\ holder = s /\ s \notin disturbed /\ ~closing[s]
       THEN /\ Goto(s, "serving")
            /\ active' = [active EXCEPT ![s] = saw[s]]
            /\ saw' = [saw EXCEPT ![s] = 0]
            /\ UNCHANGED <<queued, taken, due, disturbed>>
       ELSE End(s)

\* A queued submission goes before a renewal.
Serve(s) ==
    /\ pc[s] = "serving" /\ UNCHANGED tenure
    /\ \/ closing[s] /\ End(s)
       \/ /\ ~closing[s] /\ queued[s] # 0
          /\ taken' = [taken EXCEPT ![s] = queued[s]]
          /\ queued' = [queued EXCEPT ![s] = 0]
          /\ Goto(s, "publishing") /\ UNCHANGED <<saw, active, due, disturbed>>
       \/ ~closing[s] /\ queued[s] = 0 /\ s \in due /\ Proceed(s, "renewing")

Holds(s) == Current(active[s]) /\ holder = s

\* Mutant: after a refused submission the thread looks for the next one first.
NextSubmission(s) == "serving"

\* After a refused submission a renewal that is due is not put off.
AfterRefusal(s) == IF s \in due THEN "renewing" ELSE "serving"

\* A submission is published for the claim that is active, under the lease the
\* store finds.  A result refused for its content, or for the lease, leaves the
\* claim as it is; one refused because the log has moved ends it.
Publishing(s) ==
    /\ pc[s] = "publishing"
    /\ \/ /\ Holds(s) /\ s \notin disturbed
          /\ Publish(s) \/ Fail(s)
          /\ Clear(s) /\ Goto(s, "waiting") /\ UNCHANGED saw
       \/ /\ (Holds(s) /\ s \in disturbed) \/ outcome = "superseded"
          /\ UNCHANGED tenure
          /\ Clear(s) /\ Goto(s, "waiting") /\ UNCHANGED saw
       \/ /\ UNCHANGED tenure
          /\ Goto(s, AfterRefusal(s)) /\ taken' = [taken EXCEPT ![s] = 0]
          /\ UNCHANGED <<saw, active, queued, due, disturbed>>

\* The last renewal of a tenure gains no time and is refused: the claim is
\* given up with its lease still running.
Renewing(s) ==
    /\ pc[s] = "renewing" /\ UNCHANGED tenure
    /\ \/ /\ Holds(s) /\ Goto(s, "serving") /\ due' = due \ {s}
          /\ UNCHANGED <<saw, active, queued, taken, disturbed>>
       \/ Clear(s) /\ Goto(s, "waiting") /\ UNCHANGED saw

Step(s) ==
    /\ \/ Wait(s) \/ Claim(s) \/ Reclaim(s) \/ Record(s) \/ Register(s)
       \/ Serve(s) \/ Publishing(s) \/ Renewing(s)
    /\ orphan' = (orphan /\ attempt' = attempt)
    /\ UNCHANGED <<closing, faults>>

-----------------------------------------------------------------------------
RenewalDue(s) ==
    /\ active[s] # 0 /\ s \notin due /\ due' = due \cup {s}
    /\ UNCHANGED <<tenure, pc, saw, active, taken, queued, closing, disturbed, orphan,
                   faults>>

\* The Host, from another thread, submits for the handle that is advertised.
Submit(s) ==
    /\ active[s] # 0 /\ queued[s] = 0
    /\ queued' = [queued EXCEPT ![s] = active[s]]
    /\ UNCHANGED <<tenure, thread, closing, disturbed, orphan, faults>>

Close(s) ==
    /\ Running(s) /\ ~closing[s] /\ Fault
    /\ closing' = [closing EXCEPT ![s] = TRUE]
    /\ UNCHANGED <<tenure, thread, queued, disturbed, orphan>>

Kill(s) ==
    /\ Running(s) /\ Fault
    /\ End(s)
    /\ UNCHANGED <<tenure, closing, orphan>>

\* Every call under way fails, and the lease of the dead runtime is fenced; but
\* until it would have run out a claim takes the work for leased.
Restart ==
    /\ Fault
    /\ LET ended == {s \in Owners : pc[s] \in Calls}
           Kept(f) == [s \in Owners |-> IF s \in ended THEN 0 ELSE f[s]]
       IN /\ pc' = [s \in Owners |-> IF s \in ended THEN "off" ELSE pc[s]]
          /\ saw' = Kept(saw) /\ active' = Kept(active)
          /\ queued' = Kept(queued) /\ taken' = Kept(taken)
          /\ disturbed' = disturbed \ ended /\ due' = due \ ended
    /\ holder' = None /\ orphan' = (holder # None)
    /\ UNCHANGED <<attempt, used, outcome, closing>>

Expire ==
    /\ \/ Lapse /\ UNCHANGED orphan
       \/ orphan /\ orphan' = FALSE /\ UNCHANGED tenure
    /\ UNCHANGED <<thread, queued, closing, disturbed, faults>>

\* An export moves the log's sequence under whoever holds the claim.
NeutralEvent ==
    /\ holder # None /\ Fault
    /\ disturbed' = disturbed \cup {holder}
    /\ UNCHANGED <<tenure, thread, queued, closing, orphan>>

Withdraw ==
    /\ Supersede
    /\ UNCHANGED <<thread, queued, closing, disturbed, orphan, faults>>

Next ==
    \/ \E s \in Owners :
          Start(s) \/ Step(s) \/ RenewalDue(s) \/ Submit(s) \/ Close(s) \/ Kill(s)
    \/ Restart \/ Expire \/ NeutralEvent \/ Withdraw

\* Threads run, calls are answered, leases run out, and a Host that has no
\* supervisor under a usable id starts one.
Fairness ==
    /\ \A s \in Owners : WF_vars(Start(s)) /\ WF_vars(Step(s)) /\ WF_vars(RenewalDue(s))
    /\ WF_vars(Expire)

FairSpec == Init /\ [][Next]_vars /\ Fairness

-----------------------------------------------------------------------------
TypeOK ==
    /\ attempt \in 1..MaxAttempts /\ used \subseteq Owners
    /\ holder \in Owners \cup {None} /\ outcome \in Outcomes
    /\ pc \in [Owners -> Places]
    /\ saw \in [Owners -> Handles] /\ active \in [Owners -> Handles]
    /\ queued \in [Owners -> Handles] /\ taken \in [Owners -> Handles]
    /\ closing \in [Owners -> BOOLEAN]
    /\ due \subseteq Owners /\ disturbed \subseteq Owners /\ orphan \in BOOLEAN
    /\ Cardinality(used) <= MaxTenures /\ holder \in used \cup {None}

\* A submission carries no handle once it is queued: it is published for
\* whatever claim is active when the thread takes it.  It is always the claim
\* the Host submitted it for, over every loss and gain of claims.
ResultsAnswerTheirWork ==
    /\ TypeOK
    /\ \A s \in Owners :
          /\ queued[s] # 0 => queued[s] = active[s]
          /\ pc[s] = "publishing" => taken[s] = active[s]

\* Whatever becomes of the owners, the runtime and the leases, the work a learner
\* waits for is answered, given up or withdrawn.
WorkIsSettled == outcome = "open" ~> outcome # "open"

\* A supervisor does not serve a lost claim for ever, not even for a Host that
\* keeps submitting results for it.
LostClaims == {s \in Owners : active[s] # 0 /\ ~Holds(s)}
LostClaimsEnd == []<>(LostClaims = {})
===============================================================================
