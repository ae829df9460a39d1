------------------------------ MODULE WorkTenure ------------------------------
(***************************************************************************)
(* What the leases of Host work promise.  One trigger of the conversation  *)
(* asks for work; the work is held by one owner at a time, at most         *)
(* MaxTenures owners hold it, none of them twice, and each loses it in the *)
(* end.  Only the holder settles it; when every tenure was used up it is   *)
(* queued again under a new identity, MaxAttempts times in all, and then   *)
(* given up.                                                               *)
(***************************************************************************)
EXTENDS Naturals, FiniteSets

CONSTANTS Owners, None, MaxTenures, MaxAttempts

ASSUME TenureAssumption ==
    /\ None \notin Owners /\ IsFiniteSet(Owners)
    /\ MaxTenures \in Nat \ {0} /\ MaxAttempts \in Nat \ {0}

VARIABLES
    attempt,    \* which identity of the work is current
    used,       \* owners that have held it
    holder,     \* the owner that holds it, or None
    outcome     \* "open" until it is settled

tenure == <<attempt, used, holder, outcome>>

Outcomes == {"open", "published", "failed", "superseded"}

TenureInit ==
    attempt = 1 /\ used = {} /\ holder = None /\ outcome = "open"

Grant(o) ==
    /\ outcome = "open" /\ holder = None
    /\ o \notin used /\ Cardinality(used) < MaxTenures
    /\ used' = used \cup {o} /\ holder' = o
    /\ UNCHANGED <<attempt, outcome>>

\* The lease runs out, or the runtime that granted it is gone.
Lapse ==
    holder # None /\ holder' = None /\ UNCHANGED <<attempt, used, outcome>>

Settle(result) ==
    outcome = "open" /\ outcome' = result /\ holder' = None /\ UNCHANGED <<attempt, used>>

\* The failed work is queued under a new identity.
Requeue ==
    /\ outcome = "open" /\ attempt < MaxAttempts
    /\ attempt' = attempt + 1 /\ used' = {} /\ holder' = None
    /\ UNCHANGED outcome

Publish(o) == holder = o /\ Settle("published")

\* The holder reports that it cannot do the work.
Fail(o) == holder = o /\ (Requeue \/ Settle("failed"))

\* Every tenure ended without a result.
Exhaust ==
    /\ holder = None /\ Cardinality(used) = MaxTenures
    /\ Requeue \/ (attempt = MaxAttempts /\ Settle("failed"))

\* The learner withdraws the question, or the Session is handed over.
Supersede == Settle("superseded")

TenureNext ==
    \/ \E o \in Owners : Grant(o) \/ Publish(o) \/ Fail(o)
    \/ Lapse \/ Exhaust \/ Supersede

\* A tenure has an absolute end.
TenureSpec == TenureInit /\ [][TenureNext]_tenure /\ WF_tenure(Lapse)
===============================================================================
