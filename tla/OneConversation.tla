---------------------------- MODULE OneConversation ----------------------------
(***************************************************************************)
(* What the coordinator promises a learner about Sessions: there is one    *)
(* conversation at a time; it grows until it is closed, closing adds at    *)
(* most one last event; a closed one never grows or opens again, and the   *)
(* next one starts empty.                                                  *)
(***************************************************************************)
EXTENDS Naturals

CONSTANTS Sessions, None

VARIABLES
    current,        \* the open conversation, or None
    ended,          \* the closed ones
    said            \* number of events of every conversation

vars == <<current, ended, said>>

Init == current = None /\ ended = {} /\ said = [s \in Sessions |-> 0]

Open(s) ==
    /\ current = None /\ s \notin ended /\ said[s] = 0
    /\ current' = s
    /\ UNCHANGED <<ended, said>>

Grow(s) == said' = [said EXCEPT ![s] = @ + 1]

Say ==
    /\ current # None
    /\ Grow(current)
    /\ UNCHANGED <<current, ended>>

Close ==
    /\ current # None
    /\ ended' = ended \cup {current} /\ current' = None
    /\ Grow(current) \/ UNCHANGED said

Next == (\E s \in Sessions : Open(s)) \/ Say \/ Close

Spec == Init /\ [][Next]_vars
===============================================================================
