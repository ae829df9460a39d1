--------------------------------- MODULE Feed ---------------------------------
(***************************************************************************)
(* What after-commit delivery promises.  Events are appended to a log;     *)
(* every observer of the running process is shown the log from its first   *)
(* event on, in order and without a gap, and is shown all of it in the end *)
(* (xsync_v2/dispatch.py, observer.py).                                    *)
(***************************************************************************)
EXTENDS Naturals, Sequences

CONSTANT Observers

VARIABLES
    length,     \* events committed
    heard       \* the sequence numbers each observer was shown

feed == <<length, heard>>

First(n) == [i \in 1..n |-> i]
Init == length = 0 /\ heard = [o \in Observers |-> <<>>]

Grow(n) == length' = length + n /\ UNCHANGED heard

\* Some observers go on; the others stay where they are.
Show ==
    /\ UNCHANGED length
    /\ \E upto \in [Observers -> 0..length] :
        /\ \A o \in Observers : upto[o] >= Len(heard[o])
        /\ heard' = [o \in Observers |-> First(upto[o])]

\* Observers live in memory: a new process shows them everything again.
Restart == heard' = [o \in Observers |-> <<>>] /\ UNCHANGED length

Next == (\E n \in 1..2 : Grow(n)) \/ Show \/ Restart

Spec ==
    /\ Init /\ [][Next]_feed
    /\ \A o \in Observers : WF_feed(Show /\ heard'[o] # heard[o])
===============================================================================
