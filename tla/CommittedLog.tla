----------------------------- MODULE CommittedLog -----------------------------
(***************************************************************************)
(* What a marker-linearized log promises its callers: a batch of events is *)
(* committed in one step or not at all, at the end of the stream, at most  *)
(* once per command, never after the batch that closes the stream; and a   *)
(* command is only answered with the receipt of its one committed batch.   *)
(***************************************************************************)
EXTENDS Naturals

CONSTANTS
    Commands,       \* command ids
    Digests,        \* request bodies
    Size,           \* number of events a command's batch holds
    Closing         \* commands whose batch closes the stream

VARIABLES
    committed,      \* receipts of the committed batches
    told            \* receipts a caller was given

vars == <<committed, told>>

Receipt == [command : Commands, digest : Digests, from : Nat, to : Nat]

\* Where the stream may end, and where it does.
Bounds == {0} \cup {r.to : r \in committed}
Ends(n) == n \in Bounds /\ \A b \in Bounds : b <= n

Closed == \E r \in committed : r.command \in Closing

Init == committed = {} /\ told = {}

Append(c, d) ==
    /\ ~Closed
    /\ \A r \in committed : r.command # c
    /\ \E n \in Bounds :
        /\ Ends(n)
        /\ committed' = committed \cup
            {[command |-> c, digest |-> d, from |-> n + 1, to |-> n + Size[c]]}
    /\ UNCHANGED told

Tell(r) == told' = told \cup {r} /\ UNCHANGED committed

Next ==
    \/ \E c \in Commands, d \in Digests : Append(c, d)
    \/ \E r \in committed : Tell(r)

Spec == Init /\ [][Next]_vars
===============================================================================
