--------------------------- MODULE MCTransactionLog ---------------------------
EXTENDS TransactionLog, TLC
CONSTANTS c1, c2, quiesce, d1, d2, t1, t2

\* A batch of two events, a batch of one, and the fenced quiesce of a handoff.
MCSize == (c1 :> 2) @@ (c2 :> 1) @@ (quiesce :> 1)

\* The first command is retried later, and with another body.
MCRequests ==
    {[command |-> c, digest |-> d1, stamp |-> t1] : c \in {c1, c2, quiesce}}
    \cup {[command |-> c1, digest |-> d1, stamp |-> t2],
          [command |-> c1, digest |-> d2, stamp |-> t1]}

\* Every caller sticks to one body.
MCRetries == {r \in MCRequests : r.digest = d1}
===============================================================================
