------------------------------- MODULE MCDialogue -------------------------------
(***************************************************************************)
(* Small instances of Dialogue: one gate and one bridge entry, and a       *)
(* handful of Host results that cover an empty turn, an inferred entry, a  *)
(* fully supported turn, a withdrawn conclusion and an uncited one.        *)
(***************************************************************************)
EXTENDS Dialogue, TLC

CONSTANTS g1, x1, q1, q2, f1, t1, t2, n1, u1, u2

Result(q, status, cited, entry) ==
    [question |-> q, gates |-> [g \in GateIds |-> [status |-> status, cited |-> cited]],
     delta |-> [x \in Entries |-> entry]]
Learned(status, provenance, cited) ==
    [status |-> status, provenance |-> provenance, cited |-> cited]

MCAgentTurns ==
    {Result(q1, "unexplored", FALSE, Absent),
     Result(q1, "emerging", FALSE, Learned("working_model", "agent_inferred", FALSE)),
     Result(q2, "supported", TRUE, Learned("confirmed", "jointly_confirmed", TRUE)),
     Result(q1, "disputed", TRUE, Learned("disputed", "jointly_confirmed", TRUE)),
     Result(q2, "supported", FALSE, Absent)}

Check(health, fingerprint) == [health |-> health, fingerprint |-> fingerprint]
\* Runs and turns are told apart by their names only.
Symmetry == Permutations(Topics) \cup Permutations(Turns)

MCChecks == {Check("current", None), Check("captured_dirty", f1), Check("stale", None)}
CleanChecks == {Check("current", None), Check("stale", None)}
===============================================================================
