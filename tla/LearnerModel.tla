----------------------------- MODULE LearnerModel -----------------------------
(***************************************************************************)
(* The data a Topic Run accumulates: evidence checks, gate assessments,    *)
(* learner-model entries and the Agent-turn results that update them, with *)
(* the validation the state machine applies to them.  Texts, digests and   *)
(* evidence references are abstracted away; a list of source turns is kept *)
(* as whether it cites a turn at all, which is what the rules depend on.   *)
(***************************************************************************)
EXTENDS Naturals

CONSTANTS
    GateIds,        \* REQUIRED_GATES
    Entries,        \* learner-model entry ids
    Bridges,        \* the entries of kind business_technical_mapping
    Questions,      \* question ids a Host may choose
    Fingerprints,   \* exact-recheck fingerprints of a dirty worktree
    None

ASSUME BridgesAssumption == Bridges \subseteq Entries
ASSUME NoneAssumption == None \notin Questions \cup Fingerprints

-----------------------------------------------------------------------------
EvidenceHealth == {"current", "captured_dirty", "stale", "unavailable"}
Publishable == {"current", "captured_dirty"}

EvidenceCheck == [health : EvidenceHealth, fingerprint : Fingerprints \cup {None}]

\* The checks the evidence store returns: the digest is always the session's
\* own, and only a dirty worktree carries an exact-recheck fingerprint.
VerifiedChecks ==
    {e \in EvidenceCheck : e.health = "captured_dirty" <=> e.fingerprint # None}

-----------------------------------------------------------------------------
GateStatus == {"unexplored", "emerging", "assisted", "supported", "stale", "disputed"}
InsightStatus == {"confirmed", "working_model", "open_question", "stale", "disputed"}
Provenance == {"learner_explicit", "agent_inferred", "jointly_confirmed"}

GateAssessment == [status : GateStatus, cited : BOOLEAN]
Gates == [GateIds -> GateAssessment]
NewGates == [g \in GateIds |-> [status |-> "unexplored", cited |-> FALSE]]

Entry == [status : InsightStatus \cup {"absent"},
          provenance : Provenance \cup {"none"},
          cited : BOOLEAN]
Absent == [status |-> "absent", provenance |-> "none", cited |-> FALSE]
Model == [Entries -> Entry]
NewModel == [x \in Entries |-> Absent]

\* A result proposes one question, an assessment of every gate, and a partial
\* update of the model ("absent" entries are not in the delta).
AgentTurn == [question : Questions, gates : Gates, delta : Model]

\* Mutant: a supported gate need not cite a learner turn.
ValidGateUncited(g, answered) == g.cited => answered

\* "answered" says whether the topic has any learner turn to cite.
ValidGate(g, answered) ==
    /\ g.cited => answered
    /\ g.status = "supported" => g.cited

ValidEntry(x, answered) ==
    x.status # "absent" =>
        /\ x.provenance \in Provenance
        /\ x.cited => answered
        /\ x.provenance = "agent_inferred" => x.status = "working_model"
        /\ x.status = "confirmed" => x.cited

ValidAgentTurn(turn, answered) ==
    /\ \A g \in GateIds : ValidGate(turn.gates[g], answered)
    /\ \A x \in Entries : ValidEntry(turn.delta[x], answered)

-----------------------------------------------------------------------------
StatusTransitions ==
    [working_model |-> {"confirmed", "stale", "disputed"},
     open_question |-> {"working_model", "confirmed", "stale", "disputed"},
     confirmed     |-> {"stale", "disputed"},
     stale         |-> {"working_model", "confirmed", "disputed"},
     disputed      |-> {"working_model", "confirmed", "stale"}]

ProvenanceTransition(before, after) ==
    \/ after = before
    \/ before \in {"agent_inferred", "learner_explicit"} /\ after = "jointly_confirmed"

ValidUpdate(before, after) ==
    (before.status # "absent" /\ after.status # "absent") =>
        /\ before.cited => after.cited
        /\ after.status \in StatusTransitions[before.status]
        /\ ProvenanceTransition(before.provenance, after.provenance)

ValidUpdates(model, delta) == \A x \in Entries : ValidUpdate(model[x], delta[x])

ApplyUpdates(model, delta) ==
    [x \in Entries |-> IF delta[x].status = "absent" THEN model[x] ELSE delta[x]]

\* What a new evidence baseline does to conclusions drawn from the old one.
Downgrade(gates) ==
    [g \in GateIds |->
        IF gates[g].status \in {"emerging", "assisted", "supported"}
        THEN [gates[g] EXCEPT !.status = "stale"]
        ELSE gates[g]]

Unconfirm(model) ==
    [x \in Entries |->
        IF model[x].status = "confirmed"
        THEN [model[x] EXCEPT !.status = "stale"]
        ELSE model[x]]

Confirmed(model) == {x \in Entries : model[x].status = "confirmed"}

\* Mutant: the gates are not consulted.
MayCompleteEarly(gates, model) ==
    Confirmed(model) \cap Bridges # {}

MayComplete(gates, model) ==
    /\ \A g \in GateIds : gates[g].status = "supported"
    /\ Confirmed(model) \cap Bridges # {}
===============================================================================
