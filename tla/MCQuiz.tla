-------------------------------- MODULE MCQuiz --------------------------------
EXTENDS Quiz
CONSTANTS pa, pb, pc

\* A bank of four.  The business questions need a technical one each; without question 2 a mix
\* of two is 4 and 3, though 1 comes first.
MCBank == <<
    [kind |-> "choice", domain |-> "technical", depth |-> 1, needs |-> {}, styles |-> Styles],
    [kind |-> "text", domain |-> "business", depth |-> 2, needs |-> {1}, styles |-> Styles],
    [kind |-> "choice", domain |-> "business", depth |-> 1, needs |-> {4}, styles |-> {"regular"}],
    [kind |-> "text", domain |-> "technical", depth |-> 3, needs |-> {}, styles |-> {"regular"}]>>

\* A regular session that mixes, a Socratic one of a single question.
MCRequests == {
    [style |-> "regular", focus |-> "mixed", count |-> 2],
    [style |-> "socratic", focus |-> "technical", count |-> 1]}

\* Nothing was asked before.
MCHistories == {[q \in 1 .. 4 |-> "new"]}

\* What the theorems assume is true of this instance.
ASSUME TheoremsApply == PapersAreSound

\* Bound: a process that is held up, and what follows a robbery, are looked at up to the second
\* event and with fresh evidence.
HeldUpEarly ==
    robbed \/ (\E p \in Procs : At(p, "stalled")) => log.state.version <= 2 /\ changes = 0

Symmetry == Permutations(Procs)
=============================================================================
