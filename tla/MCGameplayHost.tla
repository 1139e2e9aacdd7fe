--------------------------- MODULE MCGameplayHost ---------------------------
(* Small instances of GameplayHost for TLC. *)
EXTENDS GameplayHost

\* Sequences of two steps, with a delay that is normalised and a cycle of three
\* ticks.
TwoSteps == {<<0, 1>>}

=============================================================================
