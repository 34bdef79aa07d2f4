--------------------------- MODULE MCTaskTracing ---------------------------
(* One conversation of up to three tasks, two tool calls, two commands.      *)
EXTENDS TaskTracing, TLC

\* The widget answers every call alike; another client may mix its verdicts.
MCAnswers == {{"approved"}, {"approved", "denied"}}

MCSymmetry == Permutations(Call)

=============================================================================
