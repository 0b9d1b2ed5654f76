--------------------------- MODULE MCAdaptiveLimits ---------------------------
(* Instances of AdaptiveLimits for TLC. *)
EXTENDS AdaptiveLimits

Adaptive(ceiling) ==
  [minimum |-> 1, initial |-> 1, ceiling |-> ceiling, fixed |-> FALSE]

\* The machine's own settings, and a manual limit.
Wide == Adaptive(3)
Manual == [minimum |-> 1, initial |-> 2, ceiling |-> 2, fixed |-> TRUE]
TwoPolicies == {Wide, Manual}
=============================================================================
