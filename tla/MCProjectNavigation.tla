------------------------ MODULE MCProjectNavigation ------------------------
(* Two projects, one of them still to be created.                          *)
EXTENDS ProjectNavigation

CONSTANTS a, b

\* The providers have answered before the user asks for a second thing.
ProbedEarly ==
    asks > 1 => \A i \in Slots : ui.threads[i] # None => ui.threads[i].does # "probe"

\* The second project is verified once.
OnceVerified == backend[b].job <= 1

=============================================================================
