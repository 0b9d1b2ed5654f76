-------------------------- MODULE MCDependencyDepot --------------------------
(* Instances of DependencyDepot for TLC. *)
EXTENDS DependencyDepot, TLC

\* Projects of the same origin are alike.
Alike == Permutations(Imported) \cup Permutations(Projects \ Imported)
=============================================================================
