--------------------------- MODULE MCManagedProject ---------------------------
(* Instances of ManagedProject for TLC. *)
EXTENDS ManagedProject, TLC

\* Clients are alike, and so are the directories still to be made.
Alike == Permutations(Clients) \cup Permutations(Dirs \ {First})
=============================================================================
