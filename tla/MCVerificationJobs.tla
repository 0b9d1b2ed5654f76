-------------------------- MODULE MCVerificationJobs --------------------------
(* Instances of VerificationJobs for TLC. *)
EXTENDS VerificationJobs, TLC

\* Clients are alike, and so are job identities, versions and settings.
Alike == Permutations(Clients) \cup Permutations(Jobs)
         \cup Permutations(Versions) \cup Permutations(Settings)

\* Bound of a run: with a second job nobody has a change to review, neither in
\* the files nor in what was asked for earlier.
SecondJobIsQuiet ==
  (\A j \in Jobs : state[j] # "ABSENT") =>
    /\ source = base
    /\ \A j \in Jobs : request[j].plan = None
    /\ \A c \in Clients : want[c] = None \/ want[c].plan = None
=============================================================================
