--------------------------- MODULE MCCacheAdmission ---------------------------
(* Instances of CacheAdmission for TLC. *)
EXTENDS CacheAdmission, TLC

\* Sessions of different projects are alike.
Alike == Permutations(Sessions)
=============================================================================
