------------------------------ MODULE MCAdmission ------------------------------
(* Instances of Admission for TLC. *)
EXTENDS Admission

CONSTANTS t1, t2, t3, c1

\* Every user has an owner string of its own.
OwnKey == [u \in Users |-> u]

\* Two tasks have the owner string of the same run id of two projects.
SharedKey == [u \in Users |-> IF u = t3 THEN t2 ELSE u]

\* Tasks have one priority, and calibrations come first.
CalibrationFirst == [k \in Keys |-> IF k = c1 THEN 0 ELSE 1]
===============================================================================
