\* The author restates a lemma between the approval and the next pass.
SPECIFICATION Spec
CONSTANTS
  Claims = {a}
  Statements = {s1, s2}
  Proofs = {p1, p2}
  Absent = Absent
  Unsound = Unsound
  Manuscripts <- Restatement
  ArgumentAudit = FALSE
  PreserveCertified = TRUE
  RequireReview = TRUE
  Commands = {"approve"}
  Tools = {"formalize"}
  WorkerFaults = {}
  a = a
  b = b
  s1 = s1
  s2 = s2
  p1 = p1
  p2 = p2
INVARIANTS
  CertifiedMeansProved
