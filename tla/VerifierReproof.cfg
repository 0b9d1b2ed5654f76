\* A crash while certificates are discarded for a fresh proof.
SPECIFICATION Spec
CONSTANTS
  Claims = {a}
  Statements = {s1, s2}
  Proofs = {p1, p2}
  Absent = Absent
  Unsound = Unsound
  Manuscripts <- Single
  ArgumentAudit = FALSE
  PreserveCertified = FALSE
  RequireReview = FALSE
  Commands = {}
  Tools = {"formalize"}
  WorkerFaults = {}
  a = a
  b = b
  s1 = s1
  s2 = s2
  p1 = p1
  p2 = p2
INVARIANTS
  CertifiedHasCertificate
