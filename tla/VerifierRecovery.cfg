\* One claim, every tool, every failure and every command of the author.
SPECIFICATION FairSpec
CONSTANTS
  Claims = {a}
  Statements = {s1}
  Proofs = {p1, p2}
  Absent = Absent
  Unsound = Unsound
  Manuscripts <- Single
  ArgumentAudit = TRUE
  PreserveCertified = FALSE
  RequireReview = TRUE
  Commands = {"approve", "reject", "resolve"}
  Tools = {"formalize", "refute", "clarify", "report", "depend"}
  WorkerFaults = {"provider", "technical", "unsound"}
  a = a
  b = b
  s1 = s1
  s2 = s2
  p1 = p1
  p2 = p2
INVARIANTS
  NoProvingWithoutRun
  EvidenceIsSound
PROPERTIES
  PassEnds
