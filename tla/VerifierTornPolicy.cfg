\* A process dies while it supersedes the question of a conjecture.
SPECIFICATION Spec
CONSTANTS
  Claims = {a, b}
  Statements = {s1, s2}
  Proofs = {p1, p2}
  Absent = Absent
  Unsound = Unsound
  Manuscripts <- Edits
  ArgumentAudit = FALSE
  PreserveCertified = TRUE
  RequireReview = FALSE
  Commands = {}
  Tools = {"formalize", "clarify", "depend"}
  WorkerFaults = {}
  a = a
  b = b
  s1 = s1
  s2 = s2
  p1 = p1
  p2 = p2
INVARIANTS
  EveryClarificationIsAsked
