\* A turn begun before the ceiling was lowered.
SPECIFICATION Spec
CONSTANTS
  Interfaces = {i1}
  Workers = {w1, w2}
  Policies <- TwoPolicies
  Factory <- Wide
  Threshold = 2
  Cooldown = 1
  MaxDelay = 1
  MaxRevision = 1
  MaxFaults = 1
  None = None
INVARIANT CeilingKept
