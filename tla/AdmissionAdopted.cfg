\* A process dies and its work is tried again: the lease that is found expires
\* before its first heartbeat.
SPECIFICATION Spec
CONSTANTS
  t1 = t1
  t2 = t2
  t3 = t3
  c1 = c1
  Tasks = {t1, t2}
  Calibrators = {}
  Keys = {t1, t2, c1}
  Key <- OwnKey
  Priority <- CalibrationFirst
  Limits = {1}
  Late = {}
  Mortal = {t1}
  Nobody = Nobody
PROPERTY StrictBudget
