\* Two projects whose runs have the same number use the same owner string: the
\* first to end releases the lease of both.
SPECIFICATION Spec
CONSTANTS
  t1 = t1
  t2 = t2
  t3 = t3
  c1 = c1
  Tasks = {t1, t2, t3}
  Calibrators = {}
  Keys = {t1, t2, c1}
  Key <- SharedKey
  Priority <- CalibrationFirst
  Limits = {1}
  Late = {}
  Mortal = {}
  Nobody = Nobody
PROPERTY StrictBudget
