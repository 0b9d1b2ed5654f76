\* Three tasks, two of which share their owner string and one of which comes late,
\* and a calibration; every pause and limit, and deaths of a task and a calibration.
SPECIFICATION FairSpec
CONSTANTS
  t1 = t1
  t2 = t2
  t3 = t3
  c1 = c1
  Tasks = {t1, t2, t3}
  Calibrators = {c1}
  Keys = {t1, t2, c1}
  Key <- SharedKey
  Priority <- CalibrationFirst
  Limits = {1, 2}
  Late = {t3}
  Mortal = {t1, c1}
  Nobody = Nobody
PROPERTIES
  OneBudget
  Served
  CalibrationEnds
