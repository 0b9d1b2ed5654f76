\* One job and two polling clients under fair scheduling.
SPECIFICATION FairSpec
CONSTANTS
  Clients = {c1, c2}
  Jobs = {j1}
  Versions = {v1}
  Settings = {s1}
  None = None

PROPERTIES
  JobsEnd
  LeaseReturns
  EarlyCancelNeverSucceeds
