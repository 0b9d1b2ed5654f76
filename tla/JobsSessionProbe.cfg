\* An observer or a reader meets a worker that is about to start.
SPECIFICATION Spec
CONSTANTS
  Clients = {c1, c2}
  Jobs = {j1}
  Versions = {v1}
  Settings = {s1}
  None = None

PROPERTY LockedMeansMutating
