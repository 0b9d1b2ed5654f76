\* Two clients and two successive jobs; the author switches between two versions
\* of the files during the first.
SPECIFICATION Spec
CONSTANTS
  Clients = {c1, c2}
  Jobs = {j1, j2}
  Versions = {v1, v2}
  Settings = {s1}
  None = None
SYMMETRY Alike
CONSTRAINT SecondJobIsQuiet
INVARIANTS
  AtMostOneWorker
  NoFalseInterruption
  MutatingWorkerOwnsProject
  CancelRequestReachesWorker
PROPERTIES
  ImplementsLifecycle
  PlannedImport
