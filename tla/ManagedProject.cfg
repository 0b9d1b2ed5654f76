\* Three clients, the project, three more directories, and one fault.  The
\* system stops where nobody can do anything: at a path that leads to a ghost.
SPECIFICATION Spec
CONSTANTS
  Clients = {c1, c2, c3}
  Dirs = {d1, d2, d3, d4}
  First = d1
  MaxFaults = 1
  None = None
SYMMETRY Alike
INVARIANT WorkersAlone
PROPERTIES
  MovedWhileIdle
  ProjectsAreKept
CHECK_DEADLOCK FALSE
