\* The depot of a job whose claim was released before its audits and builds.
SPECIFICATION Spec
CONSTANTS
  Projects = {p1, p2}
  Imported = {p2}
  None = None
  Deaths = 2
INVARIANT DepotKeptForJob
