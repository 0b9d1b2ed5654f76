\* A project of the package and one the user brought, two deaths.
SPECIFICATION Spec
CONSTANTS
  Projects = {p1, p2}
  Imported = {p2}
  None = None
  Deaths = 2
SYMMETRY Alike
INVARIANTS
  ClaimedDepotIsWhole
PROPERTY UserPackagesKept
