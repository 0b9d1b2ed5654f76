\* Two sessions with reservations of one or two bytes, one death.
SPECIFICATION Spec
CONSTANTS
  Sessions = {s1, s2}
  Bulk = Bulk
  Trash = Trash
  None = None
  Requests = {1, 2}
  Ceiling = 2
  Disk = 4
  MinFree = 1
  Deaths = 1
SYMMETRY Alike
INVARIANTS
  LiveSessionReserved
  FreeSpaceKept
PROPERTY ActiveNotEvicted
