\* A job started without a plan, and an author who edits meanwhile.
SPECIFICATION Spec
CONSTANTS
  Clients = {c1}
  Jobs = {j1}
  Versions = {v1, v2}
  Settings = {s1}
  None = None

PROPERTY ReviewedImport
