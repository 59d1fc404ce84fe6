SPECIFICATION Spec
CONSTANTS
  Keys = {k1, k2}
  Msgs = {m1, m2}
  Pullers = {p1}
  None = None
  Sync = TRUE
  MaxLog = 3
  Faults = {"kill", "power", "torn", "short", "sync", "dirsync"}
SYMMETRY Symmetry
INVARIANTS NoLoss NoResurrection
CONSTRAINT Explored
