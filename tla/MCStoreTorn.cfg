SPECIFICATION Spec
CONSTANTS
  Keys = {k1}
  Msgs = {m1, m2}
  Pullers = {p1}
  None = None
  Sync = TRUE
  MaxLog = 4
  Faults = {"power", "torn"}
INVARIANT CrashSafe
