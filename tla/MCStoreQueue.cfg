SPECIFICATION FairSpec
CONSTANTS
  Keys = {k1}
  Msgs = {m1, m2}
  Pullers = {p1, p2}
  None = None
  Sync = TRUE
  MaxLog = 4
  Faults = {"power"}
INVARIANT MemoryMatchesLog
PROPERTIES ImplementsDurableQueue PullersReturn
