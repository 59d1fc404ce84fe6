SPECIFICATION FairSpec
CONSTANTS
  None = None
  Names = {a, b, d}
  Deployer = d
  Callers = {u, v}
  MaxCalls = 5
INVARIANTS Settled InOrder
PROPERTY ReturnsUnlessStuck
CHECK_DEADLOCK FALSE
