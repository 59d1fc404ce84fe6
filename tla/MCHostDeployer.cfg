SPECIFICATION FairSpec
CONSTANTS
  None = None
  Names = {a, d}
  Deployer = d
  Callers = {u}
  MaxCalls = 3
PROPERTY Returns
CHECK_DEADLOCK FALSE
