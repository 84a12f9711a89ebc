SPECIFICATION FairSpec
CONSTANTS
  e1 = e1
  e2 = e2
  None = None
  Executors = {e1, e2}
  Admitter = e1
  Builtins = {"browser"}
  Managed = TRUE
  OwnRole = TRUE
  Redeploy = TRUE
  Inherited = {"browser", "memory", "identity"}
  ToolsCap = 2
  PolicyCap = 2
  MemoryCap = 2
  MaxWaits = 1
  MaxFaults = 1
INVARIANTS StandingKept
PROPERTIES Terminates
CHECK_DEADLOCK FALSE
