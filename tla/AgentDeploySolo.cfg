SPECIFICATION Spec
CONSTANTS
  e1 = e1
  e2 = e2
  None = None
  Executors = {e1}
  Admitter = e1
  Builtins = {"browser", "code_interpreter"}
  Managed = TRUE
  OwnRole = TRUE
  Redeploy = FALSE
  Inherited = {}
  ToolsCap = 2
  PolicyCap = 2
  MemoryCap = 2
  MaxWaits = 3
  MaxFaults = 1
INVARIANTS CleanSlate
CHECK_DEADLOCK FALSE
