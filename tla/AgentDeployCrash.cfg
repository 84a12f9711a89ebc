SPECIFICATION Spec
CONSTANTS
  e1 = e1
  e2 = e2
  None = None
  Executors = {e1, e2}
  Admitter = e1
  Builtins = {}
  Managed = FALSE
  OwnRole = TRUE
  Redeploy = FALSE
  Inherited = {}
  ToolsCap = 2
  PolicyCap = 2
  MemoryCap = 2
  MaxWaits = 1
  MaxFaults = 1
INVARIANTS TypeOK SurvivorsIntact SingleCompensator OneOutcomeLogged
PROPERTIES RoleOutlivesRuntime LedgerSpec
CHECK_DEADLOCK FALSE
