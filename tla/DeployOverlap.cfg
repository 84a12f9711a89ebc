SPECIFICATION DeploymentsSpec
CONSTANTS
  Sides = {"cycles", "polls"}
  NJobs = 2
  Budget = 1
  MaxDelay = 3
  Users = {"get", "poke"}
  Stuck = {}
  Broken = {}
  MaxLag = 3
  MaxFaults = 1
  McpJobs = {t1, t2}
  McpProcs = {p1, p2}
  MaxMcpFaults = 1
SYMMETRY Alike
INVARIANTS TypesOK InFlightExact ReadyIsServed
PROPERTIES UndoneAfterClaim OlderUnderNewerMark McpLedgerSpec
CHECK_DEADLOCK FALSE
