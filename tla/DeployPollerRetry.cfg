SPECIFICATION DeploymentsFairSpec
CONSTANTS
  Sides = {"cycles"}
  NJobs = 5
  Budget = 1
  MaxDelay = 3
  Users = {}
  Stuck = {5}
  Broken = {1, 2}
  MaxLag = 4
  MaxFaults = 2
  McpJobs = {t1}
  McpProcs = {p1}
  MaxMcpFaults = 0
INVARIANTS NoLongWait
PROPERTIES DraftsLeave JobsFinish
