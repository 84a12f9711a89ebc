SPECIFICATION FairSpec
CONSTANTS
  NJobs = 2
  Budget = 1
  MaxDelay = 3
  Users = {"poke"}
  Stuck = {}
  Broken = {}
  MaxLag = 3
  MaxFaults = 0
PROPERTIES LogFollows
