SPECIFICATION Spec
CONSTANTS
  a = a
  b = b
  c1 = c1
  c2 = c2
  c3 = c3
  Jobs = {a, b}
  Calls = {c1, c2, c3}
  JobOf <- JobOfCalls
  FaultKinds = {"admission", "projection"}
  MaxRecords = 2
  MaxFaults = 1
INVARIANTS ClaimIsExclusive
CHECK_DEADLOCK FALSE
