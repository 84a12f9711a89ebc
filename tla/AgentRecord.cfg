SPECIFICATION AgentSpec
CONSTANTS
  a = a
  b = b
  c1 = c1
  c2 = c2
  c3 = c3
  Jobs = {a, b}
  Calls = {c1, c2, c3}
  JobOf <- JobOfCalls
  FaultKinds = {"admission", "cleanup"}
  MaxRecords = 2
  MaxFaults = 2
  ClientCallers = {p1, p2}
  ClientSweepers = {d1}
  MaxClients = 4
  MaxClientFaults = 1
SYMMETRY Alike
INVARIANTS TypesOK SharedDraftKept AdmittedReferenced StrandedIsRecorded OneClient
PROPERTIES HandedOut TraceKept
CHECK_DEADLOCK FALSE
