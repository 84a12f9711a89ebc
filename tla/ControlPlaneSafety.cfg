SPECIFICATION Spec
CONSTANTS
  Parts = {"ledger", "sensitivity", "connected", "governance", "policy"}
  LedgerTools = {t1, t2}
  LedgerWriters = {p1, p2}
  LedgerReaders = {r}
  ReadRetries = 3
  MaxSnapshots = 3
  MaxLedgerFaults = 1
  SensExecs = {p1, p2}
  MaxLedgerVersion = 2
  MaxChangeWrites = 3
  MaxSensFaults = 1
  CatalogTools = {c}
  Observers = {"poller", "admin"}
  SyncRetries = 2
  MaxChanges = 2
  MaxClock = 1
  MaxRereads = 1
  MaxCatalogFaults = 1
  Areas = {t1, t2}
  GovProcs = {p1, p2}
  MaxScans = 2
  MaxGovEvents = 1
  PolicyActions = {t1, t2}
  PolicyCallers = {p1, p2}
  MaxPolicies = 3
  MaxPolicyChanges = 1
  MaxPolicyFaults = 0
SYMMETRY Alike
INVARIANTS TypesOK ReadsWhole CommittedKept  ApprovedOnEvidence SuccessIsExact
PROPERTIES LedgerAtomic ReopenedByAdmin RulingStands NeverBare
CHECK_DEADLOCK FALSE
