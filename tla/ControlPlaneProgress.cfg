SPECIFICATION FairSpec
CONSTANTS
  Parts = {"sensitivity", "connected", "governance", "policy"}
  LedgerTools = {t1}
  LedgerWriters = {p1}
  LedgerReaders = {r}
  ReadRetries = 3
  MaxSnapshots = 1
  MaxLedgerFaults = 0
  SensExecs = {p1}
  MaxLedgerVersion = 3
  MaxChangeWrites = 5
  MaxSensFaults = 2
  CatalogTools = {t1}
  Observers = {"poller", "admin"}
  SyncRetries = 2
  MaxChanges = 3
  MaxClock = 1
  MaxRereads = 1
  MaxCatalogFaults = 1
  Areas = {t1}
  GovProcs = {p1, p2}
  MaxScans = 2
  MaxGovEvents = 1
  PolicyActions = {t1}
  PolicyCallers = {p1, p2}
  MaxPolicies = 3
  MaxPolicyChanges = 1
  MaxPolicyFaults = 1
INVARIANTS AgreedIsServed FailureIsHonest
PROPERTIES CatalogConverges VerdictReaches StaleReclaimed
CHECK_DEADLOCK FALSE
