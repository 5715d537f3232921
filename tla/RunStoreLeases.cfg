CONSTANTS
  Run = {1, 2}
  Workspace = {w1}
  Owner = {o1, o2}
  NoOwner = NoOwner
  Harness = {h1}
  Scope = {k1}
  ApprovalId = {a1}
  ReadonlyRun = {2}
  LeaseTTL = 2
  MaxDelay = 0
  RetryDelays = {0, 1}
  RetryLimit = 1
  MaxAttempts = 2
  WorkspaceOf <- OneWorkspace
  HarnessOf <- OneHarness
  HarnessesOf <- AllHarnesses
SYMMETRY OwnerSymmetry
SPECIFICATION Spec
INVARIANTS LeaseIffHeld WriteExclusive RetryHasTimer
PROPERTIES LeasesAreLocks
CHECK_DEADLOCK FALSE
