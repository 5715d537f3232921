CONSTANTS
  Run = {1}
  Workspace = {w1}
  Owner = {o1, o2}
  NoOwner = NoOwner
  Harness = {h1}
  Scope = {k1}
  ApprovalId = {a1, a2}
  ReadonlyRun = {}
  LeaseTTL = 2
  MaxDelay = 1
  RetryDelays = {1}
  RetryLimit = 1
  MaxAttempts = 3
  WorkspaceOf <- OneWorkspace
  HarnessOf <- OneHarness
  HarnessesOf <- AllHarnesses
SYMMETRY OwnerSymmetry
SPECIFICATION Spec
INVARIANTS TypeOK OneOpenAttempt OnePendingApproval RowsAgree
PROPERTIES TerminalStable FollowsLifecycle
CHECK_DEADLOCK FALSE
