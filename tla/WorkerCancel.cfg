CONSTANTS
  Run = {1}
  Workspace = {w1}
  Owner = {o1}
  NoOwner = NoOwner
  Harness = {h1}
  Scope = {k1}
  ApprovalId = {a1}
  ReadonlyRun = {}
  LeaseTTL = 3
  MaxDelay = 0
  RetryDelays = {1}
  RetryLimit = 100
  MaxAttempts = 2
  HeartbeatInterval = 1
  SafeForWrite = TRUE
  StoreFaults = FALSE
  Prompt = TRUE
  MayCrash = FALSE
  WorkspaceOf <- OneWorkspace
  HarnessOf <- OneHarness
  HarnessesOf <- AllHarnesses
  Covers <- SameScope
SPECIFICATION FairSpec
PROPERTIES CancelHonoured
CHECK_DEADLOCK FALSE
