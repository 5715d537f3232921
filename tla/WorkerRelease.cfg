CONSTANTS
  Run = {1}
  Workspace = {w1}
  Owner = {o1, o2}
  NoOwner = NoOwner
  Harness = {h1}
  Scope = {k1}
  ApprovalId = {a1}
  ReadonlyRun = {}
  LeaseTTL = 2
  MaxDelay = 0
  RetryDelays = {1}
  RetryLimit = 100
  MaxAttempts = 1
  HeartbeatInterval = 1
  SafeForWrite = TRUE
  StoreFaults = TRUE
  Prompt = FALSE
  MayCrash = TRUE
  WorkspaceOf <- OneWorkspace
  HarnessOf <- OneHarness
  HarnessesOf <- AllHarnesses
  Covers <- SameScope
SPECIFICATION FairSpec
PROPERTIES StoppedWorkIsReleased
CHECK_DEADLOCK FALSE
