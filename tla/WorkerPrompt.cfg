CONSTANTS
  Run = {1, 2}
  Workspace = {w1}
  Owner = {o1, o2}
  NoOwner = NoOwner
  Harness = {h1}
  Scope = {k1}
  ApprovalId = {a1}
  ReadonlyRun = {2}
  LeaseTTL = 3
  MaxDelay = 0
  RetryDelays = {1}
  RetryLimit = 100
  MaxAttempts = 1
  HeartbeatInterval = 1
  SafeForWrite = TRUE
  StoreFaults = FALSE
  Prompt = TRUE
  MayCrash = TRUE
  WorkspaceOf <- OneWorkspace
  HarnessOf <- OneHarness
  HarnessesOf <- AllHarnesses
  Covers <- SameScope
SYMMETRY OwnerSymmetry
SPECIFICATION WorkerSpec
INVARIANTS WorkIsCovered ProcessExclusive PendingIsWatched
CHECK_DEADLOCK FALSE
