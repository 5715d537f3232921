CONSTANTS
  r1 = r1
  r2 = r2
  k1 = k1
  k2 = k2
  RunId = {1, 2}
  MaxTries = 2
  Pruner = pr
  Deleter = {d1}
  LogLimit = 1
  Proposal = {p1, p2}
  Decider = {d1, d2}
  MaxEdits = 1
  MaxStops = 1
  OutcomeId = {1, 2, 3}
  OutcomeRun = {r1, r2}
  Routed = {r1}
  Key = {k1, k2}
  OutcomeHandler = {h1, h2}
  Evaluator = ev
  Post <- SmallPosts
  OutcomeLimit = 2
  Window = 0
  MaxDay = 1
  Nothing = Nothing
  Kid = {"k1"}
  MaxOutput = 3
  EditorId = {e1, e2}
  Caller = {c1}
  RequestId = {i1}
  MaxRevision = 2
  None = None
  MaxEvents = 4
  BatchSize = 2
  MaxDrops = 2
SPECIFICATION Spec
INVARIANTS  ApiIsSafe
PROPERTIES  DecisionStands  CancelledEnds NothingIsLost StreamIsReplayed
CHECK_DEADLOCK FALSE
