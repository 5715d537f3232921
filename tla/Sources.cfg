CONSTANTS
  Schedules = {1}
  Studio = {s1, s2}
  Plans <- SmallPlans
  MaxCatchUp = 2
  MaxTolerance = 1
  Times = {0, 1, 2, 5, 12}
  MaxFaults = 1
  Change = {c1}
  Poller = {l1, h1}
  PollLoop = l1
  NoTime = NoTime
  Slack = 1
  Lookback = 1
  Grain = 2
  Interval = 1
  MaxBackoff = 2
  ResetDelay = 3
  MaxChangeAt = 0
  MaxNow = 2
  MaxErrors = 1
SPECIFICATION Spec
INVARIANTS OccurrencesAreKept SourceIsFollowed
  
CHECK_DEADLOCK FALSE
