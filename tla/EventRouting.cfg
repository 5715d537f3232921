CONSTANTS
  plain = plain
  broken = broken
  r2 = r2
  Event = {1, 2}
  Route = {r1, r2}
  Caller = {l1, c1}
  Loop = {l1}
  Revision = {plain, broken}
  Usable = {plain}
  Nothing = Nothing
  Manual = Manual
  PageLimit = 1
  MaxCrashes = 1
  Priority <- Ranked
  Matching <- AllMatch
SPECIFICATION SmallSpec
INVARIANTS TypeOK RoutedOnce
PROPERTIES RoutedIsFinal IngestedIsDecided
CHECK_DEADLOCK FALSE
