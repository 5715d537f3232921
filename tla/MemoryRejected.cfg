CONSTANTS
  Proposal = {p1}
  Decider = {d1, d2}
  MaxEdits = 1
  MaxStops = 1
SPECIFICATION MemorySpec
PROPERTIES LandsOnlyIfApproved
CHECK_DEADLOCK FALSE
