CONSTANTS
  Piece = {"p1", "p2"}
  DirName = {"a", "b"}
  MaxReleases = 1
  MaxEditions = 1
  MaxLosses = 0
  Missing = Missing
SPECIFICATION ImportSpec
INVARIANTS FailedUpdateKeepsArtifact
CHECK_DEADLOCK FALSE
