CONSTANTS
  Call = {"c1", "c2"}
  InboxCap = 2
  MaxNoise = 2
  Tool = {"t1", "t2"}
  Resource = {"s1"}
  Prompt = {"p1", "p2"}
  WithArguments = {"p1"}
  NoItem = NoItem
  MaxCalls = 2
  EvalArtifact <- TwoArtifacts
  Suite <- SmallSuites
  ProjectDefault <- SmallDefaults
  CaseFilter = {NoCase, "two"}
  CaseName = {"one", "two", "three"}
  NoCase = NoCase
  Piece = {"p1", "p2"}
  DirName = {"a", "b"}
  MaxReleases = 1
  MaxEditions = 1
  MaxLosses = 1
  Missing = Missing
  Item = {"m1", "m2", "s1"}
  Merged = {"m1", "m2"}
  Unsupported = {}
  Requires <- SkillNeedsServer
  Rank <- DirectoryOrder
  MaxChanges = 1
  MaxExports = 2
  MaxMishaps = 1
  Absent = Absent
  Agent = {"a1", "a2", "a3"}
  Skill = {"s"}
  TeamTool = {"t"}
  Definition <- SmallTeams
  BaseOf <- BaseNames
  MaxTeamEdits = 1
  NoPart = NoPart
SPECIFICATION Spec
INVARIANTS   EvaluationIsTrue   CyclesAreRefused PlansAreDelivered
PROPERTIES  ImportsAreExact 
CHECK_DEADLOCK FALSE
