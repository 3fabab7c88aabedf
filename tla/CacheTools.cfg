SPECIFICATION ToolsSpec
CONSTANTS
  Unset = "any"
  Payloads = {"one", "two", "any", "semantic"}
  Tasks = {"one", "two"}
  PlanValues = {plan}
  Score <- OneTwoAlike
  Threshold = 2
  MaxEntries = 3
  MaxPuts = 5
  MaxHits = 1
  Nodes = {"n1"}
  LevelOf <- LevelsOfNodes
  OwnerOf <- OwnersOfNodes
  Filters <- ByLevel
INVARIANTS ExactIsLatest DeletedStaysDeleted
           ExactDescriptionWins AnswersWereTrue
CHECK_DEADLOCK FALSE
