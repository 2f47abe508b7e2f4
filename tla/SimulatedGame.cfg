SPECIFICATION FairSpec
CONSTANTS
  Players = {769}
  Impostors = {769}
  Tasks = {1025}
  Operators = {"operator1", "operator2"}
  SpoofedNames = {"MEETING_END", "COMPLETED", "TASK_FAIL", "CONFIG_NO_PENALTY"}
  SpoofedSources = {513, 1025}
  MaxRequests = 2
  MaxResets = 1
  MaxSetbacks = 1
  MaxPolls = 1
INVARIANTS
  ReportsReachController
  TaskDoneOnce
PROPERTY FailureIsPenalised
CHECK_DEADLOCK FALSE
