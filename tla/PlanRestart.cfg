SPECIFICATION PlanSpec
CONSTANTS
  Lateness = {FALSE}
  Drivers = {a, b}
  NoDriver = NoDriver
  Steps <- PairSteps
  Action <- PairAction
  DependsOn <- PairDependsOn
  MaxAttempts <- PairMaxAttempts
  Evidence = {}
  Required = {}
  NoChange = {}
  Callers = {x, y}
  AttemptBound = 2
  Disturbances = {"APPROVAL", "OVERLAP"}
PROPERTIES
  FailureIsFinal
CHECK_DEADLOCK FALSE
