SPECIFICATION PlanSpec
CONSTANTS
  Lateness = {TRUE}
  Drivers = {a, b}
  NoDriver = NoDriver
  Steps <- PairSteps
  Action <- PairAction
  DependsOn <- PairDependsOn
  MaxAttempts <- PairMaxAttempts
  Evidence = {}
  Required = {}
  NoChange = {}
  Callers = {x}
  AttemptBound = 2
  Disturbances = {"CRASH", "SLOW"}
PROPERTIES
  HolderWrites
CHECK_DEADLOCK FALSE
