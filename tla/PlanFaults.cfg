SPECIFICATION PlanSpec
CONSTANTS
  Lateness = {TRUE, FALSE}
  Drivers = {a, b}
  NoDriver = NoDriver
  Steps <- JoinSteps
  Action <- JoinAction
  DependsOn <- JoinDependsOn
  MaxAttempts <- JoinMaxAttempts
  Evidence = {2}
  Required = {}
  NoChange = {}
  Callers = {x}
  AttemptBound = 3
  Disturbances = {"CRASH", "TIMEOUT", "APPROVAL", "ERROR", "EDIT"}
SYMMETRY Symmetry
INVARIANTS
  PolicyKept
  DependenciesRan
PROPERTIES
  FailureIsFinal
CHECK_DEADLOCK FALSE
