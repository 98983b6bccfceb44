SPECIFICATION FairPlanSpec
CONSTANTS
  Lateness = {FALSE}
  Drivers = {a, b}
  NoDriver = NoDriver
  Steps <- DeliverSteps
  Action <- DeliverAction
  DependsOn <- DeliverDependsOn
  MaxAttempts <- DeliverMaxAttempts
  Evidence = {4}
  Required = {4}
  NoChange = {}
  Callers = {x}
  AttemptBound = 3
  Disturbances = {"CRASH", "APPROVAL"}
INVARIANTS
  TypeOK
  EffectsAreRecognised
  OneRunAtATime
  SuccessIsComplete
  CompletedIsVerified
PROPERTIES
  HolderWrites
  PlanAdvances
CHECK_DEADLOCK FALSE
