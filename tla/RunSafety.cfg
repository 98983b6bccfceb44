SPECIFICATION RunsSpec
CONSTANTS
  Scenes = {"OUTCOMES", "ACCOUNTS", "CLEANUPS", "RETRIES"}
  Runtimes = {a, b}
  Runs = {r1, r2, r3}
  Keys = {k}
  NoRun = NoRun
  NoKey = NoKey
  NoRuntime = NoRuntime
  Handlers = {"FINISH", "CANCEL", "CLEANUP"}
  Disturbances = {"CRASH", "SHUTDOWN", "STALE", "STORAGE"}
SYMMETRY Symmetry
INVARIANTS
  OutcomeIsTruthful
  InterruptedOnlyWhenLost
  NoUnaccountedChild
  FinalizedHasNoPending
  LiveRunHoldsKey
PROPERTIES
  OutcomeIsFinal
  KeepsContract
CHECK_DEADLOCK FALSE
