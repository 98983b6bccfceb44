SPECIFICATION RunsSpec
CONSTANTS
  Scenes = {"RETRIES"}
  Runtimes = {a, b}
  Runs = {r1, r2, r3}
  Keys = {k}
  NoRun = NoRun
  NoKey = NoKey
  NoRuntime = NoRuntime
  Handlers = {}
  Disturbances = {"OVERLAP"}
SYMMETRY Symmetry
INVARIANTS
  LiveRunHoldsKey
CHECK_DEADLOCK FALSE
