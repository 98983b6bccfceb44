SPECIFICATION RunsSpec
CONSTANTS
  Scenes = {"CLEANUPS"}
  Runtimes = {a, b}
  Runs = {r1}
  Keys = {}
  NoRun = NoRun
  NoKey = NoKey
  NoRuntime = NoRuntime
  Handlers = {"CANCEL", "CLEANUP"}
  Disturbances = {}
SYMMETRY Symmetry
INVARIANTS
  CleanedTaskIsQuiet
CHECK_DEADLOCK FALSE
