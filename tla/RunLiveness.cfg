SPECIFICATION FairRunsSpec
CONSTANTS
  Scenes = {"RECOVERY", "ENDINGS"}
  Runtimes = {a, b}
  Runs = {r1}
  Keys = {}
  NoRun = NoRun
  NoKey = NoKey
  NoRuntime = NoRuntime
  Handlers = {}
  Disturbances = {"CRASH", "SHUTDOWN", "STORAGE"}
PROPERTIES
  AbortResolves
  ShutdownEnds
  BootRecovers
CHECK_DEADLOCK FALSE
