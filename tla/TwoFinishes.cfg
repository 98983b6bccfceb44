SPECIFICATION WorktreeSpec
CONSTANTS
  Callers = {a, b}
  Finishers = {a, b}
  Collectors = {}
  NoOwner = NoOwner
  Git = Git
  MaxCommits = 2
  Disturbances = {}
INVARIANT DeliveredIsReachable
CHECK_DEADLOCK FALSE
