SPECIFICATION ServicesSpec
CONSTANTS
  Callers = {a, b, c}
  Finishers = {a}
  Collectors = {b}
  NoOwner = NoOwner
  Git = Git
  MaxCommits = 3
  Disturbances = {"CRASH", "ERROR"}
  Tasks = {t1, t2}
  rm = rm
  touch = touch
  destructive = destructive
  cautious = cautious
  Starts = {s1, s2}
  Ops = {rm, touch}
  Rules = {destructive, cautious}
  ScopeOf <- OneScope
  Policies <- ThreePolicies
  Allow = Allow
  Deny = Deny
  MaxRequests = 2
  Installs = {i1}
  SkillCommits = {k1, k2}
  NoTree = NoTree
  PartTree = PartTree
  InstallFaults = {"CRASH", "ERROR", "DROP"}
  Processes = {p1, p2}
  NoProcess = NoProcess
  NoDoc = NoDoc
  MaxEntries = 2
  PageLimits = {1, 2}
  AppendBound = 4
  StoreFaults = {"CRASH", "ERROR"}
  ChunkBytes = 2
  LiveBytes = 3
  DurableBytes = 2
  ChunkBound = 4
  OutputFaults = {"CRASH"}
  Supervisors = {d1, d2}
  NoSupervisor = NoSupervisor
  Attempts = {a1, a2}
  NoAttempt = NoAttempt
  StartKeys = {k}
  NoStartKey = NoStartKey
  OneStarter = TRUE
  SupervisorFaults = {"CRASH", "TIMEOUT", "ERROR"}
SYMMETRY TaskSymmetry
INVARIANTS
  ServicesTypeOK
  RetentionIsExact
  CleanedIsGone
  EvidenceIsCurrent
  DoneIsReviewed
  NothingBuiltUnsettled
  OnceMeansOnce
  StartsAreApproved
  ProvenanceIsKept
  InstallsAreWhole
  ReadersMissNothing
  ReadersMissNoOutput
  EndIsTheEnd
  TailSaysIfCut
  ListenerIsReachable
PROPERTIES
  GcLosesNoCommit
  KeepsAuditContract
  KeepsStartContract
CHECK_DEADLOCK FALSE
