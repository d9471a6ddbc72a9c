SPECIFICATION Spec
CONSTANTS
  None = None
  NoFile = NoFile
  NoRef = NoRef
  Gone = Gone
  Nobody = Nobody
  p1 = p1
  ws = ws
  s1 = s1
  r1 = r1
  main = main
  dev = dev
  HEAD = HEAD
  Latest = Latest
  g = g
  x = x
  y = y
  d1 = d1
  d2 = d2
  d3 = d3
  c1 = c1
  c2 = c2
  fp = fp
  i1 = i1
  i2 = i2
  st1 = st1
  st2 = st2
  Caller = {a, b, c}
  ProcessOf <- Apart
  NoCache = {b, c}
  DryRun = {c}
  Part = {1}
  KeyLocked = FALSE
  MayEnd = {b}
  MaxFaults = 1
  Action = {g, x, y}
  Kind <- TheKind
  Src <- TheSrc
  Dst <- TheDst
  Change = {c1, c2}
  Conflicts <- OneWay
  MaxRuns = 2
  MaxMishaps = 1
  Updater = {u1}
  MaxVersion = 1
  MaxInode = 4
  MaxHarm = 2
  Requester = {q1, q2, q3}
  KindOf <- Wishes
  Given = {"rebuild"}
  Random = {"6b"}
  Invalid = {".."}
  Approver = {a1, a2}
  Nothing = None
  MaxLinks = 2
  MaxApproves = 3
  MaxSlips = 1
  Group = {Root, g1}
  Root = Root
  Task = {t1, t2}
  Slack = 0
  NotYet = NotYet
  g1 = g1
  t1 = t1
  t2 = t2
  Main = Main
  src = src
  sh = sh
  vendor = vendor
  ls = ls
  cd = cd
  p2 = p2
  q1 = q1
  q2 = q2
  q3 = q3
  n1 = n1
  n2 = n2
  deno = deno
  nodejs = nodejs
  v9 = v9
  v10 = v10
  beta = beta
  Locker = {k1, k2}
  Space = {ws, Home}
  Home = Home
  Tool = {1}
  Source = {s1}
  Repo = {r1}
  RepoOf <- TheRepo
  Branch = {main, dev}
  Default = main
  Commit = {c1, c2}
  Configs <- TheConfigs
  MaxOps = 2
  MaxMoves = 1
  MaxConfigEdits = 1
  MaxLockFaults = 1
  Module = {1, 2, 3}
  Provider <- TheProvider
  Tree <- TheTree
  Files <- TheFiles
  Origin <- TheOrigin
  PlaceSteps <- TheSteps
  Bundle <- TheBundle
  Icon = {i1, i2}
  Names <- TheNames
  Relocated = FALSE
  Setting = {st1, st2}
  Vacant = None
  MaxApplies = 2
  MaxPipelineFaults = 1
  Tools <- TheTools
  File = {src, sh, vendor}
  NoValue = None
  MaxTreeEdits = 1
  MaxCheckFaults = 1
  Command = {ls, cd}
  Trimmed <- TheTrimmed
  Recorder = {p1, p2}
  Old <- TheOld
  PerSecond = 10
  MaxSecond = 5
  Limit = 2
  Unset = None
  MaxClock = 2
  MaxIngests = 1
  Job = {1, 2, 3, 4}
  JobKind <- TheJobs
  CopyBack = {3}
  Node = {n1, n2}
  Here = ThisHost
  Builder = Builder
  Nixpkgs <- ThePkgs
  MaxRev = 2
  MaxGcs = 1
  MaxReboots = 1
  MaxHitches = 1
  NoAction = None
  Alias = {"a", "o"}
  Reference <- TheReferences
  Path <- ThePaths
  InputVersion = {"v1"}
  ModuleName = "m"
  Item <- TheItems
  Locked <- TheLocks
  Unstated = None
  Packages <- ThePackages
  ToolVersion = {v9, v10, beta}
  PartsOf <- TheParts
  Asked <- TheAsked
  AnyVersion = Latest
  Unasked = None
  Levels = 2
  ToolTrees <- TheToolTrees
  Leftovers <- TheLeftovers
  Wants <- TheWants
  MaxInstalls = 1
CHECK_DEADLOCK FALSE
SYMMETRY AnyLocker
INVARIANTS
  LockIsObeyed ReportedMeansSafe BinaryIsSound BundleIsWhole EveryFileHasOnePlace
  ShownOnce SilenceIsGoodNews OutputIsRead
  HistoryIsKept QueueIsHonest BuildsAreCurrent RoadsMeet ShimIsRight
PROPERTIES
   BranchWorkKept InstallKept
