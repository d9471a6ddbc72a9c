SPECIFICATION Spec
CONSTANTS
  NoLang = NoLang
  NoDoc = NoDoc
  ext = ext
  go = go
  cue = cue
  gopls = gopls
  lint = lint
  main = main
  conf = conf
  Doc = {main, conf}
  Lang = {go, cue}
  Server = {gopls, lint}
  LangOf <- TheLangOf
  Bindings <- TheBindings
  Capable <- TheCapable
  Paced = TRUE
  MaxMessages = 2
  MaxCrashes = 1
  Absent = Absent
  Dir = Dir
  NoSource = NoSource
  d = d
  inner = inner
  g = g
  home = home
  file1 = file1
  file2 = file2
  script = script
  link = link
  srcA = srcA
  srcB = srcB
  Nothing = Nothing
  Latest = Latest
  g1 = g1
  g2 = g2
  Caller = {g1, g2}
  Asks <- TheAsks
  Release <- TheReleases
  Host = "android"
  Arch = "arm64"
  MaxMishaps = 1
  MaxDepth = 1
  Path = {d, inner, g}
  Version = {file1, file2, script, link}
  Home = home
  Parent <- TheParent
  KindOf <- TheKindOf
  SourceOf <- TheSourceOf
  Bundled = {srcA}
  Configs <- Homes
  IgnoreSets <- IgnoreNoneOrG
  Slots = 2
  NoCacheUsed = TRUE
  DryRunUsed = TRUE
  MaxApplies = 2
  MaxFaults = 1
  MaxEdits = 1
CHECK_DEADLOCK FALSE
INVARIANTS
  AnswersAreWhole BackendsFollowDocs NoOrphans SuccessMeansConverged RightAsset
PROPERTIES
  FilesAreSafe WorkEnds
