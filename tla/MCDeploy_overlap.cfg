SPECIFICATION ApplySpec
CONSTANTS
  d = d
  f = f
  g = g
  home = home
  file1 = file1
  file2 = file2
  script = script
  link = link
  srcA = srcA
  srcB = srcB
  Home = home
  Absent = Absent
  Dir = Dir
  NoSource = NoSource
  Version = {file1, file2, script, link}
  Parent <- Parents
  KindOf <- Kinds
  SourceOf <- Sources
  Path = {d, f}
  Configs <- Overlapping
  IgnoreSets <- NoneIgnored
  Bundled <- NoBundles
  Slots = 2
  NoCacheUsed = FALSE
  DryRunUsed = FALSE
  MaxApplies = 2
  MaxFaults = 0
  MaxEdits = 0
INVARIANT FaultFreeApplySucceeds
