SPECIFICATION CacheSpec
CONSTANTS
  a = a
  b = b
  c = c
  Gone = Gone
  Nobody = Nobody
  Part = {p1, p2}
  Caller = {a, b}
  ProcessOf <- Apart
  NoCache = {}
  DryRun = {}
  KeyLocked = FALSE
  MayEnd = {}
  MaxFaults = 0
INVARIANT LiveTreeWhole
