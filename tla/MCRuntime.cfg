SPECIFICATION Spec
CONSTANTS
  None = None
  Unset = Unset
  Gone = Gone
  Nobody = Nobody
  l1 = l1
  l2 = l2
  w = w
  env = env
  exec = exec
  shim = shim
  Task = {t1, t2}
  Partial = {t2}
  MaxRude = 1
  Request = {r1, r2}
  Slots = 1
  Careless = {}
  Client = {c1, c2, h}
  Sender = {h}
  Output = 1
  OutCap = 1
  MaxHangups = 1
  Caller = {a, b, c}
  ProcessOf <- OneProcess
  NoCache = {b, c}
  DryRun = {c}
  Part = {p1, p2}
  KeyLocked = TRUE
  MayEnd = {}
  MaxFaults = 1
CHECK_DEADLOCK FALSE
INVARIANTS
  NoLineLost HooksRunLast BodiesAccounted OnceAndAsTold CacheIsSound
PROPERTIES
  CallsReturn
