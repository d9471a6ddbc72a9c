SPECIFICATION DaemonSpec
CONSTANTS
  c1 = c1
  h = h
  Client = {c1, h}
  Sender = {h}
  Output = 1
  OutCap = 2
  MaxHangups = 0
CHECK_DEADLOCK FALSE
PROPERTY DaemonRestarts
