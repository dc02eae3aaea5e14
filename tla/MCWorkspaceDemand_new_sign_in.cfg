SPECIFICATION Spec
CONSTANTS
  a = a
  b = b
  Runtimes = {a, b}
  InitialPool <- MCInitialPool
  Members = {a}
  MaxSessions = 2
  Idle = 1
  Stale = 0
  MaxUnits = 2
  MaxStarts = 1
  WarmRunning = 1
  WarmSlots = 1

PROPERTY NewSignInNeverWaits
