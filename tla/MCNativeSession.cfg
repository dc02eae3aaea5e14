CONSTANTS
  Tasks = {t1}
  Calls = {c1, c2}
  NoCall = NoCall
  MaxCrashes = 1
SPECIFICATION Spec
INVARIANT SettledByOneCallEach
PROPERTIES
  StopIsNeverReopened
  NoEndlessStopping
  KeepsPromise
CHECK_DEADLOCK FALSE
