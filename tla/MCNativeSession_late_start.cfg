CONSTANTS
  Tasks = {t1}
  Calls = {c1}
  NoCall = NoCall
  MaxCrashes = 0
SPECIFICATION Spec
PROPERTY NoLaunchAfterStop
CHECK_DEADLOCK FALSE
