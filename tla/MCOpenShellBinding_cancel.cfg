CONSTANTS
  Tasks = {t1}
  MaxCrashes = 0
SPECIFICATION Spec
PROPERTY NoStageAfterCancel
CHECK_DEADLOCK FALSE
