CONSTANTS
  Tasks = {t1, t2}
  Legacy = {}
  MaxRestarts = 0
SPECIFICATION Spec
INVARIANT OneActiveProcess
CHECK_DEADLOCK FALSE
