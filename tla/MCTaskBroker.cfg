CONSTANTS
  Tasks = {t1, t2}
  Legacy = {t1}
  MaxRestarts = 1
SPECIFICATION Spec
INVARIANTS
  TypeOK
  
  JournalSettled
  BusyHasThread
PROPERTIES
  InterruptedIsFinal
  
CHECK_DEADLOCK FALSE
