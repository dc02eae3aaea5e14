CONSTANTS
  Tasks = {t1}
  Calls = {c1}
  NoCall = NoCall
  MaxCrashes = 1
SPECIFICATION Spec
INVARIANT BrokerComesBack
CHECK_DEADLOCK FALSE
