CONSTANTS
  Tasks = {t1}
  MaxCrashes = 2
  Resources <- MCResources
  Envelopes = {e1, e2}
  MaxUid = 2
  MaxRemade = 1
  MaxVersion = 2
  KeyCount = 2
  MaxTokens = 2
SPECIFICATION PartsSpec
INVARIANTS
  PartsTypeOK
  SettledMeansAbsent
  ExecutesOnce
  ActsOnce
  FreshPair
PROPERTIES
  FenceHolds
  KeepsPromise
  FinalizingEnds
\* A task and a pair come to an end.
CHECK_DEADLOCK FALSE
