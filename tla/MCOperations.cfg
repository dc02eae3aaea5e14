SPECIFICATION Spec
CONSTANTS
  Users = {u1}
  Slots = {slot1}
  Sids = {c11, c12}
  Awaiting = {w1}
  MaxChanges = 2
  l1 = l1
  l2 = l2
  Launchers = {l1, l2}
  Connections = {c1, c2, c3}
  Marks = {m1, m2}
  GuardCap <- MCGuardCap
  Requests = {1, 2}
  Owners = {o1, o2}
  ActiveLimit = 1
  Browsers = {b1, b2}
  Starts = {s1, s2}
  Approvals = {a1, a2}
  Tools = {"sources", "credential", "packages", "services", "capacity"}
  AtOnce = 2
  Jobs = {j1, j2}
  Artifacts = {p1, p2}
  Files = {f1, f2}
  Contents = {v1, v2}
  NoCopy = NoCopy
  Lines = {e1}
  Releases = {r1, r2}
  BootRelease = r1
  NoRelease = NoRelease
  Processes = {k1, k2}
  MaxRecords = 1
  MaxEdits = 1
  Entries = {e1}
  Registrars = {k1, k2}
  MaxReceipts = 2
  MaxRewrites = 2
  Pairs = {q1}
  Operators = {op1, op2}
  MaxRetired = 1
INVARIANTS
  OperationsTypeOK
  
  SentOnceWithinCap
  StagedUntilInstalled
  OneServerPerRecord
  ChannelEndsForCause
  NothingOverwritten
  LayerIsRecoverable
  PoolIsFresh
PROPERTIES
  TestedPatchKeepsOthers
  OnlyTheRegistrationGoes
\* A task, a request, a start and a channel come to an end.
CHECK_DEADLOCK FALSE
