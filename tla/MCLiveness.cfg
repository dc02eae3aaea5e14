CONSTANTS
  Long = {l1, l2}
  Ordinary = {o1}
  MaxWaiters = 1
  MaxSteps = 2
  Names = {n1, n2}
  MaxGeneration = 2
  Visits = {v1}
  Pages = {p1}
  MaxStamp = 2
SPECIFICATION PartsSpec
INVARIANTS
  GatewayTypeOK
PROPERTIES
  LaneReturns
  WarmingProceeds
  WishesAreCarriedOut
  LapsedVisitEnds
