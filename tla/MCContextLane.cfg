CONSTANTS
  Long = {l1, l2, l3}
  Ordinary = {o1}
  MaxWaiters = 1
  MaxSteps = 2
SYMMETRY Symmetry
SPECIFICATION Spec
INVARIANTS
  WorkUnderLane
  CountsAreExact
PROPERTY NoOvertaking
