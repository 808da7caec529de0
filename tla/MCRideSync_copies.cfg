\* The pass and the sync button on one ride without a remote id.
CONSTANTS
  x1 = x1
  x2 = x2
  Ride = {x1}
  Remote = {r1, r2}
  Nil = Nil
  Batches <- MCBatches
  Pass = pass
  Buttons = {button}
  Screens = {}
  MaxFaults = 0
SPECIFICATION Spec
SYMMETRY MCSymmetry
INVARIANTS
  NoDuplicateRide
