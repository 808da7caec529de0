\* One ride, the pass and the sync button at once, one lost request or crash.
CONSTANTS
  x1 = x1
  x2 = x2
  Ride = {x1}
  Remote = {r1, r2, r3, r4}
  Nil = Nil
  Batches <- MCBatches
  Pass = pass
  Buttons = {button}
  Screens = {screen}
  MaxFaults = 1
SPECIFICATION Spec
SYMMETRY MCSymmetry
INVARIANTS
  RowsPointAtOwnSession
  
PROPERTIES
  KeepsThePromise
