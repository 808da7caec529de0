\* One ride and its deletion, the pass and a history screen, two lost requests or crashes.
CONSTANTS
  x1 = x1
  x2 = x2
  Ride = {x1}
  Remote = {r1, r2, r3}
  Nil = Nil
  Batches <- MCBatches
  Pass = pass
  Buttons = {}
  Screens = {screen}
  MaxFaults = 2
SPECIFICATION BookSpec
SYMMETRY MCSymmetry
INVARIANTS
  BookInv
  DeleteIsNeverForgotten
  SyncedIsSavedOrDeleted
