\* One ride, its deletion and the pass, two lost requests or crashes, under fairness.
CONSTANTS
  x1 = x1
  x2 = x2
  Ride = {x1}
  Remote = {r1, r2, r3}
  Nil = Nil
  Batches <- MCBatches
  Pass = pass
  Buttons = {}
  Screens = {}
  MaxFaults = 2
SPECIFICATION FairBookSpec
PROPERTIES
  DeletesReachTheServer
  RefreshesEnd
