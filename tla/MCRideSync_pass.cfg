\* Two rides, the background pass and a history screen, one lost request or crash.
CONSTANTS
  x1 = x1
  x2 = x2
  Ride = {x1, x2}
  Remote = {r1, r2, r3}
  Nil = Nil
  Batches <- MCBatches
  Pass = pass
  Buttons = {}
  Screens = {screen}
  MaxFaults = 1
SPECIFICATION FairSpec
INVARIANTS
  TypeOK
  
  SyncedIsSaved
  NoDuplicateRide
PROPERTIES
  
  
  PassesEnd
