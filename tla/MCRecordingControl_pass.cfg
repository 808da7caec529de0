\* Two rides, every button, a permission check and a killed process.
CONSTANTS
  Ride = {x1, x2}
  Stream = {s1, s2}
  Checks = {c1}
  Restarts = {q1}
  Op = op
  Boots = {b1}
  Nil = Nil
  Retries = TRUE
  MaxFaults = 0
  MaxKills = 1
SPECIFICATION Spec
SYMMETRY MCSymmetry
INVARIANTS
  
  EpochKeepsRide
  
PROPERTIES
  FinishedStaysFinished
