\* One ride whose stream breaks, stalls or fails to start, or whose finish fails.
CONSTANTS
  Ride = {x1}
  Stream = {s1, s2}
  Checks = {c1}
  Restarts = {q1}
  Op = op
  Boots = {b1}
  Nil = Nil
  Retries = FALSE
  MaxFaults = 1
  MaxKills = 0
SPECIFICATION FairSpec

  
PROPERTIES
  RecordingIsServed
  OperationsEnd
