\* Two sessions, two requests and a command; a batch of the command is one session.
CONSTANTS
  Session = {1, 2}
  Request = {q1, q2}
  operator = operator
  Offset = {1, 2}
  OldPoints = {1}
  FilePoints = {1, 2}
  Files = {2}
  MaxPoints = 2
  BatchSize = 1
  Nil = Nil
SPECIFICATION Spec
SYMMETRY MCSymmetry
CHECK_DEADLOCK FALSE
INVARIANTS
  SrvInv
  AcceptedIsStored
  AnalysisIsOfStoredData
  RiderOverridesKept
PROPERTIES
  CommandLeavesOnlyBlocked
