\* One phone, four calls, two families, two calls given up; a sweep on every check.
CONSTANTS
  Bucket <- MCBuckets
  Key = {phone}
  Client = phone
  Limit <- MCLimit
  Window <- MCWindow
  SweepEvery = 1
  TickSize = 2
  MaxTime = 2
  Token = {1, 2, 3}
  Family = {1, 2}
  Call = {1, 2, 3, 4}
  MaxLost = 2
  Nil = Nil
SPECIFICATION Spec
CHECK_DEADLOCK FALSE
INVARIANTS
  TokensOK
  BurnedStaysDead
  PhoneKeepsItsSession
  WindowHolds
