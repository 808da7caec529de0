\* No review: two imports, the second with --countries.
CONSTANTS
  Areas <- MCAreas
  Resort <- MCResort
  Payload <- MCPayload
  LegacyFace <- MCLegacyFace
  Says <- MCSays
  Likeness <- MCLikeness
  Near <- MCNear
  Plausible <- MCPlausible
  Lift = {"shared", "own"}
  AreasOf <- MCAreasOf
  InFilter = {"a"}
  Options <- MCOptions
  MaxImports = 2
  MaxReviews = 0
  Nil = Nil
SPECIFICATION Spec
CHECK_DEADLOCK FALSE
INVARIANT FilteredRunKeepsLifts
