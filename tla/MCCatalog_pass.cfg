\* Two areas, five resort ids (one legacy), two imports, two reviews.
CONSTANTS
  Areas <- MCAreas
  Resort <- MCResort
  Payload <- MCPayload
  LegacyFace <- MCLegacyFace
  Says <- MCSays
  Likeness <- MCLikeness
  Near <- MCNear
  Plausible <- MCPlausible
  Lift = {"shared", "own"}
  AreasOf <- MCAreasOf
  InFilter = {"a"}
  Options <- MCOptions
  MaxImports = 2
  MaxReviews = 2
  Nil = Nil
SPECIFICATION Spec
CHECK_DEADLOCK FALSE
INVARIANTS
  CatInv
  OneAreaPerResort
  MergedIsCurrent
PROPERTY
  ReviewsAreKept
