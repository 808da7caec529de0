CONSTANTS
  ResortId = {r1, r2}
  Name = {n1, n2}
  ExternalId = {e1, e2}
  Nil = Nil
SPECIFICATION Spec
SYMMETRY MCSymmetry
INVARIANTS
  MigTypeOK
  HeadSchemaIsTheModels
  DowngradeUndoesUpgrade
PROPERTIES
  OnlyDuplicatesRefuse
  LegacyIdentityKept
