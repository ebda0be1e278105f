SPECIFICATION Spec
CONSTANTS
  Programs <- MCPrograms
  Inputs <- MCInputs
INVARIANTS
  TypeOK
  Preserves
  SoftFree
  KeepsDominance
  PointsExist
