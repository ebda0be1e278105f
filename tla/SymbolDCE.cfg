SPECIFICATION Spec
CONSTANTS
  m = m
  X = X
  meth = meth
  ovl = ovl
  ovl1 = ovl1
  F = F
  C = C
  loc = loc
  act = act
  app = app
  nest = nest
  None = None
  Module = m
  Op <- MCOp
  Name <- MCName
  Programs <- MCPrograms
INVARIANTS
  TypeOK
  UsesSurvive
  UnshadowedUsesSurvive
  LiveNeverGone
  NoReentry
PROPERTIES
  Eliminates
  Terminates
