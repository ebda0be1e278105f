SPECIFICATION Spec
CONSTANTS
  s0 = s0
  s1 = s1
  s2 = s2
  acc = acc
  None = None
  State <- MCState
  Parsers <- MCParsers
INVARIANTS
  TypeOK
  NoDangling
  BodiesArePaths
  NothingLost
  AnnotationsKept
  Simplified
PROPERTIES
  Terminates
