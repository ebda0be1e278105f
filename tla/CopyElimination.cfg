SPECIFICATION Spec
CONSTANTS
  hdr = hdr
  local = local
  first = first
  second = second
  other = other
  Fields <- MCFields
  Params <- MCParams
  Calls <- MCCalls
INVARIANTS
  TypeOK
  CopySemantics
  NoAliasedArguments
  DefinedBeforeUse
  DisjointArgumentsDirect
