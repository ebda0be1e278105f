------------------------------- MODULE LowerTypes -------------------------------
(***************************************************************************)
(* The passes that rewrite one kind of type into another, everywhere it is *)
(* mentioned: EnumElimination, SerEnumElimination, RemoveAliases and       *)
(* TupleToStruct, on the converter they share                              *)
(* (lib/Conversion/ConversionPatterns.cpp).  A pass is named by the kind   *)
(* of type it removes.                                                     *)
(***************************************************************************)
EXTENDS HirCode

\* An enum has the index of a field for its value, in 32 bits.
EncodedEnum(t) ==
  SerEnum(t.name, Bits(32), t.fields, [i \in DOMAIN t.fields |-> i - 1])

ElementNames(types) == [i \in DOMAIN types |-> "element_" \o ToString(i - 1)]

\* The types within a type are converted wherever they are.
RECURSIVE ConvertType(_, _)
ConvertType(kind, t) ==
  LET Inner == ConvertType(kind, t.of)
      All == [i \in DOMAIN t.types |-> ConvertType(kind, t.types[i])]
  IN CASE t.k = "enum" /\ kind = "enum" -> EncodedEnum(t)
       [] t.k = "ser_enum" /\ kind = "ser_enum" -> t.of
       [] t.k = "alias" /\ kind = "alias" -> Inner
       [] t.k = "tuple" /\ kind = "tuple" -> Struct("_tupleToStruct", ElementNames(t.types), All)
       [] IsStructLike(t) -> [t EXCEPT !.types = All]
       [] t.k \in {"array", "ref", "alias", "set"} -> [t EXCEPT !.of = Inner]
       [] OTHER -> t

IsLegal(kind, t) == ConvertType(kind, t) = t

\* Bug: of an aggregate only the type is converted.
ConvertAttrShallow(kind, a) ==
  IF a.k = "none" \/ IsLegal(kind, a.ty) THEN a
  ELSE IF a.k = "field" /\ kind = "ser_enum" THEN IntAttr(a.ty.of, ConstantInt(a))
  ELSE [a EXCEPT !.ty = ConvertType(kind, @)]

RECURSIVE ConvertAttr(_, _)
ConvertAttr(kind, a) ==
  LET elems == [i \in DOMAIN a.elems |-> ConvertAttr(kind, a.elems[i])]
  IN CASE a.k = "none" -> a
       [] a.k = "list" -> ListAttr(elems)
       [] IsLegal(kind, a.ty) -> a
       [] a.k = "agg" -> AggAttr(ConvertType(kind, a.ty), elems)
       [] a.k = "field" /\ kind = "ser_enum" -> IntAttr(a.ty.of, ConstantInt(a))
       [] a.k = "field" -> EnumFieldAttr(ConvertType(kind, a.ty), a.field)
       [] OTHER -> [a EXCEPT !.ty = ConvertType(kind, @)]

ConvertedKind == [tuple |-> "struct", tuple_extract |-> "struct_extract"]

\* Tuples have operations of their own; a field of the struct is at the index
\* of the element it was.
ConvertTupleOp(kind, op) ==
  IF kind = "tuple" /\ op.k \in DOMAIN ConvertedKind THEN [op EXCEPT !.k = ConvertedKind[@]]
  ELSE op

ConvertOp(kind, op) ==
  [ConvertTupleOp(kind, op) EXCEPT !.ty = ConvertType(kind, @), !.attr = ConvertAttr(kind, @)]

ConvertCode(kind, c) == [c EXCEPT !.op = [o \in DOMAIN @ |-> ConvertOp(kind, @[o])]]

\* What the conversion cannot do: a constant of an alias that is neither an
\* integer nor a boolean.
ConvertAsserts(kind, c) ==
  kind = "alias" /\ \E o \in OpsIn(c) :
    LET a == c.op[o].attr
    IN a.k # "none" /\ a.ty.k = "alias" /\ a.k \notin {"int", "bool"}

=============================================================================
