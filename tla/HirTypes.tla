------------------------------- MODULE HirTypes -------------------------------
(***************************************************************************)
(* The types of the P4HIR dialect and the attributes that are its          *)
(* constants (lib/Dialect/P4HIR/P4HIR_Types.cpp, P4HIR_Attrs.cpp).         *)
(*                                                                         *)
(* An integer attribute is the integer it stands for, read with the sign   *)
(* of its type: what a width does to it is Fit.  TLC's integers are 32     *)
(* bits wide, so Fit leaves alone what a width of WideWidth or more holds. *)
(***************************************************************************)
EXTENDS Integers, Sequences, FiniteSets, FiniteSetsExt, SequencesExt, TLC

WideWidth == 30

Bits(w) == [k |-> "bits", w |-> w, signed |-> FALSE]
SignedBits(w) == [k |-> "bits", w |-> w, signed |-> TRUE]
InfInt == [k |-> "infint"]
Bool == [k |-> "bool"]
ValidBit == [k |-> "validity.bit"]
Void == [k |-> "void"]
Enum(name, fields) == [k |-> "enum", name |-> name, fields |-> fields]
SerEnum(name, of, fields, values) ==
  [k |-> "ser_enum", name |-> name, of |-> of, fields |-> fields, values |-> values]
Alias(name, of) == [k |-> "alias", name |-> name, of |-> of]
Tuple(types) == [k |-> "tuple", types |-> types]
Array(n, of) == [k |-> "array", n |-> n, of |-> of]
Ref(of) == [k |-> "ref", of |-> of]
Struct(name, fields, types) ==
  [k |-> "struct", name |-> name, fields |-> fields, types |-> types]

\* A header gets its validity bit when it is made; it is the last field.
Validity == "__valid"
Header(name, fields, types) ==
  [k |-> "header", name |-> name, fields |-> Append(fields, Validity),
   types |-> Append(types, ValidBit)]

IsRef(t) == t.k = "ref"
ObjectOf(t) == IF IsRef(t) THEN t.of ELSE t
IsStructLike(t) == t.k \in {"struct", "header"}
IsInteger(t) == t.k \in {"bits", "infint"}
IsSigned(t) == t.k = "infint" \/ (t.k = "bits" /\ t.signed)

RECURSIVE Canonical(_)
Canonical(t) == IF t.k = "alias" THEN Canonical(t.of) ELSE t

\* The underlying type of an alias or a serializable enum.
IntType(t) == LET c == Canonical(t) IN IF c.k = "ser_enum" THEN c.of ELSE c

PositionOf(names, f) == CHOOSE i \in DOMAIN names : names[i] = f
FieldType(t, f) == t.types[PositionOf(t.fields, f)]

Fit(t, n) ==
  IF t.k # "bits" \/ t.w >= WideWidth THEN n
  ELSE LET m == n % (2 ^ t.w)
       IN IF t.signed /\ m >= 2 ^ (t.w - 1) THEN m - 2 ^ t.w ELSE m

-----------------------------------------------------------------------------
(* Attributes                                                               *)

None == [k |-> "none"]
IntAttr(t, n) == [k |-> "int", ty |-> t, n |-> Fit(Canonical(t), n)]
BoolAttr(b) == [k |-> "bool", ty |-> Bool, n |-> IF b THEN 1 ELSE 0]
ValidityAttr(b) == [k |-> "validity", ty |-> ValidBit, n |-> IF b THEN 1 ELSE 0]
AggAttr(t, elems) == [k |-> "agg", ty |-> t, elems |-> elems]
ListAttr(elems) == [k |-> "list", ty |-> Void, elems |-> elems]

EnumFieldAttr(t, f) ==
  IF f \in Range(t.fields) THEN [k |-> "field", ty |-> t, field |-> f] ELSE None

\* An attribute of an alias is no integer that getConstantInt can tell the
\* sign of.
IsBadInt(a) == a.k = "int" /\ a.ty.k = "alias"

\* The integer of an attribute, if it is one.
IsConstantInt(a) ==
  a.k \in {"int", "bool"} \/ (a.k = "field" /\ a.ty.k = "ser_enum")
ConstantInt(a) ==
  IF a.k = "field" THEN a.ty.values[PositionOf(a.ty.fields, a.field)] ELSE a.n

\* extOrTrunc keeps the sign of the source, whatever the destination's is.
FoldConstantCast(t, a) ==
  IF t.k = "bits" /\ IsConstantInt(a) THEN IntAttr(t, ConstantInt(a)) ELSE None

\* What the verifiers of the attributes ask for.
RECURSIVE ValidAttr(_)
ValidAttr(a) ==
  LET Elements(types) == /\ Len(a.elems) = Len(types)
                         /\ \A i \in DOMAIN types : a.elems[i].ty = types[i]
  IN CASE a.k = "int" -> IsInteger(Canonical(a.ty)) /\ a.n = Fit(Canonical(a.ty), a.n)
       [] a.k = "field" -> a.ty.k \in {"enum", "ser_enum"} /\ a.field \in Range(a.ty.fields)
       [] a.k = "list" -> \A e \in Range(a.elems) : ValidAttr(e)
       [] a.k = "agg" ->
            /\ \A e \in Range(a.elems) : ValidAttr(e)
            /\ CASE IsStructLike(a.ty) \/ a.ty.k = "tuple" -> Elements(a.ty.types)
                 [] a.ty.k = "array" -> Elements([i \in 1..a.ty.n |-> a.ty.of])
                 [] OTHER -> FALSE
       [] OTHER -> TRUE

\* checkConstantTypes: the type a constant of an attribute may have.
ConstantOfType(a, t) ==
  LET c == IF t.k = "alias" THEN Canonical(t) ELSE t
  IN CASE a.k = "bool" -> c = Bool
       [] a.k = "int" -> IsInteger(c)
       [] a.k = "agg" -> IsStructLike(t) \/ t.k \in {"tuple", "array"}
       [] a.k = "field" -> t.k \in {"enum", "ser_enum"}
       [] a.k = "validity" -> t = ValidBit
       [] OTHER -> FALSE

-----------------------------------------------------------------------------
(* Default values.  A serializable enum has one only if a field is zero.    *)

EnumDefault(t) == IF t.fields = <<>> THEN None ELSE EnumFieldAttr(t, Head(t.fields))

SerEnumDefault(t) ==
  LET zero == {i \in DOMAIN t.values : t.values[i] = 0}
  IN IF zero = {} THEN None ELSE EnumFieldAttr(t, t.fields[Min(zero)])

RECURSIVE DefaultAttr(_)
StructDefault(t) ==
  LET elems == [i \in DOMAIN t.types |-> DefaultAttr(t.types[i])]
  IN IF None \in Range(elems) THEN None ELSE AggAttr(t, elems)
ArrayDefault(t) ==
  LET e == DefaultAttr(t.of)
  IN IF e = None THEN None ELSE AggAttr(t, [i \in 1..t.n |-> e])

DefaultAttr(t) ==
  CASE IsInteger(t) -> IntAttr(t, 0)
    [] t = Bool -> BoolAttr(FALSE)
    [] t = ValidBit -> ValidityAttr(FALSE)
    [] t.k = "enum" -> EnumDefault(t)
    [] t.k = "ser_enum" -> SerEnumDefault(t)
    [] t.k = "array" -> ArrayDefault(t)
    [] IsStructLike(t) -> StructDefault(t)
    [] OTHER -> None

-----------------------------------------------------------------------------
(* What the verifiers of the types ask for.  A header holds, beside its     *)
(* validity bit, only integers, booleans, serializable enums and structs    *)
(* of them.                                                                 *)

UniqueFields(t) == Cardinality(Range(t.fields)) = Len(t.fields)

RECURSIVE ElementOf(_)
ElementOf(t) == IF t.k = "array" THEN ElementOf(t.of) ELSE t

RECURSIVE FitsHeader(_, _)
FitsHeader(t, top) ==
  LET e == ElementOf(IF t.k = "alias" THEN Canonical(t) ELSE t)
  IN \/ e.k \in {"bits", "bool", "ser_enum"}
     \/ top /\ e = ValidBit
     \/ e.k = "struct" /\ \A u \in Range(e.types) : FitsHeader(u, FALSE)

RECURSIVE ValidType(_)
ValidType(t) ==
  CASE t.k = "struct" -> UniqueFields(t) /\ \A u \in Range(t.types) : ValidType(u)
    [] t.k = "header" ->
         /\ UniqueFields(t)
         /\ Last(t.fields) = Validity /\ Last(t.types) = ValidBit
         /\ \A u \in Range(t.types) : FitsHeader(u, TRUE)
    [] t.k = "array" -> t.of.k # "ref" /\ ValidType(t.of)
    [] t.k = "tuple" -> \A u \in Range(t.types) : ValidType(u)
    [] t.k = "ser_enum" -> t.of.k = "bits" /\ \A v \in Range(t.values) : v = Fit(t.of, v)
    [] t.k \in {"alias", "ref"} -> ValidType(t.of)
    [] OTHER -> TRUE

=============================================================================
