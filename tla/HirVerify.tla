-------------------------------- MODULE HirVerify --------------------------------
(***************************************************************************)
(* What the verifier asks of a P4HIR body: the verify hooks of the         *)
(* operations (lib/Dialect/P4HIR/P4HIR_Ops.cpp) with the constraints that  *)
(* P4HIR_Ops.td puts on their types and regions, the types and attributes  *)
(* they mention, and that every value is computed before it is used.       *)
(***************************************************************************)
EXTENDS HirCode

\* The type of operand n.
In(c, o, n) == c.op[c.op[o].args[n]].ty
IsBits(t) == t.k = "bits"

ConstVerify(c, o) == ValidAttr(c.op[o].attr) /\ ConstantOfType(c.op[o].attr, c.op[o].ty)

UnaryVerify(c, o) == In(c, o, 1) = c.op[o].ty

\* Of the unlimited integers there is neither saturation nor a bitwise
\* operation.
BinOpVerify(c, o) ==
  LET t == c.op[o].ty
  IN /\ In(c, o, 1) = t /\ In(c, o, 2) = t
     /\ \/ IsBits(t)
        \/ t = InfInt /\ c.op[o].sub \in {"mul", "div", "mod", "add", "sub"}

ConcatVerify(c, o) ==
  LET t == c.op[o].ty
  IN /\ t.w = In(c, o, 1).w + In(c, o, 2).w
     /\ t.signed = In(c, o, 1).signed

\* The amount is never negative.
ShiftVerify(c, o) ==
  LET amount == In(c, o, 2)
  IN In(c, o, 1) = c.op[o].ty /\ IsInteger(amount) /\ ~(IsBits(amount) /\ amount.signed)

CmpVerify(c, o) == In(c, o, 1) = In(c, o, 2)

\* A slice of a value of type t.
SliceBounds(c, o, of, t) ==
  LET hi == c.op[o].idx[1]
      lo == c.op[o].idx[2]
  IN /\ ~t.signed /\ hi >= lo /\ t.w = hi - lo + 1
     /\ IsBits(of) => of.w > hi

SliceVerify(c, o) == SliceBounds(c, o, In(c, o, 1), c.op[o].ty) /\ IsInteger(In(c, o, 1))
ReadSliceVerify(c, o) ==
  LET of == In(c, o, 1).of IN SliceBounds(c, o, of, c.op[o].ty) /\ IsBits(of)
AssignSliceVerify(c, o) ==
  LET of == In(c, o, 2).of IN SliceBounds(c, o, of, In(c, o, 1)) /\ IsBits(of)

ReadVerify(c, o) == In(c, o, 1) = Ref(c.op[o].ty)
AssignVerify(c, o) == In(c, o, 2) = Ref(In(c, o, 1))

Inputs(c, o) == [n \in DOMAIN c.op[o].args |-> In(c, o, n)]
StructVerify(c, o) == Inputs(c, o) = c.op[o].ty.types
TupleVerify(c, o) == Inputs(c, o) = c.op[o].ty.types
ArrayVerify(c, o) == LET t == c.op[o].ty IN Inputs(c, o) = [i \in 1..t.n |-> t.of]

AggregateField(c, o, s, t) == LET i == c.op[o].idx[1] IN i \in DOMAIN s.types /\ s.types[i] = t
StructExtractVerify(c, o) ==
  IsStructLike(In(c, o, 1)) /\ AggregateField(c, o, In(c, o, 1), c.op[o].ty)
StructFieldRefVerify(c, o) ==
  LET s == ObjectOf(In(c, o, 1))
  IN IsRef(In(c, o, 1)) /\ IsStructLike(s) /\ AggregateField(c, o, s, c.op[o].ty.of)
TupleExtractVerify(c, o) ==
  In(c, o, 1).k = "tuple" /\ AggregateField(c, o, In(c, o, 1), c.op[o].ty)

ArrayGetVerify(c, o) ==
  In(c, o, 1).k = "array" /\ In(c, o, 1).of = c.op[o].ty /\ IsInteger(In(c, o, 2))
ArrayElementRefVerify(c, o) ==
  /\ IsRef(In(c, o, 1)) /\ In(c, o, 1).of.k = "array"
  /\ c.op[o].ty = Ref(In(c, o, 1).of.of) /\ IsInteger(In(c, o, 2))

\* What ends a region, and what it hands over.
LastOp(c, b) == c.op[Last(c.block[b])]
Ends(c, region, kind) == c.block[Last(region)] # <<>> /\ LastOp(c, Last(region)).k = kind
Yields(c, region) == [n \in DOMAIN LastOp(c, Last(region)).args |->
                        c.op[LastOp(c, Last(region)).args[n]].ty]
ResultTypes(op) == IF op.ty = Void THEN <<>> ELSE <<op.ty>>

ScopeVerify(c, o) ==
  LET body == c.op[o].regions[1]
  IN body # <<>> /\ Ends(c, body, "yield") /\ Yields(c, body) = ResultTypes(c.op[o])

IfVerify(c, o) ==
  LET op == c.op[o]
  IN /\ In(c, o, 1) = Bool
     /\ op.ty # Void => op.regions[2] # <<>>
     /\ \A region \in Range(op.regions) \ {<<>>} :
          Ends(c, region, "yield") /\ Yields(c, region) = ResultTypes(op)

ForVerify(c, o) ==
  LET r == c.op[o].regions
  IN Ends(c, r[1], "condition") /\ Ends(c, r[2], "yield") /\ Ends(c, r[3], "yield")

ForInVerify(c, o) ==
  LET body == c.op[o].regions[1]
      arg == c.op[Head(c.block[body[1]])]
  IN /\ Ends(c, body, "yield")
     /\ arg.k = "arg" /\ arg.ty = In(c, o, 1).of

\* A range is the collection of one loop.
RangeVerify(c, o) ==
  /\ \A n \in {1, 2} : IsInteger(In(c, o, n)) /\ In(c, o, n) = c.op[o].ty.of
  /\ HasOneUse(c, o) /\ \A u \in Users(c, o) : c.op[u].k = "foreach"

SwitchVerify(c, o) ==
  LET body == c.op[o].regions[1]
  IN /\ IsInteger(In(c, o, 1)) \/ In(c, o, 1).k \in {"enum", "ser_enum"}
     /\ Ends(c, body, "yield")

\* The regions that are one block.  FlattenCFG breaks this on its way, where the
\* verifier does not look.
SingleBlockRegions(op) ==
  CASE op.k \in {"if", "foreach", "switch"} -> op.regions
    [] op.k = "for" -> <<op.regions[1], op.regions[3]>>
    [] OTHER -> <<>>
SingleBlocks(c) ==
  \A o \in OpsIn(c) : \A region \in Range(SingleBlockRegions(c.op[o])) : Len(region) <= 1

CaseVerify(c, o) == ValidAttr(c.op[o].attr) /\ Ends(c, c.op[o].regions[1], "yield")

\* The arguments of the block branched to.
BlockArguments(c, b) == SelectSeq(c.block[b], LAMBDA a : c.op[a].k = "arg")
PassesTo(c, o, b) == Inputs(c, o) = [n \in DOMAIN BlockArguments(c, b) |-> c.op[BlockArguments(c, b)[n]].ty]
BrVerify(c, o) == PassesTo(c, o, c.op[o].succ[1])
CondBrVerify(c, o) ==
  In(c, o, 1) = Bool /\ \A b \in Range(c.op[o].succ) : BlockArguments(c, b) = <<>>

OpVerify(c, o) ==
  LET k == c.op[o].k
  IN CASE k = "const" -> ConstVerify(c, o)
       [] k = "unary" -> UnaryVerify(c, o)
       [] k = "binop" -> BinOpVerify(c, o)
       [] k = "concat" -> ConcatVerify(c, o)
       [] k \in {"shl", "shr"} -> ShiftVerify(c, o)
       [] k = "cmp" -> CmpVerify(c, o)
       [] k = "slice" -> SliceVerify(c, o)
       [] k = "read_slice" -> ReadSliceVerify(c, o)
       [] k = "assign_slice" -> AssignSliceVerify(c, o)
       [] k = "read" -> ReadVerify(c, o)
       [] k = "assign" -> AssignVerify(c, o)
       [] k = "struct" -> StructVerify(c, o)
       [] k = "tuple" -> TupleVerify(c, o)
       [] k = "array" -> ArrayVerify(c, o)
       [] k = "struct_extract" -> StructExtractVerify(c, o)
       [] k = "struct_field_ref" -> StructFieldRefVerify(c, o)
       [] k = "tuple_extract" -> TupleExtractVerify(c, o)
       [] k = "array_get" -> ArrayGetVerify(c, o)
       [] k = "array_element_ref" -> ArrayElementRefVerify(c, o)
       [] k = "scope" -> ScopeVerify(c, o)
       [] k = "if" -> IfVerify(c, o)
       [] k = "for" -> ForVerify(c, o)
       [] k = "foreach" -> ForInVerify(c, o)
       [] k = "range" -> RangeVerify(c, o)
       [] k = "switch" -> SwitchVerify(c, o)
       [] k = "case" -> CaseVerify(c, o)
       [] k = "br" -> BrVerify(c, o)
       [] k = "cond_br" -> CondBrVerify(c, o)
       [] OTHER -> TRUE

-----------------------------------------------------------------------------
(* Dominance                                                                *)

\* The blocks of the region b is in, its entry first.
RegionsOf(c) == {c.root} \cup UNION {Range(c.op[o].regions) : o \in OpsIn(c)}
RegionOf(c, b) == CHOOSE r \in RegionsOf(c) : b \in Range(r)

Branches(c, b) == IF c.block[b] = <<>> THEN {} ELSE Range(LastOp(c, b).succ)

RECURSIVE ReachedWithout(_, _, _)
ReachedWithout(c, S, d) ==
  LET next == S \cup (UNION {Branches(c, b) : b \in S} \ {d})
  IN IF next = S THEN S ELSE ReachedWithout(c, next, d)

DominatesBlock(c, d, b) ==
  d = b \/ LET entry == RegionOf(c, b)[1]
           IN entry = d \/ b \notin ReachedWithout(c, {entry}, d)

\* The operation that o is, or is nested in, in the region of block b.
RECURSIVE AncestorIn(_, _, _)
AncestorIn(c, o, region) ==
  LET b == BlockOf(c, o)
  IN IF b \in Range(region) \/ Parent(c, b) = {} THEN o
     ELSE AncestorIn(c, CHOOSE p \in Parent(c, b) : TRUE, region)

Dominates(c, v, o) ==
  LET b == BlockOf(c, v)
      a == AncestorIn(c, o, RegionOf(c, b))
  IN IF BlockOf(c, a) = b THEN IsBefore(c, v, a)
     ELSE BlockOf(c, a) \in Range(RegionOf(c, b)) /\ DominatesBlock(c, b, BlockOf(c, a))

Verified(c) ==
  /\ \A o \in OpsIn(c) : ValidType(c.op[o].ty)
  /\ \A o \in OpsIn(c) : \A v \in Range(c.op[o].args) : v \in OpsIn(c) /\ Dominates(c, v, o)
  /\ \A o \in OpsIn(c) : OpVerify(c, o)
  /\ \A b \in Range(BlocksUnder(c, c.root)) :
       /\ c.block[b] # <<>>
       /\ \A i \in DOMAIN c.block[b] :
            (c.op[c.block[b][i]].k \in Terminators) = (i = Len(c.block[b]))

=============================================================================
