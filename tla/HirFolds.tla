-------------------------------- MODULE HirFolds --------------------------------
(***************************************************************************)
(* What the canonicalizer may do to one operation of a P4HIR body: its     *)
(* fold hook and, where that has nothing to say, its rewrite patterns      *)
(* (lib/Dialect/P4HIR/P4HIR_Ops.cpp, P4HIR_Patterns.td).                   *)
(*                                                                         *)
(* A fold hook is a sequence of rules, of which the first that applies     *)
(* gives the result: a value that is there already, or an attribute that   *)
(* becomes a constant.                                                     *)
(***************************************************************************)
EXTENDS HirCode, P4Arithmetic

When(condition, result) == IF condition THEN <<result>> ELSE <<>>
Value(v) == [k |-> "value", v |-> v]
FirstOf(rules) == LET all == FlattenSeq(rules) IN IF all = <<>> THEN None ELSE Head(all)

\* The constant an operand is, as a fold adaptor shows it.
Constant(c, v) == IF c.op[v].k = "const" THEN c.op[v].attr ELSE None

IsIntegerValue(a, n) == a.k = "int" /\ a.n = Fit(Canonical(a.ty), n)
IntegerAttr(t, n) == IF IsInteger(t) THEN IntAttr(t, n) ELSE None

\* An operand that is the result of a unary or binary operation of a kind.
IsUnop(c, kind, v) == c.op[v].k = "unary" /\ c.op[v].sub = kind
IsBinop(c, kind, v) == c.op[v].k = "binop" /\ c.op[v].sub = kind
Arg(c, v, n) == c.op[v].args[n]
Negates(c, v, x) == IsUnop(c, "cmpl", v) /\ Arg(c, v, 1) = x

-----------------------------------------------------------------------------

CastFold(c, o) ==
  LET x == Arg(c, o, 1)
  IN FirstOf(<<When(c.op[x].ty = c.op[o].ty, Value(x)),
               When(Constant(c, x) # None, FoldConstantCast(c.op[o].ty, Constant(c, x)))>>)

UnaryFold(c, o) ==
  LET x == Arg(c, o, 1)
      kind == c.op[o].sub
      a == Constant(c, x)
  IN FirstOf(<<When(kind = "plus", Value(x)),
               When(IsUnop(c, kind, x), Value(Arg(c, x, 1))),
               When(kind = "not" /\ a.k = "bool", BoolAttr(a.n = 0)),
               When(kind \in {"neg", "cmpl"} /\ a.k = "int",
                    IntAttr(a.ty, UnaryValue(kind, Canonical(a.ty), a.n)))>>)

Commutative == {"add", "mul", "and", "or", "xor", "sadd"}

\* A commutative operation puts its constant on the right, whether or not it
\* folds.
SortedArgs(c, o) ==
  LET args == c.op[o].args
  IN IF /\ c.op[o].k = "binop" /\ c.op[o].sub \in Commutative
        /\ Constant(c, args[1]) # None /\ Constant(c, args[2]) = None
     THEN [c EXCEPT !.op[o].args = Reverse(@)] ELSE c

ConstFoldBinOp(kind, t, a, b) ==
  When(a # None /\ b # None /\ IsConstantInt(a) /\ IsConstantInt(b)
         /\ ~(kind \in {"div", "mod"} /\ ConstantInt(b) = 0),
       IntAttr(t, Binary(kind, t, ConstantInt(a), ConstantInt(b))))

\* The rules of a kind.  l and r are the operands, after they were sorted, a
\* and b the constants the operands were before.
AddRules(c, t, l, r, a, b) ==
  <<When(IsIntegerValue(b, 0), Value(l)),
    When(IsBinop(c, "sub", l) /\ r = Arg(c, l, 2), Value(Arg(c, l, 1))),
    When(IsBinop(c, "sub", r) /\ l = Arg(c, r, 2), Value(Arg(c, r, 1)))>>

SubRules(c, t, l, r, a, b) ==
  <<When(IsIntegerValue(b, 0), Value(l)),
    When(l = r, IntegerAttr(t, 0)),
    When(IsBinop(c, "add", l) /\ r = Arg(c, l, 2), Value(Arg(c, l, 1))),
    When(IsBinop(c, "add", l) /\ r = Arg(c, l, 1), Value(Arg(c, l, 2)))>>

SatRules(kind, t, l, r, b) ==
  <<When(IsIntegerValue(b, 0), Value(l)),
    When(kind = "ssub" /\ l = r, IntegerAttr(t, 0))>>

MulRules(t, l, b) ==
  <<When(IsIntegerValue(b, 1), Value(l)), When(IsIntegerValue(b, 0), IntegerAttr(t, 0))>>

DivRules(kind, t, l, a, b) ==
  <<When(IsIntegerValue(b, 1), IF kind = "div" THEN Value(l) ELSE IntegerAttr(t, 0)),
    When(IsIntegerValue(a, 0), IntegerAttr(t, 0))>>

AndOrRules(c, kind, t, l, r, b) ==
  LET neutral == IF kind = "and" THEN -1 ELSE 0
      absorbing == IF kind = "and" THEN 0 ELSE -1
  IN <<When(IsIntegerValue(b, neutral), Value(l)),
       When(IsIntegerValue(b, absorbing), IntegerAttr(t, absorbing)),
       When(l = r, Value(l)),
       When(IsBinop(c, kind, l) /\ r \in Range(c.op[l].args), Value(l)),
       When(IsBinop(c, kind, r) /\ l \in Range(c.op[r].args), Value(r)),
       When(Negates(c, l, r) \/ Negates(c, r, l), IntegerAttr(t, absorbing))>>

\* What is left of a nested xor when it meets one of its operands again.
Cancelled(c, v, x) == IF Arg(c, v, 2) = x THEN Arg(c, v, 1) ELSE Arg(c, v, 2)

XorRules(c, t, l, r, b) ==
  <<When(IsIntegerValue(b, 0), Value(l)),
    When(l = r, IntegerAttr(t, 0)),
    When(IsBinop(c, "xor", l) /\ r \in Range(c.op[l].args), Value(Cancelled(c, l, r))),
    When(IsBinop(c, "xor", r) /\ l \in Range(c.op[r].args), Value(Cancelled(c, r, l))),
    When(Negates(c, l, r) \/ Negates(c, r, l), IntegerAttr(t, -1))>>

BinFold(c, o) ==
  LET s == SortedArgs(c, o)
      kind == c.op[o].sub
      t == c.op[o].ty
      l == Arg(s, o, 1)
      r == Arg(s, o, 2)
      a == Constant(c, Arg(c, o, 1))
      b == Constant(c, Arg(c, o, 2))
      rules == CASE kind = "add" -> AddRules(c, t, l, r, a, b)
                 [] kind = "sub" -> SubRules(c, t, l, r, a, b)
                 [] kind \in {"sadd", "ssub"} -> SatRules(kind, t, l, r, b)
                 [] kind = "mul" -> MulRules(t, l, b)
                 [] kind \in {"div", "mod"} -> DivRules(kind, t, l, a, b)
                 [] kind \in {"and", "or"} -> AndOrRules(c, kind, t, l, r, b)
                 [] kind = "xor" -> XorRules(c, t, l, r, b)
  IN FirstOf(Append(rules, ConstFoldBinOp(kind, t, a, b)))

\* The shift amount of a signed value may exceed its width, that of an
\* unsigned one gives zero.
ShiftFold(c, o) ==
  LET l == Arg(c, o, 1)
      t == c.op[o].ty
      a == Constant(c, l)
      b == Constant(c, Arg(c, o, 2))
      kind == c.op[o].k
  IN FirstOf(<<When(IsIntegerValue(b, 0), Value(l)),
               When(IsIntegerValue(a, 0), IntegerAttr(t, 0)),
               When(b.k = "int" /\ t.k = "bits" /\ b.n >= t.w /\ ~(kind = "shr" /\ t.signed),
                    IntegerAttr(t, 0)),
               When(b.k = "int" /\ a.k = "int", IntAttr(t, Binary(kind, t, a.n, b.n)))>>)

Swapped == [lt |-> "gt", gt |-> "lt", le |-> "ge", ge |-> "le", eq |-> "eq", ne |-> "ne"]
Reflexive == {"le", "ge", "eq"}

\* Bug: two constants are swapped, again and again.
IsConstantCmp(c, o) ==
  /\ c.op[o].k = "cmp" /\ Arg(c, o, 1) # Arg(c, o, 2)
  /\ Constant(c, Arg(c, o, 1)) # None

IsCmpToSwap(c, o) ==
  /\ c.op[o].k = "cmp" /\ Arg(c, o, 1) # Arg(c, o, 2)
  /\ Constant(c, Arg(c, o, 1)) # None /\ Constant(c, Arg(c, o, 2)) = None
SwapCmp(c, o) == [c EXCEPT !.op[o].sub = Swapped[@], !.op[o].args = Reverse(@)]

\* Bug: the result is an integer like the operands.
CmpFoldInteger(c, o) ==
  LET a == Constant(c, Arg(c, o, 1))
      b == Constant(c, Arg(c, o, 2))
  IN FirstOf(<<When(IsConstantInt(a) /\ IsConstantInt(b),
                    IntAttr(Bits(1), Bool01(Compare(c.op[o].sub, ConstantInt(a), ConstantInt(b)))))>>)

CmpFold(c, o) ==
  LET a == Constant(c, Arg(c, o, 1))
      b == Constant(c, Arg(c, o, 2))
      kind == c.op[o].sub
  IN FirstOf(<<When(Arg(c, o, 1) = Arg(c, o, 2), BoolAttr(kind \in Reflexive)),
               When(a # None /\ b # None /\ IsConstantInt(a) /\ IsConstantInt(b),
                    BoolAttr(Compare(kind, ConstantInt(a), ConstantInt(b))))>>)

SliceFold(c, o) ==
  LET a == Constant(c, Arg(c, o, 1))
      hi == c.op[o].idx[1]
      lo == c.op[o].idx[2]
      t == IntType(c.op[Arg(c, o, 1)].ty)
  IN FirstOf(<<When(IsConstantInt(a), IntAttr(c.op[o].ty, SliceOf(t, ConstantInt(a), hi, lo)))>>)

StructExtractFold(c, o) ==
  LET x == Arg(c, o, 1)
      i == c.op[o].idx[1]
  IN FirstOf(<<When(Constant(c, x).k = "agg", Constant(c, x).elems[i]),
               When(c.op[x].k = "struct", Value(Arg(c, x, i)))>>)

ArrayGetFold(c, o) ==
  LET x == Arg(c, o, 1)
      i == Constant(c, Arg(c, o, 2))
  IN FirstOf(<<When(i.k = "int" /\ Constant(c, x).k = "agg", Constant(c, x).elems[i.n + 1]),
               When(i.k = "int" /\ c.op[x].k = "array" /\ i.n < Len(c.op[x].args),
                    Value(Arg(c, x, i.n + 1)))>>)

Fold(c, o) ==
  LET k == c.op[o].k
  IN CASE k = "cast" -> CastFold(c, o)
       [] k = "unary" -> UnaryFold(c, o)
       [] k = "binop" -> BinFold(c, o)
       [] k \in {"shl", "shr"} -> ShiftFold(c, o)
       [] k = "cmp" -> CmpFold(c, o)
       [] k = "slice" -> SliceFold(c, o)
       [] k = "struct_extract" -> StructExtractFold(c, o)
       [] k = "array_get" -> ArrayGetFold(c, o)
       [] OTHER -> None

\* A constant is made of the attribute; it has to have the type of the result.
MaterializeConstant(c, o, a) == ReplaceOp(InsertOps(c, o, <<ConstOp(a)>>), o, Len(c.op) + 1)

\* Where a fold hook fails an assertion: an integer of an alias has no sign to
\* ask for, a slice of a constant that is no integer, an index past the end of
\* a constant, a division by zero, a constant of another type.
FoldAsserts(c, o) ==
  LET k == c.op[o].k
      args == c.op[o].args
      cst == [n \in DOMAIN args |-> Constant(c, args[n])]
      allConstant == args # <<>> /\ None \notin Range(cst)
  IN \/ /\ k \in {"cast", "cmp", "slice"} /\ allConstant
        /\ \E n \in DOMAIN cst : IsBadInt(cst[n])
        /\ ~(k = "cmp" /\ args[1] = args[2])
        /\ ~(k = "cast" /\ (c.op[o].ty = cst[1].ty \/ c.op[o].ty.k # "bits"))
     \/ k = "slice" /\ allConstant /\ ~IsConstantInt(cst[1])
     \/ k = "struct_extract" /\ allConstant /\ cst[1].k # "agg"
     \/ k = "array_get" /\ allConstant /\ (cst[1].k # "agg" \/ cst[2].n >= Len(cst[1].elems))
     \/ /\ k = "binop" /\ c.op[o].sub \in {"div", "mod"} /\ allConstant
        /\ ConstantInt(cst[1]) # 0 /\ ConstantInt(cst[2]) = 0
     \/ LET f == Fold(c, o) IN f.k \notin {"none", "value"} /\ f.ty # c.op[o].ty

=============================================================================
