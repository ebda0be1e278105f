------------------------------- MODULE HirPatterns -------------------------------
(***************************************************************************)
(* The rewrite patterns of the P4HIR operations and what the canonicalizer *)
(* does with one operation it visits: folds it, or applies a pattern.      *)
(***************************************************************************)
EXTENDS HirFolds

\* sub(sub(x, c0), c1) and the like: an operation of kind `outer` with a
\* constant on side `oc`, whose other operand is one of kind `inner` with a
\* constant on side `ic`.  It becomes one of kind `to` with one constant, on
\* side `tc`: the sum of the two or their difference.
Pattern(outer, oc, inner, ic, to, tc, value) ==
  [outer |-> outer, oc |-> oc, inner |-> inner, ic |-> ic, to |-> to, tc |-> tc, value |-> value]

TwoConstants ==
  {Pattern("add", 2, "add", 2, "add", 2, "sum"),                  \* AddAddCst
   Pattern("sub", 2, "add", 2, "add", 2, "inner - outer"),        \* SubAddCst
   Pattern("add", 2, "sub", 2, "add", 2, "outer - inner"),        \* AddSubCst
   Pattern("sub", 2, "sub", 2, "sub", 2, "sum"),                  \* SubSubCst
   Pattern("add", 2, "sub", 1, "sub", 1, "sum"),                  \* AddSubLhsCst
   Pattern("sub", 2, "sub", 1, "sub", 1, "inner - outer"),        \* SubSubLhsCst
   Pattern("sub", 1, "sub", 2, "sub", 1, "sum"),                  \* SubRhsSubCst
   Pattern("sub", 1, "sub", 1, "add", 2, "outer - inner"),        \* SubRhsSubLhsCst
   Pattern("mul", 2, "mul", 2, "mul", 2, "sum")}                  \* MulMulCst

Other(side) == 3 - side

Matches(c, o, p) ==
  /\ c.op[o].sub = p.outer
  /\ Constant(c, Arg(c, o, p.oc)).k = "int"
  /\ LET x == Arg(c, o, Other(p.oc))
     IN IsBinop(c, p.inner, x) /\ Constant(c, Arg(c, x, p.ic)).k = "int"

IntegerOf(c, o, p) ==
  LET x == Arg(c, o, Other(p.oc))
      outer == Constant(c, Arg(c, o, p.oc)).n
      inner == Constant(c, Arg(c, x, p.ic)).n
      t == c.op[o].ty
  IN IntAttr(t, CASE p.value = "sum" -> Binary("add", t, inner, outer)
                  [] p.value = "inner - outer" -> Binary("sub", t, inner, outer)
                  [] OTHER -> Binary("sub", t, outer, inner))

\* New operations in front of o, the last of which replaces it.
Replaced(c, o, ops) == ReplaceOp(InsertOps(c, o, ops), o, Len(c.op) + Len(ops))

ApplyTwoConstants(c, o, p) ==
  LET k == Len(c.op) + 1
      x == Arg(c, Arg(c, o, Other(p.oc)), Other(p.ic))
      args == IF p.tc = 2 THEN <<x, k>> ELSE <<k, x>>
  IN Replaced(c, o, <<ConstOp(IntegerOf(c, o, p)), Kinded("binop", p.to, args, c.op[o].ty)>>)

\* The patterns with a negation on either side: what each of them makes of o.
NegationPatterns(c, o) ==
  LET kind == c.op[o].sub
      t == c.op[o].ty
      l == Arg(c, o, 1)
      r == Arg(c, o, 2)
      Cst(v, n) == IsIntegerValue(Constant(c, v), n)
      Bin(sub, x, y) == Kinded("binop", sub, <<x, y>>, t)
      Neg(x) == Kinded("unary", "neg", <<x>>, t)
  IN FlattenSeq(<<
       When(kind = "add" /\ IsUnop(c, "neg", l), Bin("sub", r, Arg(c, l, 1))),
       When(kind = "add" /\ IsUnop(c, "neg", r), Bin("sub", l, Arg(c, r, 1))),
       When(kind = "sub" /\ IsUnop(c, "neg", r), Bin("add", l, Arg(c, r, 1))),
       When(kind = "mul" /\ Cst(r, -1), Neg(l)),
       When(kind \in {"sub", "ssub"} /\ Cst(l, 0), Neg(r)),
       When(kind = "add" /\ IsUnop(c, "cmpl", l) /\ Cst(r, 1), Neg(Arg(c, l, 1)))>>)

BinPatterns(c, o) ==
  {ApplyTwoConstants(c, o, p) : p \in {q \in TwoConstants : Matches(c, o, q)}}
    \cup {Replaced(c, o, <<op>>) : op \in Range(NegationPatterns(c, o))}

\* cast(cast(x)) -> cast(x)
CastPattern(c, o) ==
  LET x == Arg(c, o, 1)
  IN IF c.op[x].k = "cast"
     THEN {Replaced(c, o, <<CastOp(c.op[o].ty, Arg(c, x, 1))>>)} ELSE {}

-----------------------------------------------------------------------------
(* Variables that are only written, or written once and read afterwards     *)

Assigns(c, v) == {u \in Users(c, v) : c.op[u].k = "assign"}

\* Bug: a read in another block counts as one after the assignment.
IsForwardedAnywhere(c, v, a) ==
  \A u \in Users(c, v) \ {a} : c.op[u].k = "read" /\ ~IsBefore(c, u, a)

IsForwarded(c, v, a) ==
  \A u \in Users(c, v) \ {a} :
    BlockOf(c, u) = BlockOf(c, a) /\ c.op[u].k = "read" /\ ~IsBefore(c, u, a)

VariablePattern(c, v) ==
  LET users == Users(c, v)
      assigns == Assigns(c, v)
      Forward(a) == LET value == Arg(c, a, 1)
                        New(x) == IF x \in users THEN value ELSE x
                    IN EraseOps([c EXCEPT !.op = [o \in DOMAIN @ |->
                                   [@[o] EXCEPT !.args = [n \in DOMAIN @ |-> New(@[n])]]]],
                                users \cup {v})
  IN IF users = assigns THEN {EraseOps(c, users \cup {v})}
     ELSE IF Cardinality(assigns) # 1 THEN {}
     ELSE {Forward(a) : a \in {b \in assigns : IsForwarded(c, v, b)}}

-----------------------------------------------------------------------------
(* A scope without variables of its own is inlined                          *)

ScopePattern(c, o) ==
  LET b == c.op[o].regions[1][1]
      body == Front(c.block[b])
      yield == c.op[Last(c.block[b])]
      at == BlockOf(c, o)
      i == IndexOf(c, o)
      moved == [c EXCEPT !.block[b] = <<>>,
                         !.block[at] = SubSeq(@, 1, i - 1) \o body \o SubSeq(@, i, Len(@))]
  IN IF Len(c.op[o].regions[1]) = 1 /\ \A u \in Range(body) : c.op[u].k # "variable"
     THEN {IF yield.args = <<>> THEN EraseOps(moved, {o}) ELSE ReplaceOp(moved, o, yield.args[1])}
     ELSE {}

-----------------------------------------------------------------------------
(* A part of something that was read just for it is read alone              *)

PartRef(c, o, r, part) ==
  [part EXCEPT !.args = <<Arg(c, r, 1)>> \o @, !.ty = Ref(c.op[o].ty)]
PartRead(c, o) == Unary("read", <<Len(c.op) + 1>>, c.op[o].ty)

\* Bug: the part is read where it is used.
ReadPartLate(c, o, r, part) ==
  LET new == InsertOps(InsertOps(c, r, <<PartRef(c, o, r, part)>>), o, <<PartRead(c, o)>>)
  IN EraseOps(ReplaceOp(new, o, Len(c.op) + 2), {r})

\* The read r becomes one of a part of what it reads, in its place.
ReadPart(c, o, r, part) ==
  LET new == InsertOps(c, r, <<PartRef(c, o, r, part), PartRead(c, o)>>)
  IN EraseOps(ReplaceOp(new, o, Len(c.op) + 2), {r})

IsLoneRead(c, r) == c.op[r].k = "read" /\ HasOneUse(c, r)

StructExtractPattern(c, o) ==
  LET r == Arg(c, o, 1)
  IN IF IsLoneRead(c, r)
     THEN {ReadPart(c, o, r, Indexed("struct_field_ref", <<>>, c.op[o].idx, Void))} ELSE {}

\* The index has to be there where the read is.
IndexIsThere(c, o, r, i) ==
  \/ IsBefore(c, i, r)
  \/ BlockOf(c, i) # BlockOf(c, r) /\ BlockOf(c, r) = BlockOf(c, o)

ArrayGetPattern(c, o) ==
  LET r == Arg(c, o, 1)
      i == Arg(c, o, 2)
  IN IF IsLoneRead(c, r) /\ c.op[i].k # "arg" /\ IndexIsThere(c, o, r, i)
     THEN {ReadPart(c, o, r, Unary("array_element_ref", <<i>>, Void))} ELSE {}

Patterns(c, o) ==
  LET k == c.op[o].k
  IN CASE k = "binop" -> BinPatterns(c, o)
       [] k = "cast" -> CastPattern(c, o)
       [] k = "variable" -> VariablePattern(c, o)
       [] k = "scope" -> ScopePattern(c, o)
       [] k = "struct_extract" -> StructExtractPattern(c, o)
       [] k = "array_get" -> ArrayGetPattern(c, o)
       [] OTHER -> {}

-----------------------------------------------------------------------------
(* The driver                                                               *)

\* What a visit of o can make of the code.
Rewrites(c, o) ==
  LET s == SortedArgs(c, o)
      f == Fold(c, o)
      p == Patterns(s, o)
  IN IF IsCmpToSwap(c, o) THEN {SwapCmp(c, o)}
     ELSE IF f.k = "value" THEN {ReplaceOp(s, o, f.v)}
     ELSE IF f # None THEN {MaterializeConstant(s, o, f)}
     ELSE IF p # {} THEN p
     ELSE {s} \ {c}

\* Operations nobody uses are erased, a scope or a conditional if all it does
\* is to compute, and constants are made one and moved to the head of the body.
IsEffectFree(c, o) ==
  \/ c.op[o].k \in PureOps
  \/ /\ c.op[o].k \in {"scope", "if"}
     /\ \A b \in Range(BlocksUnder(c, BlocksOf(c, o))) : \A u \in Range(c.block[b]) :
          c.op[u].k \in PureOps \cup {"scope", "if", "variable", "yield"}

RECURSIVE WithoutDead(_)
WithoutDead(c) ==
  LET dead == {o \in OpsIn(c) : Users(c, o) = {} /\ IsEffectFree(c, o)}
  IN IF dead = {} THEN c ELSE WithoutDead(Renumbered(EraseOps(c, dead)))

Entry(c) == c.root[1]

Hoisted(c) ==
  LET csts == {o \in OpsIn(c) : c.op[o].k = "const"}
      First(o) == Min({u \in csts : c.op[u] = c.op[o]})
      kept == {First(o) : o \in csts}
      Arguments(b) == SelectSeq(c.block[b], LAMBDA o : c.op[o].k = "arg")
      New(x) == IF x \in csts THEN First(x) ELSE x
      rest == EraseOps([c EXCEPT !.op = [o \in DOMAIN @ |->
                          [@[o] EXCEPT !.args = [n \in DOMAIN @ |-> New(@[n])]]]], csts)
      b == Entry(c)
      n == Len(Arguments(b))
      moved == SelectSeq([o \in DOMAIN c.op |-> o], LAMBDA o : o \in kept)
  IN [rest EXCEPT !.block[b] = SubSeq(@, 1, n) \o moved \o SubSeq(@, n + 1, Len(@))]

Tidied(c) == Renumbered(Hoisted(WithoutDead(c)))

=============================================================================
