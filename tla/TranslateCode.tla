------------------------------ MODULE TranslateCode ------------------------------
(***************************************************************************)
(* How the body of a P4 function becomes a P4HIR body: the expressions and *)
(* the statements of P4HIRConverter (lib/P4C/translate.cpp).               *)
(*                                                                         *)
(* The converter is [c, b, names, v, ok]: the code, the block it builds    *)
(* in, what the names in scope stand for (a value, or the initializer of a *)
(* constant, which is materialized at every use), the value made last, and *)
(* whether no BUG_CHECK failed.                                            *)
(***************************************************************************)
EXTENDS HirCode, P4Source, P4Arithmetic

ValueName(v) == [v |-> v, init |-> <<>>]
ConstantName(x) == [v |-> 0, init |-> <<x>>]

Emit(t, op) == [t EXCEPT !.c = AddOp(@, t.b, op), !.v = Len(t.c.op) + 1]
Fail(t) == [t EXCEPT !.ok = FALSE, !.v = 1]
At(t, v) == [t EXCEPT !.v = v]
TypeOf(t) == t.c.op[t.v].ty

\* The value made last, read if it is a reference, and cast to a type.
GetValue(t) == IF IsRef(TypeOf(t)) THEN Emit(t, Unary("read", <<t.v>>, ObjectOf(TypeOf(t)))) ELSE t
GetValueAs(t, ty) ==
  LET r == GetValue(t) IN IF TypeOf(r) = ty THEN r ELSE Emit(r, CastOp(ty, r.v))

\* Builds a region of one block; its names end with it.
NextBlock(t) == Len(t.c.block) + 1
InRegion(t, Build(_)) ==
  LET u == Build([t EXCEPT !.c = AddBlock(@), !.b = NextBlock(t)])
  IN [u EXCEPT !.b = t.b, !.names = t.names]
Yield(t, vals) == Emit(t, Unary("yield", vals, Void))

-----------------------------------------------------------------------------
(* Constant expressions                                                     *)

\* A cast between equal types, one that folds, one to an alias.
ConstCast(ty, from, a) ==
  IF ty = from THEN a
  ELSE IF FoldConstantCast(ty, a) # None THEN FoldConstantCast(ty, a)
  ELSE IF ty.k = "alias" /\ a.k \in {"int", "bool"} THEN [a EXCEPT !.ty = ty] ELSE None

ConstOperator(x, a, b) ==
  CASE x.e = "cmp" -> BoolAttr((a = b) = (x.name = "eq"))
    [] OTHER -> IntAttr(a.ty, Binary(x.name, a.ty, a.n, b.n))

\* What a part of a constant may be: a field of an enum is no case of it.
TypedConstant(ty, a) ==
  IF \/ ty = Bool /\ a.k = "bool"
     \/ IsInteger(ty) /\ a.k = "int"
     \/ a.k = "agg"
  THEN a ELSE None

RECURSIVE ConstantExpr(_, _)
ConstantExpr(names, x) ==
  LET C(i) == ConstantExpr(names, x.of[i])
  IN CASE x.e = "path" -> ConstantExpr(names, names[x.name].init[1])
       [] x.e = "lit" -> IntAttr(x.ty, x.n[1])
       [] x.e = "bool" -> BoolAttr(x.n[1] = 1)
       [] x.e = "invalid" -> DefaultAttr(x.ty)
       [] x.e = "cast" -> ConstCast(x.ty, x.of[1].ty, C(1))
       [] x.e \in {"list", "struct"} -> AggAttr(x.ty, [i \in DOMAIN x.of |-> C(i)])
       [] x.e = "index" -> TypedConstant(x.ty, C(1).elems[C(2).n + 1])
       [] x.e = "enum" -> EnumFieldAttr(x.ty, x.name)
       [] x.e = "member" -> TypedConstant(x.ty, C(1).elems[PositionOf(x.of[1].ty.fields, x.name)])
       [] x.e = "cmp" /\ x.name \in {"eq", "ne"} -> ConstOperator(x, C(1), C(2))
       [] x.e \in {"shift", "binary"} /\ x.name \in {"shl", "shr", "and", "or"} ->
            ConstOperator(x, C(1), C(2))
       [] OTHER -> None

\* A constant is made where it is used.
Materialize(t, x) ==
  LET a == ConstantExpr(t.names, x)
  IN IF a = None THEN Fail(t) ELSE Emit(t, ConstOp(a))

-----------------------------------------------------------------------------
(* Fields and validity                                                      *)

FieldRef(t, f) ==
  LET s == ObjectOf(TypeOf(t))
  IN Emit(t, Indexed("struct_field_ref", <<t.v>>, <<PositionOf(s.fields, f)>>, Ref(FieldType(s, f))))
StructExtract(t, f) ==
  LET s == TypeOf(t)
  IN Emit(t, Indexed("struct_extract", <<t.v>>, <<PositionOf(s.fields, f)>>, FieldType(s, f)))

AssignTo(t, ref) == Emit(t, Unary("assign", <<t.v, ref>>, Void))

EmitHeaderValidityBitAssign(t, valid) ==
  LET bit == Emit(t, ConstOp(ValidityAttr(valid)))
      ref == FieldRef(At(bit, t.v), Validity)
  IN AssignTo(At(ref, bit.v), ref.v)

EmitHeaderIsValidCmp(t, valid) ==
  LET have == IF IsRef(TypeOf(t)) THEN GetValue(FieldRef(t, Validity))
              ELSE StructExtract(t, Validity)
      want == Emit(have, ConstOp(ValidityAttr(valid)))
  IN Emit(want, Kinded("cmp", "eq", <<have.v, want.v>>, Bool))

-----------------------------------------------------------------------------
(* Operators, on the values l and r of their operands                       *)

EmitUnOp(t, x) ==
  LET a == GetValueAs(t, x.ty) IN Emit(a, Kinded("unary", x.name, <<a.v>>, x.ty))

\* An operation of type ty on l, cast to it, and r, cast to tr.
EmitTwo(t, op, l, r, ty, tr) ==
  LET a == GetValueAs(At(t, l), ty)
      b == GetValueAs(At(a, r), tr)
  IN Emit(b, [op EXCEPT !.args = <<a.v, b.v>>, !.ty = ty])

EmitBinOp(t, x, l, r) == EmitTwo(t, Kinded("binop", x.name, <<>>, Void), l, r, x.ty, x.ty)
EmitShift(t, x, l, r) == EmitTwo(t, Op(x.name), l, r, x.ty, IntType(x.of[2].ty))

EmitConcat(t, l, r) ==
  LET a == GetValue(At(t, l))
      b == GetValue(At(a, r))
  IN Emit(b, Unary("concat", <<a.v, b.v>>,
                   [TypeOf(a) EXCEPT !.w = @ + TypeOf(b).w]))

\* Bug: operands of two types are compared as they are.
EmitCmpUncast(t, x, l, r) ==
  LET a == GetValue(At(t, l))
      b == GetValue(At(a, r))
  IN Emit(b, Kinded("cmp", x.name, <<a.v, b.v>>, Bool))

\* Operands of two types are read again, as the integers they stand for.
EmitCmp(t, x, l, r) ==
  LET a == GetValue(At(t, l))
      b == GetValue(At(a, r))
      a2 == GetValueAs(At(b, l), IntType(x.of[1].ty))
      b2 == GetValueAs(At(a2, r), IntType(x.of[2].ty))
  IN IF TypeOf(a) = TypeOf(b) THEN Emit(b, Kinded("cmp", x.name, <<a.v, b.v>>, Bool))
     ELSE Emit(b2, Kinded("cmp", x.name, <<a2.v, b2.v>>, Bool))

EmitRange(t, x, l, r) ==
  LET a == GetValueAs(At(t, l), IntType(x.of[1].ty))
      b == GetValueAs(At(a, r), IntType(x.of[2].ty))
  IN Emit(b, Unary("range", <<a.v, b.v>>, [k |-> "set", of |-> TypeOf(a)]))

EmitArrayIndex(t, x, l, r) ==
  LET a == GetValue(At(t, l))
      i == GetValueAs(At(a, r), Bits(32))
  IN Emit(i, Unary("array_get", <<a.v, i.v>>, TypeOf(a).of))

EmitTupleIndex(t, x) ==
  LET a == GetValue(t)
      i == ConstantExpr(t.names, x.of[2]).n + 1
  IN Emit(a, Indexed("tuple_extract", <<a.v>>, <<i>>, TypeOf(a).types[i]))

EmitIf(t, cond, ty, then, else) ==
  Emit(t, Nested("if", <<cond>>, ty, <<<<then>>, else>>))

-----------------------------------------------------------------------------
(* Expressions                                                              *)

RECURSIVE Visit(_, _), Resolve(_, _, _), Fields(_, _)

Convert(t, x) == GetValue(Visit(t, x))

\* The values of a sequence of expressions: [t, vals].
Fields(t, xs) ==
  FoldLeft(LAMBDA acc, x : LET u == Convert(acc.t, x)
                           IN [t |-> u, vals |-> Append(acc.vals, u.v)],
           [t |-> t, vals |-> <<>>], xs)

\* An access to a part of something, one layer after the other.
Resolve(t, x, unchecked) ==
  CASE x.e = "member" ->
         LET base == Resolve(t, x.of[1], unchecked)
         IN IF IsRef(TypeOf(base)) THEN FieldRef(base, x.name) ELSE StructExtract(base, x.name)
    [] x.e = "index" ->
         LET base == Resolve(t, x.of[1], unchecked)
             i == GetValueAs(Visit(base, x.of[2]), Bits(32))
         IN IF ObjectOf(TypeOf(base)).k # "array" THEN Fail(t)
            ELSE Emit(i, Unary("array_element_ref", <<base.v, i.v>>, Ref(ObjectOf(TypeOf(base)).of)))
    [] OTHER ->
         LET r == Visit(t, x)
         IN IF unchecked \/ IsRef(TypeOf(r)) THEN r ELSE Fail(r)

\* An operator that lazily takes one of two values.
VisitLazy(t, x) ==
  LET cond == Convert(t, x.of[1])
      Take(e, u) == LET w == Convert(u, e) IN Yield(w, <<w.v>>)
      Cst(b, u) == LET w == Emit(u, ConstOp(BoolAttr(b))) IN Yield(w, <<w.v>>)
      then == InRegion(cond, LAMBDA u : CASE x.e = "mux" -> Take(x.of[2], u)
                                          [] x.e = "land" -> Take(x.of[2], u)
                                          [] x.e = "lor" -> Cst(TRUE, u))
      else == InRegion(then, LAMBDA u : CASE x.e = "mux" -> Take(x.of[3], u)
                                          [] x.e = "land" -> Cst(FALSE, u)
                                          [] x.e = "lor" -> Take(x.of[2], u))
      yield == Last(then.c.block[NextBlock(cond)])
  IN EmitIf(else, cond.v, then.c.op[then.c.op[yield].args[1]].ty,
            NextBlock(cond), <<NextBlock(then)>>)

VisitSlice(t, x) ==
  LET from == x.of[1]
      r == Resolve(t, from, TRUE)
      v == GetValueAs(r, IntType(from.ty))
  IN IF IsRef(TypeOf(r)) /\ ObjectOf(TypeOf(r)).k = "bits"
     THEN Emit(r, Indexed("read_slice", <<r.v>>, x.n, x.ty))
     ELSE Emit(v, Indexed("slice", <<v.v>>, x.n, x.ty))

\* The header is asked for before it is visited: only a name has a value then.
VisitInvalidHeaderCmp(t, x) ==
  IF x.of[1].e # "path" THEN Fail(t)
  ELSE EmitHeaderIsValidCmp(Convert(t, x.of[1]), x.name = "ne")

VisitStruct(t, x) ==
  LET fields == Fields(t, x.of)
      s == Emit(fields.t, ConstOp(ValidityAttr(TRUE)))
  IN IF x.ty.k = "header" THEN Emit(s, Unary("struct", Append(fields.vals, s.v), x.ty))
     ELSE Emit(fields.t, Unary("struct", fields.vals, x.ty))

VisitExpression(t, x) ==
  LET l == Visit(t, x.of[1])
      r == Visit(l, x.of[2])
      list == Fields(t, x.of)
  IN CASE x.e \in {"lit", "bool", "enum", "invalid"} -> Materialize(t, x)
       [] x.e = "path" -> IF t.names[x.name].init # <<>> THEN Materialize(t, x)
                          ELSE At(t, t.names[x.name].v)
       [] x.e = "cast" -> LET v == GetValue(l) IN Emit(v, CastOp(x.ty, v.v))
       [] x.e = "unary" -> EmitUnOp(l, x)
       [] x.e = "binary" -> EmitBinOp(r, x, l.v, r.v)
       [] x.e = "shift" -> EmitShift(r, x, l.v, r.v)
       [] x.e = "cmp" /\ x.of[2].e = "invalid" -> VisitInvalidHeaderCmp(t, x)
       [] x.e = "cmp" -> EmitCmp(r, x, l.v, r.v)
       [] x.e = "concat" -> EmitConcat(r, l.v, r.v)
       [] x.e = "slice" -> VisitSlice(t, x)
       [] x.e = "member" -> StructExtract(GetValue(l), x.name)
       [] x.e = "index" -> IF x.of[1].ty.k = "tuple" THEN EmitTupleIndex(l, x)
                           ELSE EmitArrayIndex(r, x, l.v, r.v)
       [] x.e = "struct" -> VisitStruct(t, x)
       [] x.e = "list" -> Emit(list.t, Unary("tuple", list.vals, x.ty))
       [] x.e = "range" -> EmitRange(r, x, l.v, r.v)
       [] x.e = "isValid" -> EmitHeaderIsValidCmp(Resolve(t, x.of[1], TRUE), TRUE)
       [] OTHER -> VisitLazy(t, x)

-----------------------------------------------------------------------------
(* Statements                                                               *)

\* The initializer is visited before the variable is there.
VisitDeclaration(t, s) ==
  LET value == IF s.x = <<>> THEN t ELSE Visit(t, s.x[1])
      var == Emit(value, Unary("variable", <<>>, Ref(s.ty)))
      set == CASE s.x = <<>> -> var
               [] s.x # <<>> /\ s.x[1].e = "invalid" -> EmitHeaderValidityBitAssign(var, FALSE)
               [] OTHER -> AssignTo(GetValueAs(At(var, value.v), s.ty), var.v)
  IN [set EXCEPT !.names = (s.name :> ValueName(var.v)) @@ @]

\* Slices of slices are one slice.
RECURSIVE SliceTarget(_, _)
SliceTarget(x, n) ==
  IF x.e # "slice" THEN [x |-> x, n |-> n]
  ELSE SliceTarget(x.of[1], <<n[1] + x.n[2], n[2] + x.n[2]>>)

VisitAssignSlice(t, l, r) ==
  LET target == SliceTarget(l.of[1], l.n)
      ref == Resolve(t, target.x, FALSE)
      v == Convert(ref, r)
  IN Emit(v, Indexed("assign_slice", <<v.v, ref.v>>, target.n, Void))

VisitAssignment(t, s) ==
  LET l == s.x[1]
      ref == Resolve(t, l, FALSE)
      v == GetValueAs(Visit(ref, s.x[2]), ObjectOf(TypeOf(ref)))
  IN CASE s.x[2].e = "invalid" -> EmitHeaderValidityBitAssign(ref, FALSE)
       [] l.e = "slice" -> VisitAssignSlice(t, l, s.x[2])
       [] OTHER -> AssignTo(v, ref.v)

\* The amount of a shift is cast to the type of what is shifted.
VisitOpAssign(t, s) ==
  LET ref == Resolve(t, s.x[1], FALSE)
      r == Visit(ref, s.x[2])
      ty == s.x[1].ty
      op == IF s.name \in {"shl", "shr"} THEN Op(s.name) ELSE Kinded("binop", s.name, <<>>, Void)
  IN AssignTo(EmitTwo(r, op, ref.v, r.v, ty, ty), ref.v)

VisitAll(t, body) == FoldLeft(Visit, t, body)
BodyRegion(t, body) == InRegion(t, LAMBDA u : Yield(VisitAll(u, body), <<>>))

VisitIf(t, s) ==
  LET cond == Convert(t, s.x[1])
      then == BodyRegion(cond, s.body[1])
      else == BodyRegion(then, s.body[2])
  IN IF s.body[2] = <<>> THEN EmitIf(then, cond.v, Void, NextBlock(cond), <<>>)
     ELSE EmitIf(else, cond.v, Void, NextBlock(cond), <<NextBlock(then)>>)

EmitScope(t, Build(_)) ==
  Emit(InRegion(t, LAMBDA u : Yield(Build(u), <<>>)),
       Nested("scope", <<>>, Void, <<<<NextBlock(t)>>>>))

CaseKind(c, labels) ==
  IF c.default THEN "default" ELSE IF Len(labels) > 1 THEN "anyof" ELSE "equal"

\* Labels without a statement wait for the next case that has one: [t, labels].
VisitCase(acc, c) ==
  LET labels == acc.labels \o [n \in DOMAIN c.labels |-> ConstantExpr(acc.t.names, c.labels[n])]
      body == BodyRegion(acc.t, c.body)
      op == [Nested("case", <<>>, Void, <<<<NextBlock(acc.t)>>>>)
               EXCEPT !.sub = CaseKind(c, labels), !.attr = ListAttr(labels)]
  IN IF c.falls THEN [acc EXCEPT !.labels = labels]
     ELSE [t |-> Emit(body, op), labels |-> <<>>]

VisitSwitch(t, s) ==
  LET cond == Convert(t, s.x[1])
      body == InRegion(cond, LAMBDA u :
                Yield(FoldLeft(VisitCase, [t |-> u, labels |-> <<>>], s.labels).t, <<>>))
  IN Emit(body, Nested("switch", <<cond.v>>, Void, <<<<NextBlock(cond)>>>>))

BuildFor(t, s) ==
  LET init == VisitAll(t, s.body[1])
      cond == InRegion(init, LAMBDA u : LET w == Convert(u, s.x[1])
                                        IN Emit(w, Unary("condition", <<w.v>>, Void)))
      body == BodyRegion(cond, s.body[3])
      updates == BodyRegion(body, s.body[2])
  IN [Emit(updates, Nested("for", <<>>, Void, <<<<NextBlock(init)>>, <<NextBlock(cond)>>,
                                                <<NextBlock(body)>>>>))
        EXCEPT !.names = t.names]

VisitFor(t, s) ==
  IF \E i \in DOMAIN s.body[1] : s.body[1][i].s = "decl"
  THEN EmitScope(t, LAMBDA u : BuildFor(u, s)) ELSE BuildFor(t, s)

BuildForIn(t, s) ==
  LET all == Convert(t, s.x[1])
      Named1(u) == [u EXCEPT !.names = (s.name :> ValueName(u.v)) @@ @]
      body == InRegion(all, LAMBDA u :
                Yield(VisitAll(Named1(Emit(u, ArgOp(TypeOf(all).of))), s.body[1]), <<>>))
  IN Emit(body, Nested("foreach", <<all.v>>, Void, <<<<NextBlock(all)>>>>))

VisitForIn(t, s) ==
  IF s.x[1].e = "range" THEN EmitScope(t, LAMBDA u : BuildForIn(u, s)) ELSE BuildForIn(t, s)

VisitStatement(t, s) ==
  CASE s.s = "decl" -> VisitDeclaration(t, s)
    [] s.s = "const" -> [t EXCEPT !.names = (s.name :> ConstantName(s.x[1])) @@ @]
    [] s.s = "assign" -> VisitAssignment(t, s)
    [] s.s = "opassign" -> VisitOpAssign(t, s)
    [] s.s = "setValid" -> EmitHeaderValidityBitAssign(Resolve(t, s.x[1], FALSE), TRUE)
    [] s.s = "block" -> EmitScope(t, LAMBDA u : VisitAll(u, s.body[1]))
    [] s.s = "if" -> VisitIf(t, s)
    [] s.s = "switch" -> VisitSwitch(t, s)
    [] s.s = "for" -> VisitFor(t, s)
    [] s.s = "forin" -> VisitForIn(t, s)

\* A node is visited for what it is.
Visit(t, n) == IF "e" \in DOMAIN n THEN VisitExpression(t, n) ELSE VisitStatement(t, n)

-----------------------------------------------------------------------------
(* The body of a function                                                   *)

ParameterType(p) == IF p.out THEN Ref(p.ty) ELSE p.ty

\* The entry block has an argument for every parameter.
Entered(params) ==
  LET n == [i \in DOMAIN params |-> params[i].name]
  IN [c |-> [op |-> [i \in DOMAIN params |-> ArgOp(ParameterType(params[i]))],
             block |-> <<[i \in DOMAIN params |-> i]>>, root |-> <<1>>],
      b |-> 1, v |-> 1, ok |-> TRUE,
      names |-> [x \in Range(n) |-> ValueName(PositionOf(n, x))]]

Returned(t) == Emit(t, Op("return"))

=============================================================================
