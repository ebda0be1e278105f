------------------------------- MODULE P4Source -------------------------------
(***************************************************************************)
(* P4 code as the P4 compiler hands it over: typed expressions and         *)
(* statements, with the casts that type inference puts in.                 *)
(*                                                                         *)
(* An expression is [e, ty, of, name, n]: its kind, its type, its operands, *)
(* and what else the kind asks for.  A statement is [s, x, body, name, ty,  *)
(* labels]: its expressions, its bodies, the name it declares, its cases.   *)
(***************************************************************************)
EXTENDS HirTypes

Expression(e, ty, of) == [e |-> e, ty |-> ty, of |-> of, name |-> "", n |-> <<>>]
Named(e, ty, of, name) == [Expression(e, ty, of) EXCEPT !.name = name]

Lit(ty, n) == [Expression("lit", ty, <<>>) EXCEPT !.n = <<n>>]
BoolLit(b) == [Expression("bool", Bool, <<>>) EXCEPT !.n = <<IF b THEN 1 ELSE 0>>]
Path(name, ty) == Named("path", ty, <<>>, name)
EnumMember(ty, f) == Named("enum", ty, <<>>, f)
InvalidHeader(ty) == Expression("invalid", ty, <<>>)
Un(kind, x) == Named("unary", x.ty, <<x>>, kind)
Bin(kind, x, y) == Named("binary", x.ty, <<x, y>>, kind)
ShiftBy(kind, x, y) == Named("shift", x.ty, <<x, y>>, kind)
Cmp(kind, x, y) == Named("cmp", Bool, <<x, y>>, kind)
Concat(x, y) == Expression("concat", [x.ty EXCEPT !.w = @ + y.ty.w], <<x, y>>)
CastTo(ty, x) == Expression("cast", ty, <<x>>)
SliceBits(x, hi, lo) == [Expression("slice", Bits(hi - lo + 1), <<x>>) EXCEPT !.n = <<hi, lo>>]
Member(x, f) == Named("member", FieldType(Canonical(x.ty), f), <<x>>, f)
Element(x, i) == Expression("index", IF x.ty.k = "array" THEN x.ty.of ELSE x.ty.types[i.n[1] + 1],
                            <<x, i>>)
StructOf(ty, xs) == Expression("struct", ty, xs)
ListOf(ty, xs) == Expression("list", ty, xs)
RangeOf(x, y) == Expression("range", [k |-> "set", of |-> x.ty], <<x, y>>)
Mux(c, x, y) == Expression("mux", x.ty, <<c, x, y>>)
AndAlso(x, y) == Expression("land", Bool, <<x, y>>)
OrElse(x, y) == Expression("lor", Bool, <<x, y>>)
IsValid(x) == Expression("isValid", Bool, <<x>>)

Statement(s, x, body) == [s |-> s, x |-> x, body |-> body, name |-> "", ty |-> Void, labels |-> <<>>]

Declare(name, ty, init) == [Statement("decl", init, <<>>) EXCEPT !.name = name, !.ty = ty]
DeclareConst(name, x) == [Statement("const", <<x>>, <<>>) EXCEPT !.name = name]
Assign(l, r) == Statement("assign", <<l, r>>, <<>>)
OpAssign(kind, l, r) == [Statement("opassign", <<l, r>>, <<>>) EXCEPT !.name = kind]
SetValid(x) == Statement("setValid", <<x>>, <<>>)
Block(body) == Statement("block", <<>>, <<body>>)
If(c, then, else) == Statement("if", <<c>>, <<then, else>>)
\* A case is [labels, default, falls, body]; one that falls shares the body of
\* the next.
Case(labels, body) == [labels |-> labels, default |-> FALSE, falls |-> FALSE, body |-> body]
FallingCase(labels) == [Case(labels, <<>>) EXCEPT !.falls = TRUE]
Default(body) == [Case(<<>>, body) EXCEPT !.default = TRUE]
Switch(x, cases) == [Statement("switch", <<x>>, <<>>) EXCEPT !.labels = cases]
For(init, c, updates, body) == Statement("for", <<c>>, <<init, updates, body>>)
ForIn(name, x, body) == [Statement("forin", <<x>>, <<body>>) EXCEPT !.name = name, !.ty = x.ty.of]

\* A body with its parameters, [name, ty, out].
Param(name, ty, out) == [name |-> name, ty |-> ty, out |-> out]
Program(params, body, inputs) == [params |-> params, body |-> body, inputs |-> inputs]

=============================================================================
