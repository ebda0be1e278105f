------------------------------ MODULE P4Semantics ------------------------------
(***************************************************************************)
(* What the P4 language says that a body does: the reference the           *)
(* translation and the passes are measured against.  A name is a cell of   *)
(* the store; an inner declaration hides an outer one.                     *)
(***************************************************************************)
EXTENDS P4Source, P4Arithmetic

CONSTANT MaxRounds    \* rounds of a loop

RECURSIVE Eval(_, _)
Eval(s, x) ==
  LET E(i) == Eval(s, x.of[i])
      T(i) == IntType(x.of[i].ty)
  IN CASE x.e \in {"lit", "bool"} -> x.n[1]
       [] x.e = "path" -> s[x.name]
       [] x.e = "enum" -> IF x.ty.k = "enum" THEN PositionOf(x.ty.fields, x.name) - 1
                          ELSE x.ty.values[PositionOf(x.ty.fields, x.name)]
       [] x.e = "invalid" -> Zero(x.ty)
       [] x.e = "unary" -> UnaryValue(x.name, T(1), E(1))
       [] x.e \in {"binary", "shift"} -> Binary(x.name, IntType(x.ty), E(1), E(2))
       [] x.e = "cmp" -> IF x.of[2].e = "invalid" THEN Bool01((Last(E(1)) = 0) = (x.name = "eq"))
                         ELSE Bool01(Compare(x.name, E(1), E(2)))
       [] x.e = "concat" -> ConcatOf(T(1), T(2), E(1), E(2))
       [] x.e = "cast" -> CastValue(x.ty, E(1))
       [] x.e = "slice" -> SliceOf(T(1), E(1), x.n[1], x.n[2])
       [] x.e = "member" -> E(1)[PositionOf(Canonical(x.of[1].ty).fields, x.name)]
       [] x.e = "index" -> E(1)[E(2) + 1]
       [] x.e = "struct" -> [i \in DOMAIN x.of |-> E(i)]
                              \o (IF Canonical(x.ty).k = "header" THEN <<1>> ELSE <<>>)
       [] x.e = "list" -> [i \in DOMAIN x.of |-> E(i)]
       [] x.e = "range" -> [n \in 1..(E(2) - E(1) + 1) |-> E(1) + n - 1]
       [] x.e = "mux" -> IF E(1) = 1 THEN E(2) ELSE E(3)
       [] x.e = "land" -> IF E(1) = 1 THEN E(2) ELSE 0
       [] x.e = "lor" -> IF E(1) = 1 THEN 1 ELSE E(2)
       [] x.e = "isValid" -> Last(E(1))

\* The variable an l-value is a part of, and the path to the part.
RECURSIVE RootOf(_), PathTo(_, _)
RootOf(l) == IF l.e = "path" THEN l.name ELSE RootOf(l.of[1])
PathTo(s, l) ==
  CASE l.e = "path" -> <<>>
    [] l.e = "member" -> Append(PathTo(s, l.of[1]), PositionOf(Canonical(l.of[1].ty).fields, l.name))
    [] l.e = "index" -> Append(PathTo(s, l.of[1]), Eval(s, l.of[2]) + 1)

RECURSIVE Put(_, _, _)
Put(s, l, v) ==
  IF l.e = "slice"
  THEN Put(s, l.of[1], Patched(IntType(l.of[1].ty), Eval(s, l.of[1]), l.n[1], l.n[2], v))
  ELSE [s EXCEPT ![RootOf(l)] = WithPart(@, PathTo(s, l), v)]

Define(s, name, v) == (name :> v) @@ s

\* The store after a block: its own names are gone, those they hid are back.
Closed(after, before, hidden) ==
  [n \in DOMAIN before |-> IF n \in hidden THEN before[n] ELSE after[n]]
DeclaredIn(body) ==
  {body[i].name : i \in {j \in DOMAIN body : body[j].s \in {"decl", "const"}}}

Chosen(cases, v) ==
  LET hit == {i \in DOMAIN cases : \E n \in DOMAIN cases[i].labels : Eval(<<>>, cases[i].labels[n]) = v}
      default == {i \in DOMAIN cases : cases[i].default}
      first == IF hit # {} THEN {Min(hit)} ELSE default
  IN {Min({j \in DOMAIN cases : j >= i /\ ~cases[j].falls}) : i \in first}

RECURSIVE Do(_, _), Rounds(_, _, _)
DoAll(s, body) == FoldLeft(Do, s, body)
InBlock(s, body) == Closed(DoAll(s, body), s, DeclaredIn(body))

Rounds(s, f, n) ==
  IF n = 0 \/ Eval(s, f.x[1]) = 0 THEN s
  ELSE Rounds(DoAll(InBlock(s, f.body[3]), f.body[2]), f, n - 1)

Do(s, t) ==
  CASE t.s = "decl" -> Define(s, t.name, IF t.x = <<>> THEN Zero(t.ty) ELSE Eval(s, t.x[1]))
    [] t.s = "const" -> Define(s, t.name, Eval(s, t.x[1]))
    [] t.s = "assign" -> Put(s, t.x[1], Eval(s, t.x[2]))
    [] t.s = "opassign" ->
         Put(s, t.x[1], Binary(t.name, IntType(t.x[1].ty), Eval(s, t.x[1]), Eval(s, t.x[2])))
    [] t.s = "setValid" ->
         LET h == Eval(s, t.x[1]) IN Put(s, t.x[1], [h EXCEPT ![Len(h)] = 1])
    [] t.s = "block" -> InBlock(s, t.body[1])
    [] t.s = "if" -> InBlock(s, t.body[IF Eval(s, t.x[1]) = 1 THEN 1 ELSE 2])
    [] t.s = "switch" ->
         FoldLeft(LAMBDA u, i : InBlock(u, t.labels[i].body), s,
                  SetToSeq(Chosen(t.labels, Eval(s, t.x[1]))))
    [] t.s = "for" ->
         LET begun == DoAll(s, t.body[1])
         IN Closed(Rounds(begun, t, MaxRounds), s, DeclaredIn(t.body[1]))
    [] t.s = "forin" ->
         FoldLeft(LAMBDA u, v : Closed(InBlock(Define(u, t.name, v), t.body[1]), u, {t.name}),
                  s, Eval(s, t.x[1]))

\* The out parameters after a run of a program on values of all parameters.
MeaningOf(p, inputs) ==
  LET names == {p.params[i].name : i \in DOMAIN p.params}
      Index(n) == CHOOSE i \in DOMAIN p.params : p.params[i].name = n
      end == InBlock([n \in names |-> inputs[Index(n)]], p.body)
      outs == SelectSeq(p.params, LAMBDA q : q.out)
  IN [ends |-> TRUE, vals |-> [n \in DOMAIN outs |-> Visible(outs[n].ty, end[outs[n].name])]]

=============================================================================
