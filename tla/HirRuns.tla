-------------------------------- MODULE HirRuns --------------------------------
(***************************************************************************)
(* What a P4HIR body does when it runs: structured regions and branches.   *)
(*                                                                         *)
(* A run is [env, mem, fuel]: the value of every operation that ran, the   *)
(* cells of the variables, and the number of blocks it may still enter.  A *)
(* reference is a cell and the path to a part of it.                       *)
(***************************************************************************)
EXTENDS HirCode, P4Arithmetic

CONSTANT MaxFuel    \* blocks a run may enter

RECURSIVE AttrValue(_)
AttrValue(a) ==
  CASE a.k = "agg" -> [i \in DOMAIN a.elems |-> AttrValue(a.elems[i])]
    [] a.k = "field" /\ a.ty.k = "enum" -> PositionOf(a.ty.fields, a.field) - 1
    [] a.k = "field" -> ConstantInt(a)
    [] OTHER -> a.n

Load(r, s) == PartOf(s.mem[r[1]], Tail(r))
Store(r, x, s) == [s EXCEPT !.mem[r[1]] = WithPart(@, Tail(r), x)]

\* The value of an operation without effect on operands x, of types u.
Computed(op, x, u) ==
  LET t == Canonical(op.ty)
  IN CASE op.k = "const" -> AttrValue(op.attr)
       [] op.k = "cast" -> CastValue(op.ty, x[1])
       [] op.k = "unary" -> UnaryValue(op.sub, t, x[1])
       [] op.k = "binop" -> Binary(op.sub, t, x[1], x[2])
       [] op.k \in {"shl", "shr"} -> Binary(op.k, t, x[1], x[2])
       [] op.k = "cmp" -> Bool01(Compare(op.sub, x[1], x[2]))
       [] op.k = "concat" -> ConcatOf(u[1], u[2], x[1], x[2])
       [] op.k = "slice" -> SliceOf(IntType(u[1]), x[1], op.idx[1], op.idx[2])
       [] op.k \in {"struct", "tuple", "array"} -> x
       [] op.k \in {"struct_extract", "tuple_extract"} -> x[1][op.idx[1]]
       [] op.k = "array_get" -> x[1][x[2] + 1]
       [] op.k = "range" -> [n \in 1..(x[2] - x[1] + 1) |-> x[1] + n - 1]
       [] op.k = "struct_field_ref" -> Append(x[1], op.idx[1])
       [] op.k = "array_element_ref" -> Append(x[1], x[2] + 1)

CaseOf(c, body, x) ==
  LET cases == SelectSeq(body, LAMBDA o : c.op[o].k = "case")
      Holds(o) == \E a \in Range(c.op[o].attr.elems) : AttrValue(a) = x
      hit == {i \in DOMAIN cases : c.op[cases[i]].sub # "default" /\ Holds(cases[i])}
      default == {i \in DOMAIN cases : c.op[cases[i]].sub = "default"}
  IN IF hit # {} THEN {cases[Min(hit)]} ELSE {cases[i] : i \in default}

RECURSIVE Execute(_, _, _), RunBlock(_, _, _, _), RunFor(_, _, _)

\* Runs a block on the values of its arguments, and the blocks it branches to;
\* `vals` is what the last of them yields.
RunBlock(c, b, vals, s) ==
  LET args == SelectSeq(c.block[b], LAMBDA o : c.op[o].k = "arg")
      body == SubSeq(c.block[b], Len(args) + 1, Len(c.block[b]) - 1)
      Bound(o) == IF o \in Range(args) THEN vals[PositionOf(args, o)] ELSE s.env[o]
      begun == [s EXCEPT !.env = [o \in DOMAIN @ |-> Bound(o)], !.fuel = @ - 1]
      end == FoldLeft(LAMBDA st, o : Execute(c, o, st), begun, body)
      t == c.op[Last(c.block[b])]
      out == [n \in DOMAIN t.args |-> end.env[t.args[n]]]
  IN IF s.fuel = 0 THEN [run |-> s, vals |-> <<0>>]
     ELSE CASE t.k = "br" -> RunBlock(c, t.succ[1], out, end)
            [] t.k = "cond_br" -> RunBlock(c, t.succ[IF out[1] = 1 THEN 1 ELSE 2], <<>>, end)
            [] OTHER -> [run |-> end, vals |-> out]

RunRegion(c, region, vals, s) == RunBlock(c, region[1], vals, s)

RunFor(c, o, s) ==
  LET regions == c.op[o].regions
      test == RunRegion(c, regions[1], <<>>, s)
      round == RunRegion(c, regions[2], <<>>, test.run)
  IN IF test.run.fuel = 0 \/ test.vals[1] = 0 THEN test.run
     ELSE RunFor(c, o, RunRegion(c, regions[3], <<>>, round.run).run)

Execute(c, o, s) ==
  LET op == c.op[o]
      x == [n \in DOMAIN op.args |-> s.env[op.args[n]]]
      u == [n \in DOMAIN op.args |-> c.op[op.args[n]].ty]
      Result(v) == [s EXCEPT !.env[o] = v]
      After(r) == IF r.vals = <<>> THEN r.run ELSE [r.run EXCEPT !.env[o] = r.vals[1]]
      body == c.block[op.regions[1][1]]
  IN CASE op.k = "variable" -> [Result(<<Len(s.mem) + 1>>) EXCEPT !.mem = Append(@, Zero(op.ty.of))]
       [] op.k = "read" -> Result(Load(x[1], s))
       [] op.k = "assign" -> Store(x[2], x[1], s)
       [] op.k = "read_slice" -> Result(SliceOf(IntType(u[1].of), Load(x[1], s), op.idx[1], op.idx[2]))
       [] op.k = "assign_slice" ->
            Store(x[2], Patched(IntType(u[2].of), Load(x[2], s), op.idx[1], op.idx[2], x[1]), s)
       [] op.k = "scope" -> After(RunRegion(c, op.regions[1], <<>>, s))
       [] op.k = "if" ->
            LET region == op.regions[IF x[1] = 1 THEN 1 ELSE 2]
            IN IF region = <<>> THEN s ELSE After(RunRegion(c, region, <<>>, s))
       [] op.k = "switch" ->
            FoldLeft(LAMBDA st, b : RunRegion(c, c.op[b].regions[1], <<>>, st).run, s,
                     SetToSeq(CaseOf(c, body, x[1])))
       [] op.k = "for" -> RunFor(c, o, s)
       [] op.k = "foreach" ->
            FoldLeft(LAMBDA st, v : RunRegion(c, op.regions[1], <<v>>, st).run, s, x[1])
       [] OTHER -> Result(Computed(op, x, u))

\* The parameters that are references, after a run on values of all of them.
Observed(c, inputs) ==
  LET params == SelectSeq(c.block[c.root[1]], LAMBDA o : c.op[o].k = "arg")
      Given(i) == IF IsRef(c.op[params[i]].ty) THEN <<i>> ELSE inputs[i]
      start == [env |-> [o \in DOMAIN c.op |-> 0], mem |-> inputs, fuel |-> MaxFuel]
      end == RunRegion(c, c.root, [i \in DOMAIN params |-> Given(i)], start).run
      outs == SelectSeq([i \in DOMAIN params |-> i], LAMBDA i : IsRef(c.op[params[i]].ty))
  IN [ends |-> end.fuel > 0,
      vals |-> [n \in DOMAIN outs |-> Visible(c.op[params[outs[n]]].ty.of, end.mem[outs[n]])]]

=============================================================================
