------------------------------ MODULE CallBlocks ------------------------------
(***************************************************************************)
(* The code of one call statement: how lib/P4C/translate.cpp lowers a P4   *)
(* call, with a temporary for every out and inout argument, what that code *)
(* does, and what the P4 language says the call does.                      *)
(*                                                                         *)
(* A P4 call is [callee, args, sym]; an argument is [dir, ref, slice] and, *)
(* for one that is a call itself, [dir, inner].  `sym` are the control *)
(* locals an action has to name by a symbol.  The body of a callee is a    *)
(* sequence of assignments [dst, src] between its parameters (1, 2, ...),  *)
(* variables it captures, and a constant (0).                              *)
(*                                                                         *)
(* What a variable holds is a function on its fields, "v" if it has none;  *)
(* the value assigned by a body is a term that tells where it comes from.  *)
(***************************************************************************)
EXTENDS Integers, Sequences, FiniteSets, FiniteSetsExt, SequencesExt, TLC

CONSTANTS Fields   \* program variable -> its fields

Variable == DOMAIN Fields

\* A reference value: a variable, or a field of one.  A symbol_ref is a new
\* value each time; other references are resolved once and `def` is <<>>.
Ref(root, field) == [root |-> root, field |-> field, def |-> <<>>]
Whole(root) == Ref(root, "all")

Hole == <<>>                               \* an uninitialized cell
Blank(fields) == [f \in fields |-> Hole]

Load(mem, r) == IF r.field = "all" THEN mem[r.root] ELSE [v |-> mem[r.root][r.field]]
Store(mem, r, x) == IF r.field = "all" THEN [mem EXCEPT ![r.root] = x]
                    ELSE [mem EXCEPT ![r.root][r.field] = x.v]

Shape(r) == IF r.field = "all" THEN Fields[r.root] ELSE {"v"}

HasOut(a) == a.dir \in {"out", "inout"}
IsCall(a) == "inner" \in DOMAIN a

Const == 0

\* A call: an argument is a program variable or a field of one or, for one of
\* them at most and that passed in, a call that has only such arguments.
IsReference(r) == \E x \in Variable : \E f \in {"all"} \cup Fields[x] : r = Ref(x, f)

IsPlain(a) ==
  ~IsCall(a) /\ a.dir \in {"in", "out", "inout"} /\ IsReference(a.ref) /\ a.slice \in BOOLEAN

IsP4Call(c) ==
  /\ c.args \in Seq(ToSet(c.args))
  /\ \A i \in DOMAIN c.args :
       \/ IsPlain(c.args[i])
       \/ /\ IsCall(c.args[i]) /\ c.args[i].dir = "in"
          /\ LET d == c.args[i].inner
             IN d.args \in Seq(ToSet(d.args)) /\ \A j \in DOMAIN d.args : IsPlain(d.args[j])
  /\ \A i, j \in DOMAIN c.args : IsCall(c.args[i]) /\ IsCall(c.args[j]) => i = j

\* What step n of a body leaves in a destination that held `old`.
Assigned(n, old, from) == [f \in DOMAIN old |-> <<n, f, from>>]

-----------------------------------------------------------------------------
(* What P4 says: arguments are evaluated left to right, the callee works on *)
(* copies of its own, and the copies are written back left to right.        *)

Bound(mem, a) == IF a.dir = "out" THEN Blank(Shape(a.ref)) ELSE Load(mem, a.ref)

OnCopies(callee, copies, mem) ==
  LET Value(s, o) == IF o = Const THEN [v |-> Hole]
                     ELSE IF o \in DOMAIN copies THEN s.par[o] ELSE s.mem[o]
      Step(s, n) ==
        LET b == callee[n]
            x == Assigned(n, Value(s, b.dst), Value(s, b.src))
        IN IF b.dst \in DOMAIN copies THEN [s EXCEPT !.par[b.dst] = x]
           ELSE [s EXCEPT !.mem[b.dst] = x]
  IN FoldLeft(Step, [par |-> copies, mem |-> mem], [n \in DOMAIN callee |-> n])

\* `first` are the values of the arguments.
Applied(c, copies, mem) ==
  LET s == OnCopies(c.callee, copies, mem)
      Back(m, i) == IF HasOut(c.args[i]) THEN Store(m, c.args[i].ref, s.par[i]) ELSE m
  IN [mem |-> FoldLeft(Back, s.mem, [i \in DOMAIN c.args |-> i]), ret |-> s.par[1]]

Plain(c, mem) == Applied(c, [i \in DOMAIN c.args |-> Bound(mem, c.args[i])], mem)

CallByCopy(c, mem) ==
  LET inner == {i \in DOMAIN c.args : IsCall(c.args[i])}
  IN IF inner = {} THEN Plain(c, mem).mem
     ELSE LET j == CHOOSE i \in inner : TRUE
              in == Plain(c.args[j].inner, mem)
          IN Applied(c, [i \in DOMAIN c.args |->
                           IF i = j THEN in.ret
                           ELSE Bound(IF i < j THEN mem ELSE in.mem, c.args[i])],
                     in.mem).mem

-----------------------------------------------------------------------------
(* The operations of the lowered code, in their order.  `blk` is the block  *)
(* they are in: that of the call, or of the scope of the call inside it.    *)

VariableOp(t, fields, blk) == [k |-> "variable", res |-> t, fields |-> fields, blk |-> blk]
SymRefOp(r, blk) == [k |-> "symbol_ref", res |-> r.def, blk |-> blk]
ReadOp(r, v, slice, blk) == [k |-> "read", ref |-> r, res |-> v, slice |-> slice, blk |-> blk]
AssignOp(v, r, slice, blk) == [k |-> "assign", ref |-> r, val |-> v, slice |-> slice, blk |-> blk]

Temp(k, i) == <<k, i, "temp">>    \* the temporary of argument i of call k
InVal(k, i) == <<k, i, "in">>
OutVal(k, i) == <<k, i, "out">>
Result(k) == <<k, 0, "result">>

Temporary == Nat \X Nat \X {"temp"}

\* The names of the temporaries are new.
ASSUME VariablesAssumption == Variable \cap Temporary = {}

\* A control local named in an action is a new symbol_ref at every use, but a
\* field of it is resolved only once.
Resolved(c, a, k, i, when) ==
  IF a.ref.root \in c.sym /\ a.ref.field = "all"
  THEN [a.ref EXCEPT !.def = <<k, i, when>>] ELSE a.ref

Resolution(r, k) == IF r.def = <<>> THEN <<>> ELSE <<SymRefOp(r, k)>>

\* Bug: a temporary for a field is as large as the variable.
LargeCopyIn(c, k, i) ==
  LET a == c.args[i]
      r == Resolved(c, a, k, i, "in")
  IN Resolution(r, k) \o
     (IF HasOut(a) THEN <<VariableOp(Temp(k, i), Fields[a.ref.root], k)>> ELSE <<>>) \o
     (IF a.dir = "out" THEN <<>> ELSE <<ReadOp(r, InVal(k, i), a.slice, k)>>) \o
     (IF a.dir = "inout"
      THEN <<AssignOp(InVal(k, i), Whole(Temp(k, i)), FALSE, k)>> ELSE <<>>)

\* An argument that is no call, before the call.
CopyIn(c, k, i) ==
  LET a == c.args[i]
      r == Resolved(c, a, k, i, "in")
  IN Resolution(r, k) \o
     (IF HasOut(a) THEN <<VariableOp(Temp(k, i), Shape(a.ref), k)>> ELSE <<>>) \o
     (IF a.dir = "out" THEN <<>> ELSE <<ReadOp(r, InVal(k, i), a.slice, k)>>) \o
     (IF a.dir = "inout"
      THEN <<AssignOp(InVal(k, i), Whole(Temp(k, i)), FALSE, k)>> ELSE <<>>)

\* An out or inout argument, after the call.
CopyBack(c, k, i) ==
  LET a == c.args[i]
      r == Resolved(c, a, k, i, "out")
  IN IF HasOut(a)
     THEN Resolution(r, k) \o
          <<ReadOp(Whole(Temp(k, i)), OutVal(k, i), FALSE, k),
            AssignOp(OutVal(k, i), r, a.slice, k)>>
     ELSE <<>>

CallOp(c, k) ==
  [k |-> "call", callee |-> c.callee, res |-> Result(k), blk |-> k,
   args |-> [i \in DOMAIN c.args |->
               LET a == c.args[i]
               IN IF HasOut(a) THEN [dir |-> a.dir, ref |-> Whole(Temp(k, i))]
                  ELSE [dir |-> "in", val |-> IF IsCall(a) THEN Result(k + 1) ELSE InVal(k, i)]]]

\* `in` is the code of the argument that is a call.
CallCode(c, k, in) ==
  FlattenSeq([i \in DOMAIN c.args |-> IF IsCall(c.args[i]) THEN in ELSE CopyIn(c, k, i)])
    \o <<CallOp(c, k)>>
    \o FlattenSeq([i \in DOMAIN c.args |-> CopyBack(c, k, i)])

Lowered(c) ==
  LET inner == {i \in DOMAIN c.args : IsCall(c.args[i])}
  IN CallCode(c, 1, IF inner = {} THEN <<>>
                    ELSE CallCode(c.args[CHOOSE i \in inner : TRUE].inner, 2, <<>>))

-----------------------------------------------------------------------------
(* What the code does: a callee works on what its references refer to.      *)

OnReferences(op, st) ==
  LET Value(s, o) ==
        IF o = Const THEN [v |-> Hole]
        ELSE IF o \notin DOMAIN op.args THEN s.mem[o]
        ELSE IF op.args[o].dir = "in" THEN s.env[op.args[o].val] ELSE Load(s.mem, op.args[o].ref)
      Step(s, n) ==
        LET b == op.callee[n]
            x == Assigned(n, Value(s, b.dst), Value(s, b.src))
        IN IF b.dst \notin DOMAIN op.args THEN [s EXCEPT !.mem[b.dst] = x]
           ELSE IF op.args[b.dst].dir = "in" THEN [s EXCEPT !.env[op.args[b.dst].val] = x]
           ELSE [s EXCEPT !.mem = Store(@, op.args[b.dst].ref, x)]
      end == FoldLeft(Step, st, [n \in DOMAIN op.callee |-> n])
  IN [end EXCEPT !.env = (op.res :> Value(end, 1)) @@ @]

Step(st, op) ==
  CASE op.k = "variable" -> [st EXCEPT !.mem = (op.res :> Blank(op.fields)) @@ @]
    [] op.k = "symbol_ref" -> st
    [] op.k = "read" -> [st EXCEPT !.env = (op.res :> Load(st.mem, op.ref)) @@ @]
    [] op.k = "assign" -> [st EXCEPT !.mem = Store(@, op.ref, st.env[op.val])]
    [] op.k = "call" -> OnReferences(op, st)

\* The program variables, after the code ran on `mem`.
Observed(code, mem) ==
  LET end == FoldLeft(Step, [mem |-> mem, env |-> <<>>], code).mem
  IN [x \in Variable |-> end[x]]

=============================================================================
