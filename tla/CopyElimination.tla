---------------------------- MODULE CopyElimination ----------------------------
(***************************************************************************)
(* The p4hir-copyin-copyout-elimination pass                               *)
(* (lib/Transforms/CopyInCopyOutElimination.cpp) on the code of a call: a  *)
(* temporary whose only purpose is to be copied to and from one variable   *)
(* is replaced by a reference to that variable, when nothing in between    *)
(* may touch it.  The greedy driver applies the two patterns until neither *)
(* matches; here it takes the temporaries in any order.                    *)
(***************************************************************************)
EXTENDS CallBlocks, Positions

CONSTANTS Calls,   \* the calls to lower
          Params   \* the variables that are reference parameters

ASSUME CallsAssumption == \A c \in Calls : IsP4Call(c)
ASSUME ParamsAssumption == Params \subseteq Variable

VARIABLES src,    \* the call
          code,   \* its code
          phase   \* "rewrite", "done"

vars == <<src, code, phase>>

Init ==
  /\ src \in Calls
  /\ code = Lowered(src)
  /\ phase = "rewrite"

Of(k) == {i \in DOMAIN code : code[i].k = k}

\* The references an operation has as operands, each with its effects.
Effects(op) ==
  CASE op.k = "read" -> {[ref |-> op.ref, does |-> "read"]}
    [] op.k = "assign" -> {[ref |-> op.ref, does |-> "write"]}
    [] op.k = "call" ->
         UNION {{[ref |-> op.args[i].ref, does |-> d] :
                   d \in IF op.args[i].dir = "out" THEN {"write"} ELSE {"read", "write"}} :
                i \in {j \in DOMAIN op.args : op.args[j].dir # "in"}}
    [] OTHER -> {}

Refs(op) == {e.ref : e \in Effects(op)}

Values(op) ==
  CASE op.k = "assign" -> {op.val}
    [] op.k = "call" -> {op.args[i].val : i \in {j \in DOMAIN op.args : op.args[j].dir = "in"}}
    [] OTHER -> {}

\* mlir::LocalAliasAnalysis sees through views to the root, knows two variables
\* apart, and a variable from a parameter, but not two parameters.
MayAlias(r1, r2) == r1.root = r2.root \/ {r1.root, r2.root} \subseteq Params

\* Bug: whatever happens between the operations, and both of them.
NothingThroughout(i, j, ref, kinds) ==
  \A n \in i + 1..j : \A e \in Effects(code[n]) :
    e.does \in kinds => ~MayAlias(e.ref, ref)

\* Bug: an effect on the very same reference is passed over.
NothingElse(i, j, ref, kinds) ==
  \A n \in i + 1..j - 1 : \A e \in Effects(code[n]) :
    e.does \in kinds /\ e.ref # ref => ~MayAlias(e.ref, ref)

\* No operation between i and j has one of these effects on ref.
NoIntervening(i, j, ref, kinds) ==
  \A n \in i + 1..j - 1 : \A e \in Effects(code[n]) :
    e.does \in kinds => ~MayAlias(e.ref, ref)

UsersOf(t) == {i \in DOMAIN code : \E r \in Refs(code[i]) : r.root = t}
UsesOf(v) == {i \in DOMAIN code : v \in Values(code[i])}

InOneBlock(S) == Cardinality({code[i].blk : i \in S}) = 1

\* Bug: a reference is available everywhere.
Anywhere(ref, i) == TRUE

Dominates(ref, i) ==
  /\ ref.def # <<>> => \E j \in 1..i - 1 : code[j].k = "symbol_ref" /\ code[j].res = ref.def
  /\ ref.root \notin Variable => \E j \in Of("variable") : j < i /\ code[j].res = ref.root

\* Bug: the other operands of the operation are not looked at.
OnlyTheAlias(w, t, aliasee, allowed) ==
  \A e \in Effects(code[w]) : e.ref.root = t => e.does \in allowed

\* The operation uses the temporary t only so, and nothing that is aliasee.
OperandsAllow(w, t, aliasee, allowed) ==
  \A e \in Effects(code[w]) :
    IF e.ref.root = t THEN e.does \in allowed ELSE ~MayAlias(aliasee, e.ref)

\* i reads the whole of something, and the only use of that is j.
OnlyUse(i, j) ==
  /\ code[i].k = "read" /\ ~code[i].slice
  /\ UsesOf(code[i].res) = {j}
  /\ InOneBlock({i, j})

\* j assigns the whole of what the read i returned.
Copies(i, j) == OnlyUse(i, j) /\ code[j].k = "assign" /\ ~code[j].slice

\* The operations but for `drop`, in their order.
Kept(drop) == Staying(Len(code), drop)

\* An operation with r for the temporary t.
Subst(t, r, ref) == IF ref.root = t THEN r ELSE ref

RenamedArg(t, r, a) == IF a.dir = "in" THEN a ELSE [a EXCEPT !.ref = Subst(t, r, @)]

Renamed(t, r, op) ==
  CASE op.k \in {"read", "assign"} -> [op EXCEPT !.ref = Subst(t, r, @)]
    [] op.k = "call" -> [op EXCEPT !.args = [i \in DOMAIN @ |-> RenamedArg(t, r, @[i])]]
    [] OTHER -> op

\* The code without the operations `drop`, with r for the temporary t.
Replaced(t, r, drop) ==
  [p \in DOMAIN Kept(drop) |-> Renamed(t, r, code[Kept(drop)[p]])]

\* variable t; w(t); r = read t; assign r, aliasee
\* The matches at the variable v: the reference to use, the operations to drop.
CopyOuts(v) ==
  LET t == code[v].res
      users == UsersOf(t)
      w == Min(users)
      r == Max(users)
      Good(x) ==
        LET aliasee == code[x].ref
        IN /\ Copies(r, x)
           /\ Dominates(aliasee, w)
           /\ OperandsAllow(w, t, aliasee, {"write"})
           /\ NoIntervening(w, x, aliasee, {"read", "write"})
  IN IF Cardinality(users) = 2 /\ InOneBlock({v} \cup users)
     THEN {[aliasee |-> code[x].ref, drop |-> {v, x, r}] : x \in {y \in DOMAIN code : Good(y)}}
     ELSE {}

\* variable t; r0 = read aliasee; assign r0, t; w(t); r = read t; assign r, aliasee
CopyInOuts(v) ==
  LET t == code[v].res
      users == UsersOf(t)
      in == Min(users)
      r == Max(users)
      Good(w, x, r0) ==
        LET aliasee == code[x].ref
        IN /\ Copies(r, x)
           /\ Copies(r0, in) /\ code[in].ref.root = t
           /\ code[r0].ref = aliasee
           /\ OperandsAllow(w, t, aliasee, {"read", "write"})
           /\ NoIntervening(w, x, aliasee, {"read", "write"})
           /\ NoIntervening(r0, w, aliasee, {"write"})
  IN IF Cardinality(users) = 3 /\ InOneBlock({v} \cup users)
     THEN {[aliasee |-> code[m[2]].ref, drop |-> {v, m[2], in, r, m[3]}] :
             m \in {n \in (users \ {in, r}) \X (DOMAIN code) \X (DOMAIN code) :
                      Good(n[1], n[2], n[3])}}
     ELSE {}

Eliminate(v, matches) ==
  /\ phase = "rewrite"
  /\ \E m \in matches : code' = Replaced(code[v].res, m.aliasee, m.drop)
  /\ UNCHANGED <<src, phase>>

CopyOutElimination == \E v \in Of("variable") : Eliminate(v, CopyOuts(v))
CopyInOutElimination == \E v \in Of("variable") : Eliminate(v, CopyInOuts(v))

Finish ==
  /\ phase = "rewrite"
  /\ \A v \in Of("variable") : CopyOuts(v) = {} /\ CopyInOuts(v) = {}
  /\ phase' = "done"
  /\ UNCHANGED <<src, code>>

Finished == phase = "done" /\ UNCHANGED vars

Next == CopyOutElimination \/ CopyInOutElimination \/ Finish \/ Finished

Spec == Init /\ [][Next]_vars

-----------------------------------------------------------------------------
\* The fields of what a reference refers to, and of a value.
TypeOf(r) ==
  IF r.field # "all" THEN {"v"}
  ELSE IF r.root \in Variable THEN Fields[r.root]
  ELSE UNION {code[i].fields : i \in {j \in Of("variable") : code[j].res = r.root}}

\* The operations are well typed: what is assigned has the type of the place.
TypeOK ==
  /\ phase \in {"rewrite", "done"}
  /\ \A i \in DOMAIN code : code[i].k \in {"variable", "symbol_ref", "read", "assign", "call"}
  /\ \A i \in Of("read"), j \in Of("assign") :
       code[i].res = code[j].val => TypeOf(code[i].ref) = TypeOf(code[j].ref)

Cells(r) == IF r.field = "all" THEN Fields[r.root] ELSE {r.field}

\* The program variables end up with what P4 says they do, for every callee
\* considered: the temporaries and their order were there to achieve just that.
CopySemantics ==
  LET start == [x \in Variable |-> [f \in Fields[x] |-> <<x>>]]
  IN Observed(code, start) = CallByCopy(src, start)

\* No callee gets two references to the same storage: "inout / out function
\* parameters never alias" (Passes.td:262) stays true while copies are dropped.
NoAliasedArguments ==
  \A c \in Of("call") : \A i, j \in DOMAIN code[c].args :
    LET a == code[c].args[i]
        b == code[c].args[j]
    IN i # j /\ a.dir # "in" /\ b.dir # "in" =>
         \/ a.ref.root # b.ref.root
         \/ a.ref.root \in Variable /\ Cells(a.ref) \cap Cells(b.ref) = {}

\* Values, symbol references and temporaries are defined before they are used.
DefinedBeforeUse ==
  \A i \in DOMAIN code :
    /\ \A v \in Values(code[i]) : \E j \in 1..i - 1 :
         code[j].k \in {"read", "call"} /\ code[j].res = v
    /\ \A r \in Refs(code[i]) :
         LET before == {code[j].res : j \in {n \in 1..i - 1 : code[n].k \in {"variable", "symbol_ref"}}}
         IN (r.def = <<>> \/ r.def \in before) /\ (r.root \in Variable \/ r.root \in before)

\* The arguments of the call, those of a call inside it in its place.
Arguments ==
  FlattenSeq([i \in DOMAIN src.args |->
                IF IsCall(src.args[i]) THEN src.args[i].inner.args ELSE <<src.args[i]>>])

\* The pass is as good as its tests want (test/Transforms/Dealias): out and inout
\* arguments that cannot overlap, not named by symbols, all lose their copies.
DisjointArgumentsDirect ==
  LET outs == {i \in DOMAIN Arguments : HasOut(Arguments[i])}
      Direct(a) == ~a.slice /\ a.ref.root \notin src.sym
  IN /\ phase = "done"
     /\ \A i \in outs : Direct(Arguments[i])
     /\ \A i, j \in outs : i # j => ~MayAlias(Arguments[i].ref, Arguments[j].ref)
     => Of("variable") = {}

=============================================================================
