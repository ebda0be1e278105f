----------------------------- MODULE MCSymbolDCE -----------------------------
(***************************************************************************)
(* A module with an extern X (a method and an overload set), an extern     *)
(* function F and a control C with a local, an action and an apply body    *)
(* that nests an `if`.  The programs differ in what the action and the     *)
(* apply body refer to and in the name of the action.                      *)
(***************************************************************************)
EXTENDS SymbolDCE, Integers, FiniteSets, TLC

CONSTANTS m, X, meth, ovl, ovl1, F, C, loc, act, app, nest

MCOp == {m, X, meth, ovl, ovl1, F, C, loc, act, app, nest}

MCName == {"X", "meth", "ovl", "ovl1", "F", "C", "loc", "act", "other"}

Parents == (m :> None) @@ (X :> m) @@ (meth :> X) @@ (ovl :> X) @@ (ovl1 :> ovl)
             @@ (F :> m) @@ (C :> m) @@ (loc :> C) @@ (act :> C) @@ (app :> C)
             @@ (nest :> app)

Kinds == (m :> "module") @@ (X :> "extern") @@ (meth :> "func_decl")
           @@ (ovl :> "overload_set") @@ (ovl1 :> "func_decl")
           @@ (F :> "func_decl") @@ (C :> "control") @@ (loc :> "control_local")
           @@ (act :> "func") @@ (app :> "apply") @@ (nest :> "region")

Ancestors ==
  LET Up(o) == IF o = None THEN {} ELSE {o}
      Anc[n \in 0..4] ==
        IF n = 0 THEN [o \in MCOp |-> Up(Parents[o])]
        ELSE [o \in MCOp |-> Anc[n - 1][o]
                               \cup UNION {Up(Parents[a]) : a \in Anc[n - 1][o]}]
  IN Anc[4]

Names(actName) ==
  (m :> "other") @@ (X :> "X") @@ (meth :> "meth") @@ (ovl :> "ovl")
    @@ (ovl1 :> "ovl1") @@ (F :> "F") @@ (C :> "C") @@ (loc :> "loc")
    @@ (act :> actName) @@ (app :> "other") @@ (nest :> "other")

Flat(n) == [root |-> n, leaf |-> None]
Nested(r, l) == [root |-> r, leaf |-> l]

\* What the code of a control refers to; `X::act` resolves nowhere.
Refs == {Flat("F"), Nested("X", "meth"), Nested("X", "ovl"), Nested("C", "loc"),
         Nested("X", "act")}

FewRefs(n) == {R \in SUBSET Refs : Cardinality(R) <= n}

ProgramWith(actName, usesOfAct, usesOfApp) ==
  [parent |-> Parents, kind |-> Kinds, anc |-> Ancestors, name |-> Names(actName),
   uses |-> [o \in MCOp |-> IF o = act THEN usesOfAct
                            ELSE IF o = app THEN usesOfApp ELSE {}]]

\* The action may have the name of the extern function, and hide it.
MCPrograms == {ProgramWith(n, R, S) : n \in {"F", "act"},
                                      R \in FewRefs(2), S \in FewRefs(1)}

=============================================================================
