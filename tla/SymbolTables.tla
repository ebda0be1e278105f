---------------------------- MODULE SymbolTables ----------------------------
(***************************************************************************)
(* Operations, symbol tables and symbol references of a P4HIR program, and *)
(* how a reference is resolved: what the symbol passes and the verifiers   *)
(* share.  Symbols, tables and visibility come from the operation          *)
(* definitions of the P4HIR dialect (include/p4mlir/Dialect/P4HIR/*.td);   *)
(* the lookup itself is MLIR's.                                            *)
(***************************************************************************)
EXTENDS FiniteSets

CONSTANTS Op,        \* operations
          Name,      \* symbol names
          Module,    \* the builtin.module at the top
          None       \* no operation, no name

\* The kinds of operation that differ for a symbol walk.  "control" stands for
\* parsers too, "func" for everything that is a public symbol and no symbol
\* table (functions with a body, actions, tables, parser states, packages,
\* instances), "apply" for what is not a symbol, "region" for an operation
\* with regions nested in an entry of a symbol table.
Kind == {"module", "extern", "overload_set", "control", "func_decl", "func",
         "control_local", "apply", "region"}

Ref == [root : Name, leaf : Name \cup {None}]

IsTable(p, o) == p.kind[o] \in {"module", "extern", "overload_set", "control"}

IsSymbol(p, o) == p.kind[o] \notin {"module", "apply", "region"}

\* isPrivate(): externs and control locals say so themselves, and a function
\* without a body is given the private visibility when it is built.
IsPrivate(p, o) == p.kind[o] \in {"extern", "control_local", "func_decl"}

\* canDiscardOnUseEmpty(): always for externs and control locals; for a
\* function only if it has no body and is no member of an overload set.
CanDiscardOnUseEmpty(p, o) ==
  \/ p.kind[o] \in {"extern", "control_local"}
  \/ /\ p.kind[o] = "func_decl"
     /\ \A a \in p.anc[o] : p.kind[a] # "overload_set"

Children(p, t) == {o \in Op : p.parent[o] = t}

(***************************************************************************)
(* Well-formed programs: `anc` is the ancestor relation of `parent`, which *)
(* is a tree of finite depth, only symbol tables hold symbols and symbol   *)
(* tables, the symbols of a table have distinct names, and references are  *)
(* held by the entries of tables.                                          *)
(***************************************************************************)
IsProgram(p) ==
  /\ p.kind \in [Op -> Kind]
  /\ p.parent \in [Op -> Op \cup {None}]
  /\ p.anc \in [Op -> SUBSET Op]
  /\ \A o \in Op : IsFiniteSet(p.anc[o])
  /\ p.name \in [Op -> Name]
  /\ p.uses \in [Op -> SUBSET Ref]
  /\ \A o \in Op : (p.kind[o] = "module") <=> (o = Module)
  /\ \A o \in Op : (p.parent[o] = None) <=> (o = Module)
  /\ p.anc[Module] = {}
  /\ \A o \in Op \ {Module} : /\ p.anc[o] = {p.parent[o]} \cup p.anc[p.parent[o]]
                              /\ o \notin p.anc[o]
                              /\ Module \in p.anc[o]
  /\ \A o \in Op \ {Module} :
       IsSymbol(p, o) \/ IsTable(p, o) => IsTable(p, p.parent[o])
  /\ \A o, q \in Op \ {Module} :
       IsSymbol(p, o) /\ IsSymbol(p, q) /\ p.parent[o] = p.parent[q]
         /\ p.name[o] = p.name[q] => o = q
  /\ \A o \in Op : p.uses[o] # {} => o # Module /\ IsTable(p, p.parent[o])

ASSUME OpAssumption == Module \in Op /\ None \notin Op /\ None \notin Name
-----------------------------------------------------------------------------
(* SymbolTableCollection::lookupSymbolIn(t, ref, symbols)                   *)

RootIn(p, t, ref) ==
  {s \in Children(p, t) : IsSymbol(p, s) /\ p.name[s] = ref.root}

LeafIn(p, t, ref) ==
  {s \in Op : /\ p.parent[s] \in RootIn(p, t, ref)
              /\ IsTable(p, p.parent[s])
              /\ IsSymbol(p, s) /\ p.name[s] = ref.leaf}

ResolvesIn(p, t, ref) ==
  /\ RootIn(p, t, ref) # {}
  /\ ref.leaf # None => LeafIn(p, t, ref) # {}

\* Bug: only the symbol at the end of the path.
LeafOnly(p, t, ref) ==
  IF ref.leaf = None THEN RootIn(p, t, ref) ELSE LeafIn(p, t, ref)

PathIn(p, t, ref) ==
  RootIn(p, t, ref) \cup (IF ref.leaf = None THEN {} ELSE LeafIn(p, t, ref))

\* Bug: a lookup that fails yields a null operation, and it is used.
Unchecked(p, o, ref) ==
  IF ResolvesIn(p, p.parent[o], ref) THEN PathIn(p, p.parent[o], ref)
  ELSE IF ResolvesIn(p, Module, ref) THEN PathIn(p, Module, ref)
  ELSE {None}

\* Bug: the top of the module is not tried.
InParentOnly(p, o, ref) ==
  IF ResolvesIn(p, p.parent[o], ref) THEN PathIn(p, p.parent[o], ref) ELSE {}

\* The symbols a use of `ref` by `o` keeps alive.  The table `o` sits in is
\* tried first; what a failed lookup there found on its way stays in the list.
Resolved(p, o, ref) ==
  IF ResolvesIn(p, p.parent[o], ref) THEN PathIn(p, p.parent[o], ref)
  ELSE IF ResolvesIn(p, Module, ref)
       THEN RootIn(p, p.parent[o], ref) \cup PathIn(p, Module, ref)
       ELSE {}

UsedBy(p, o) == UNION {Resolved(p, o, ref) : ref \in p.uses[o]}

=============================================================================
