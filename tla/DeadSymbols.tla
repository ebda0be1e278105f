----------------------------- MODULE DeadSymbols -----------------------------
(***************************************************************************)
(* What dead symbol elimination promises, in one step: of a program, keep  *)
(* exactly the operations that are needed, no fewer and no more.           *)
(***************************************************************************)
EXTENDS SymbolTables

CONSTANT Programs

VARIABLES prog,  \* the program, as the pass finds it
          gone,  \* the operations taken out of it
          done

vars == <<prog, gone, done>>

\* Needed whenever the table it sits in is.
Rooted(p, o) == ~IsSymbol(p, o) \/ ~CanDiscardOnUseEmpty(p, o)

\* K holds the module and, with an operation, everything that one needs: what
\* its references resolve to, the rooted entries of a symbol table, and all
\* that is nested in any other operation.
IsClosed(p, K) ==
  /\ Module \in K
  /\ \A o \in K : /\ UsedBy(p, o) \subseteq K
                 /\ \A c \in Children(p, o) :
                      ~IsTable(p, o) \/ Rooted(p, c) => c \in K

\* The least closed set.
Needed(p) ==
  LET Closed == {K \in SUBSET Op : IsClosed(p, K)}
  IN {o \in Op : \A K \in Closed : o \in K}

Init == prog \in Programs /\ gone = {} /\ done = FALSE

Eliminate ==
  /\ ~done
  /\ done' = TRUE
  /\ gone' = Op \ Needed(prog)
  /\ UNCHANGED prog

Next == Eliminate

Spec == Init /\ [][Next]_vars

=============================================================================
