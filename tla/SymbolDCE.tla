------------------------------ MODULE SymbolDCE ------------------------------
(***************************************************************************)
(* The p4hir-symbol-dce pass (lib/Transforms/SymbolDCE.cpp): a mark phase  *)
(* that computes the live symbols, one worklist per symbol table and one   *)
(* recursive call per nested symbol table, and a sweep phase that walks    *)
(* the symbol tables bottom up and erases the symbols nobody marked.       *)
(*                                                                         *)
(* A program is a tree of operations.  Every operation that sits directly  *)
(* in a symbol table has an entry of its own; the operations nested in the *)
(* regions of such an entry matter to the pass only through the symbol     *)
(* references they hold, and SymbolTable::getSymbolUses (MLIR) returns     *)
(* those with the references of the entry.  So `uses` of an entry stands   *)
(* for its own references and those nested in it, short of nested symbol   *)
(* tables.                                                                 *)
(*                                                                         *)
(* The order in which a worklist is emptied is left open (the code pops    *)
(* the youngest element); no property may depend on it.                    *)
(***************************************************************************)
EXTENDS SymbolTables, Sequences, Naturals

CONSTANT Programs   \* the programs the pass may be given

ASSUME ProgramsAssumption == \A p \in Programs : IsProgram(p)

-----------------------------------------------------------------------------
VARIABLES prog,    \* the program, as the pass finds it
          phase,   \* "start", "mark", "sweep", "done"
          live,    \* liveSymbols
          stack,   \* the active calls of computeLiveness, innermost last
          erased,  \* the operations passed to erase()
          swept    \* the tables the sweep has visited

vars == <<prog, phase, live, stack, erased, swept>>

\* A call of computeLiveness: its arguments symbolTableOp and
\* symbolTableIsHidden, and its local worklist.
Frame == [table : Op, hidden : BOOLEAN, worklist : SUBSET Op]

\* Bug: taken for visible when it is hidden.
WhenVisible(o, hide) == ~hide /\ CanDiscardOnUseEmpty(prog, o)

IsDiscardable(o, hide) ==
  (hide \/ IsPrivate(prog, o)) /\ CanDiscardOnUseEmpty(prog, o)

Undiscardable(t, hide) ==
  {o \in Children(prog, t) : IsSymbol(prog, o) /\ ~IsDiscardable(o, hide)}

NonSymbols(t) == {o \in Children(prog, t) : ~IsSymbol(prog, o)}

\* How a call starts: what is no symbol, and what must stay whoever uses it.
Call(t, hide) ==
  [table |-> t, hidden |-> hide,
   worklist |-> NonSymbols(t) \cup (Undiscardable(t, hide) \ live)]

Init ==
  /\ prog \in Programs
  /\ phase = "start"
  /\ live = {} /\ erased = {} /\ swept = {}
  /\ stack = <<>>

\* runOnOperation: computeLiveness of the module, whose symbols nobody outside
\* can see.
Start ==
  /\ phase = "start"
  /\ phase' = "mark"
  /\ stack' = <<Call(Module, TRUE)>>
  /\ live' = live \cup Undiscardable(Module, TRUE)
  /\ UNCHANGED <<prog, erased, swept>>

Top == stack[Len(stack)]

Popped(o) == phase = "mark" /\ o \in Top.worklist

\* A symbol table: recurse before looking at its own uses.
EnterTable(o) ==
  /\ Popped(o)
  /\ IsTable(prog, o)
  /\ LET hide == Top.hidden \/ ~IsSymbol(prog, o) \/ IsPrivate(prog, o)
     IN /\ live' = live \cup Undiscardable(o, hide)
        /\ stack' = Append([stack EXCEPT ![Len(stack)].worklist = @ \ {o}],
                           Call(o, hide))
  /\ UNCHANGED <<prog, phase, erased, swept>>

\* Bug: of a nested reference, only the symbol at the top is marked.
MarkedRoots(o) == {s \in UsedBy(prog, o) : prog.parent[s] = Module}

\* Uses count only for the entries of a symbol table.
MarkedBy(o) == IF IsTable(prog, prog.parent[o]) THEN UsedBy(prog, o) ELSE {}

\* Bug: a symbol that is live already is queued again.
VisitAgain(o) ==
  /\ Popped(o)
  /\ ~IsTable(prog, o)
  /\ live' = live \cup MarkedBy(o)
  /\ stack' = [stack EXCEPT ![Len(stack)].worklist =
                 (@ \ {o}) \cup Children(prog, o) \cup MarkedBy(o)]
  /\ UNCHANGED <<prog, phase, erased, swept>>

\* Bug: what is visited stays on the worklist.
VisitForEver(o) ==
  /\ Popped(o)
  /\ ~IsTable(prog, o)
  /\ live' = live \cup MarkedBy(o)
  /\ stack' = [stack EXCEPT ![Len(stack)].worklist =
                 @ \cup Children(prog, o) \cup (MarkedBy(o) \ live)]
  /\ UNCHANGED <<prog, phase, erased, swept>>

\* Any other operation: queue the operations with regions nested in it, then
\* mark the symbols its uses resolve to.
VisitOp(o) ==
  /\ Popped(o)
  /\ ~IsTable(prog, o)
  /\ live' = live \cup MarkedBy(o)
  /\ stack' = [stack EXCEPT ![Len(stack)].worklist =
                 (@ \ {o}) \cup Children(prog, o) \cup (MarkedBy(o) \ live)]
  /\ UNCHANGED <<prog, phase, erased, swept>>

\* A recursive call is over: back in its caller, mark the uses of the table.
ReturnFromTable ==
  /\ phase = "mark"
  /\ Top.worklist = {}
  /\ Len(stack) > 1
  /\ LET o == Top.table
         n == Len(stack) - 1
     IN /\ live' = live \cup MarkedBy(o)
        /\ stack' = [SubSeq(stack, 1, n) EXCEPT ![n].worklist =
                       @ \cup (MarkedBy(o) \ live)]
  /\ UNCHANGED <<prog, phase, erased, swept>>

FinishMarking ==
  /\ phase = "mark"
  /\ Top.worklist = {}
  /\ Len(stack) = 1
  /\ phase' = "sweep"
  /\ stack' = <<>>
  /\ UNCHANGED <<prog, live, erased, swept>>

\* erase() takes the operations nested in its operand along.
Gone(o) == (prog.anc[o] \cup {o}) \cap erased # {}

DeadIn(t) ==
  {o \in Children(prog, t) : IsSymbol(prog, o) /\ o \notin live /\ ~Gone(o)}

\* The walk visits a table after the tables nested in it, erases its dead
\* symbols, and the table itself when that leaves it empty and it is dead.
SweepTable(t) ==
  /\ phase = "sweep"
  /\ IsTable(prog, t) /\ t \notin swept /\ ~Gone(t)
  /\ \A n \in Op : IsTable(prog, n) /\ t \in prog.anc[n] /\ ~Gone(n) => n \in swept
  /\ LET empty == \A o \in Children(prog, t) : Gone(o) \/ o \in DeadIn(t)
         self == IF empty /\ IsSymbol(prog, t) /\ t \notin live THEN {t} ELSE {}
     IN erased' = erased \cup DeadIn(t) \cup self
  /\ swept' = swept \cup {t}
  /\ phase' = IF t = Module THEN "done" ELSE phase
  /\ UNCHANGED <<prog, live, stack>>

Finished == phase = "done" /\ UNCHANGED vars

Next ==
  \/ Start
  \/ \E o \in Op : EnterTable(o)
  \/ \E o \in Op : VisitOp(o)
  \/ ReturnFromTable
  \/ FinishMarking
  \/ \E t \in Op : SweepTable(t)
  \/ Finished

\* The pass is one sequential call: it takes its next step whenever it has one.
Spec == Init /\ [][Next]_vars /\ WF_vars(Next)

-----------------------------------------------------------------------------
\* Every variable holds what the code's variable of that name can hold.
TypeOK ==
  /\ prog \in Programs
  /\ phase \in {"start", "mark", "sweep", "done"}
  /\ live \in SUBSET Op
  /\ stack \in Seq(Frame)
  /\ erased \in SUBSET Op
  /\ swept \in SUBSET Op

\* No use is left without its symbols: once the pass is done, every symbol a
\* surviving operation refers to, in the scope the pass looks the name up in,
\* survives with everything that encloses it.
UsesSurvive ==
  phase = "done" =>
    \A o \in Op : ~Gone(o) => \A s \in UsedBy(prog, o) : ~Gone(s)

\* The same for the scope every verifySymbolUses of P4HIR looks names up in,
\* the parent module: the program still verifies after the pass.
VerifierUsesSurvive ==
  phase = "done" =>
    \A o \in Op : ~Gone(o) =>
      \A ref \in prog.uses[o] :
        ResolvesIn(prog, Module, ref) =>
          \A s \in PathIn(prog, Module, ref) : ~Gone(s)

\* That holds of every program in which no entry of a symbol table hides a name
\* that resolves at the top of the module.
Unshadowed(p) ==
  \A o \in Op : \A ref \in p.uses[o] :
    ResolvesIn(p, Module, ref) =>
      p.parent[o] = Module \/ ~ResolvesIn(p, p.parent[o], ref)

UnshadowedUsesSurvive == Unshadowed(prog) => VerifierUsesSurvive

\* A marked symbol is never lost with a dead enclosing table: a live symbol
\* never has an erased ancestor, at any moment of the sweep.
LiveNeverGone == \A s \in live : ~Gone(s)

\* However the references of the tables go in circles, computeLiveness is never
\* active twice for one table.
NoReentry ==
  \A i, j \in DOMAIN stack : stack[i].table = stack[j].table => i = j

\* The pass does what dead symbol elimination promises: nothing needed is lost,
\* and nothing that could go is kept.
Abstract == INSTANCE DeadSymbols WITH
  gone <- {o \in Op : phase = "done" /\ Gone(o)},
  done <- (phase = "done")

Eliminates == Abstract!Spec

\* The pass always finishes: marking cannot chase references for ever and the
\* sweep cannot wait on a table that is gone.
Terminates == <>(phase = "done")

=============================================================================
