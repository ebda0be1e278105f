------------------------------- MODULE CompileCode -------------------------------
(***************************************************************************)
(* The body of a P4 function on its way through the compiler: it is        *)
(* translated statement by statement, and then goes through passes: the    *)
(* canonicalizer, which rewrites one operation at a time, in any order,    *)
(* the passes that remove a kind of type, and FlattenCFG.                  *)
(***************************************************************************)
EXTENDS TranslateCode, HirPatterns, HirVerify, LowerTypes, FlattenCFG

CONSTANTS
  Programs,     \* the source programs: a sequence
  Pipelines,    \* sequences of passes
  MaxFuel,      \* blocks a run of a body may enter
  MaxRounds     \* rounds of a loop in a run of a program

Run == INSTANCE HirRuns
Source == INSTANCE P4Semantics

TypePasses == {"enum", "ser_enum", "alias", "tuple"}
Passes == TypePasses \cup {"canonicalize", "flatten"}

ASSUME PipelinesAssumption == \A p \in Pipelines : Range(p) \subseteq Passes

VARIABLES
  prog,       \* the program: an index of Programs
  builder,    \* the converter, while it runs
  next,       \* the statement it converts next
  code,       \* the P4HIR body
  todo,       \* the passes that are left
  phase,      \* "translate", "passes" or "done"
  crashed     \* an assertion of the compiler failed

vars == <<prog, builder, next, code, todo, phase, crashed>>

Body == Programs[prog].body
NoCode == [op |-> <<>>, block |-> <<>>, root |-> <<>>]
NoBuilder == [Entered(<<>>) EXCEPT !.c = NoCode]

Init ==
  /\ prog \in DOMAIN Programs
  /\ builder = Entered(Programs[prog].params)
  /\ next = 1
  /\ code = NoCode
  /\ todo \in Pipelines
  /\ phase = "translate"
  /\ crashed = FALSE

-----------------------------------------------------------------------------
(* Translation                                                              *)

ConvertStatement ==
  /\ phase = "translate"
  /\ next <= Len(Body)
  /\ builder' = Visit(builder, Body[next])
  /\ next' = next + 1
  /\ crashed' = (crashed \/ ~builder'.ok)
  /\ UNCHANGED <<prog, code, todo, phase>>

\* The passes start, the first of them on code as the canonicalizer takes it.
Prepared(c, passes) == IF passes # <<>> /\ Head(passes) = "canonicalize" THEN Tidied(c) ELSE c

FinishTranslation ==
  /\ phase = "translate"
  /\ next = Len(Body) + 1
  /\ code' = Prepared(Renumbered(Returned(builder).c), todo)
  /\ phase' = "passes"
  /\ builder' = NoBuilder
  /\ UNCHANGED <<prog, next, todo, crashed>>

-----------------------------------------------------------------------------
(* Passes                                                                   *)

Running(pass) == phase = "passes" /\ todo # <<>> /\ Head(todo) = pass

\* The pass is over, and c is what it made.
Finished(c) ==
  /\ code' = Prepared(c, Tail(todo))
  /\ todo' = Tail(todo)

Canonicalize(o) ==
  /\ Running("canonicalize")
  /\ crashed' = (crashed \/ FoldAsserts(code, o))
  /\ \E c \in Rewrites(code, o) : code' = Tidied(c)
  /\ UNCHANGED <<prog, builder, next, todo, phase>>

FinishCanonicalize ==
  /\ Running("canonicalize")
  /\ \A o \in OpsIn(code) : Rewrites(code, o) = {}
  /\ Finished(code)
  /\ UNCHANGED <<prog, builder, next, phase, crashed>>

ConvertTypes(kind) ==
  /\ Running(kind)
  /\ crashed' = (crashed \/ ConvertAsserts(kind, code))
  /\ Finished(ConvertCode(kind, code))
  /\ UNCHANGED <<prog, builder, next, phase>>

Flatten(o) ==
  /\ Running("flatten")
  /\ o \in ToFlatten(code)
  /\ code' = Flattened(code, o)
  /\ UNCHANGED <<prog, builder, next, todo, phase, crashed>>

FinishFlatten ==
  /\ Running("flatten")
  /\ ToFlatten(code) = {}
  /\ Finished(code)
  /\ UNCHANGED <<prog, builder, next, phase, crashed>>

Complete ==
  /\ phase = "passes" /\ todo = <<>>
  /\ phase' = "done"
  /\ UNCHANGED <<prog, builder, next, code, todo, crashed>>

Next ==
  \/ ConvertStatement \/ FinishTranslation
  \/ \E o \in OpsIn(code) : Canonicalize(o) \/ Flatten(o)
  \/ FinishCanonicalize \/ FinishFlatten
  \/ \E kind \in TypePasses : ConvertTypes(kind)
  \/ Complete

\* The compiler is one thread that never waits.
KeepsRunning == []<><<Next>>_vars \/ <>[](phase = "done")
Spec == Init /\ [][Next]_vars /\ KeepsRunning

-----------------------------------------------------------------------------
(* Properties                                                               *)

\* Operations, blocks and operands are where the tables of the code say they
\* are: every operation is in one block, and no operand or successor dangles.
TypeOK ==
  /\ prog \in DOMAIN Programs /\ next \in 1..(Len(Body) + 1) /\ Range(todo) \subseteq Passes
  /\ phase \in {"translate", "passes", "done"} /\ crashed \in BOOLEAN
  /\ \A o \in DOMAIN code.op : Range(code.op[o].args) \subseteq DOMAIN code.op
  /\ \A o \in DOMAIN code.op : Range(code.op[o].succ) \subseteq DOMAIN code.block
  /\ \A o \in DOMAIN code.op :
       Cardinality({b \in DOMAIN code.block : o \in Range(code.block[b])}) = 1

\* Whatever the passes made of the body so far, and in whatever order the
\* canonicalizer came to the operations, it leaves in its parameters what the
\* language says that the source does.
Meanings ==
  [p \in DOMAIN Programs |->
     [i \in DOMAIN Programs[p].inputs |-> Source!MeaningOf(Programs[p], Programs[p].inputs[i])]]
SameBehaviour ==
  phase = "passes" =>
    \A i \in DOMAIN Meanings[prog] :
      Run!Observed(code, Programs[prog].inputs[i]) = Meanings[prog][i]

\* Between any two rewrites and any two passes the body verifies: the types of
\* the operations fit, their regions end as they must, and every value
\* dominates its uses.
Verifies ==
  phase = "passes" => Verified(code) /\ (Running("flatten") \/ SingleBlocks(code))

\* No assertion, cast or BUG_CHECK of the compiler fails on the way.
NoCrash == ~crashed

\* The pipeline leaves no type behind that one of its passes removes, not in an
\* attribute either, and no conditional or scope after FlattenCFG.
RECURSIVE MentionedBy(_)
MentionedBy(a) ==
  IF a = None THEN {}
  ELSE {a.ty} \cup (IF a.k \in {"agg", "list"} THEN UNION {MentionedBy(e) : e \in Range(a.elems)}
                    ELSE {})
Lowered ==
  phase = "done" =>
    \A o \in OpsIn(code) :
      /\ code.op[o].k \notin {"if", "scope", "tuple", "tuple_extract"}
      /\ \A t \in {code.op[o].ty} \cup MentionedBy(code.op[o].attr), kind \in TypePasses :
           IsLegal(kind, t)

\* The rewriting of an operation, and of what that made of it, comes to an end,
\* whatever the order.
Terminates == <>(phase = "done")

=============================================================================
