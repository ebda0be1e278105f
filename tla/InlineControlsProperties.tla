---------------------- MODULE InlineControlsProperties ----------------------
(***************************************************************************)
(* The correctness of control inlining.                                    *)
(***************************************************************************)
EXTENDS InlineControls, ControlRuns

CONSTANT Inputs         \* what the storage of the main control may hold

NoRepeats(seq) == Cardinality(ToSet(seq)) = Len(seq)
Names(seq) == [i \in DOMAIN seq |-> seq[i].name]

\* The type of the pass: the two lists of what is passed through agree, the
\* caller has the parameter that a new control local is named after, and no two
\* symbols of a control have the same name, whatever was copied into it.
TypeOK ==
    /\ phase \in {"collect", "visit", "arguments", "calls", "done"}
    /\ changed \in BOOLEAN
    /\ Len(job.byVal) = Len(job.bySym) /\ job.at \in 0 .. Len(job.calls) + 1
    /\ ArgumentsLeft /\ Unnamed(NextArg) => NextArg \in DOMAIN Caller.params
    /\ \A c \in DOMAIN program :
         NoRepeats(Names(program[c].locals) \o Names(program[c].actions)
                     \o Names(program[c].tables) \o Names(program[c].insts))

\* Whatever the code refers to, it can reach.
Reaches(control, ops, values) ==
    /\ NoRepeats(SelectSeq([j \in DOMAIN ops |-> ops[j].res], LAMBDA r : r # NoValue))
    /\ \A j \in DOMAIN ops :
         /\ ToSet(ops[j].args) \subseteq values \cup Results(SubSeq(ops, 1, j - 1))
         /\ ops[j].op = "symref" =>
              \/ IsModuleLevel(ops[j].inst)
              \/ ops[j].inst \in NamesOf(control.locals) \cup NamesOf(control.insts)
         /\ ops[j].op = "call" => ops[j].inst \in NamesOf(control.actions)
         /\ ops[j].op = "table" => ops[j].inst \in NamesOf(control.tables)
         /\ ops[j].op = "apply" => ops[j].inst \in NamesOf(control.insts)
         /\ ops[j].op = "ctor" => ops[j].inst = control.self

\* Between two inlinings every value is defined before it is used, actions use
\* nothing of the control but through symbols, and every symbol reference and
\* constructor parameter is one of the control the code is in: nothing of the
\* callee is left behind in the copies.
ValidCode ==
    phase \in {"visit", "done"} =>
        \A c \in DOMAIN program :
            LET control == program[c]
                values == ToSet(control.params) \cup Results(control.top)
            IN /\ Reaches(control, control.top, ToSet(control.params))
               /\ Reaches(control, control.body, values)
               /\ \A l \in ToSet(control.locals) : l.val \in values
               /\ \A a \in ToSet(control.actions) : Reaches(control, a.ops, ToSet(a.params))
               /\ \A t \in ToSet(control.tables) : Reaches(control, t.entries, values)

\* After each round, whatever has been inlined, the main control leaves the same
\* values in its parameters and calls the same externs with the same values in
\* the same order: through actions shared by several calls, tables, variables of
\* the subcontrols, and locals that name what a call passed.
SameBehaviour ==
    phase = "visit" /\ todo = <<>> =>
        \A mem \in Inputs : Outcome(program, "main", mem) = Outcome(source, "main", mem)

\* What an extern argument stands for.
ExternOf(control, v) ==
    LET refs == {o \in ToSet(control.body) : o.op = "symref" /\ o.res = v}
    IN IF refs = {} THEN v ELSE (CHOOSE o \in refs : TRUE).inst
Disagree(control, inst) ==
    \E i \in DOMAIN program[inst.callee].params :
        /\ program[inst.callee].params[i] \in program[inst.callee].externs
        /\ \E o, p \in ToSet(AppliesOf(control, inst.name)) :
              ExternOf(control, o.args[i]) # ExternOf(control, p.args[i])

\* The rounds come to an end, and then an instance of a control is only left
\* where its calls pass different externs: however the controls are nested and
\* ordered, and although the refused instance is tried again in each round.
AllInlined ==
    <>(/\ phase = "done"
       /\ \A c \in DOMAIN program : \A inst \in ToSet(program[c].insts) :
              inst.callee \in DOMAIN program => Disagree(program[c], inst))
=============================================================================
