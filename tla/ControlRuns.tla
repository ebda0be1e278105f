----------------------------- MODULE ControlRuns -----------------------------
(***************************************************************************)
(* What a control does: the reference the inliner is held to.  A run works *)
(* on storage cells named by sequences and logs the calls of extern        *)
(* methods.  An apply runs the instantiated control on the cells and       *)
(* values it is given; an action runs with its own parameters and sees the *)
(* control only through symbol references.                                 *)
(***************************************************************************)
EXTENDS ControlPrograms, TLC

Undefined == 2

\* "env" has the values of the code that is running, "frame" those of the
\* control around it, "path" the instance of that control.
Start(params, mem) ==
    [env |-> params, frame |-> params, ctor |-> <<>>, path |-> <<>>, mem |-> mem, log |-> <<>>]

Value(m, v) == IF v \in DOMAIN m.env THEN m.env[v] ELSE Undefined
Load(m, cell) == IF cell \in DOMAIN m.mem THEN m.mem[cell] ELSE Undefined
Yields(m, o, val) == [m EXCEPT !.env = (o.res :> val) @@ @]
Store(m, cell, val) == [m EXCEPT !.mem = (cell :> val) @@ @]

\* A control local stands for its value, an instance for the object itself.
Denoted(control, m, name) ==
    CASE name \in NamesOf(control.locals) -> m.frame[Named(control.locals, name).val]
      [] IsModuleLevel(name) -> name
      [] OTHER -> m.path \o name

\* The parameters of an action or control with the arguments of an operation.
Bind(params, m, args) ==
    [p \in ToSet(params) |-> Value(m, args[CHOOSE i \in DOMAIN params : params[i] = p])]

RECURSIVE RunOp(_, _, _, _)

RunOps(program, control, ops, m) ==
    FoldLeft(LAMBDA n, o : RunOp(program, control, o, n), m, ops)

RunControl(program, name, m) ==
    LET begun == RunOps(program, name, program[name].top, m)
    IN RunOps(program, name, program[name].body, [begun EXCEPT !.frame = @ @@ begun.env])

Call(program, name, o, m) ==
    LET action == Named(program[name].actions, o.inst)
        after == RunOps(program, name, action.ops,
                        [m EXCEPT !.env = Bind(action.params, m, o.args)])
    IN [m EXCEPT !.mem = after.mem, !.log = after.log]

\* The arguments bound to an entry are values of the control.
ApplyEntry(program, name, o, m) ==
    LET key == Value(m, o.args[1])
        entries == Named(program[name].tables, o.inst).entries
    IN IF key = Undefined THEN m ELSE Call(program, name, entries[key + 1], m)

RunApply(program, name, o, m) ==
    LET inst == Named(program[name].insts, o.inst)
        callee == program[inst.callee]
        actuals == Bind(callee.params, m, o.args)
        after == RunControl(program, inst.callee,
                     [m EXCEPT !.env = actuals, !.frame = actuals,
                               !.path = @ \o o.inst,
                               !.ctor = [a \in DOMAIN inst.args |-> Value(m, inst.args[a])]])
    IN [m EXCEPT !.mem = after.mem, !.log = after.log]

RunOp(program, name, o, m) ==
    CASE o.op = "const" -> Yields(m, o, o.lit)
      [] o.op = "ctor" -> Yields(m, o, m.ctor[o.lit])
      [] o.op = "var" -> Store(Yields(m, o, o.res), o.res, Undefined)
      [] o.op = "read" -> Yields(m, o, Load(m, Value(m, o.args[1])))
      [] o.op = "assign" -> Store(m, Value(m, o.args[1]), Value(m, o.args[2]))
      [] o.op = "symref" -> Yields(m, o, Denoted(program[name], m, o.inst))
      [] o.op = "call" -> Call(program, name, o, m)
      [] o.op = "table" -> ApplyEntry(program, name, o, m)
      [] o.op = "method" ->
           [m EXCEPT !.log = Append(@, <<Value(m, o.args[1]), Value(m, o.args[2])>>)]
      [] o.op = "apply" -> RunApply(program, name, o, m)

\* What the environment of a control sees of a run with the storage "mem".
Outcome(program, name, mem) ==
    LET params == [p \in ToSet(program[name].params) |->
                     IF p \in program[name].byref \cup program[name].externs THEN p ELSE mem[p]]
        end == RunControl(program, name, Start(params, mem))
    IN [mem |-> [c \in DOMAIN mem |-> end.mem[c]], log |-> end.log]
=============================================================================
