--------------------------- MODULE ControlPrograms ---------------------------
(***************************************************************************)
(* Controls of the P4HIR dialect as the control inliner sees them: the     *)
(* operations of the body ("top": constants, variables and the code that   *)
(* initialises them), the control locals that make a value visible to      *)
(* actions under a name, the actions, the tables, the instances, and the   *)
(* operations of the apply block ("body").  Constants and variables stand  *)
(* before the instances.  Operations are those of ParserPrograms, and      *)
(*   "symref"  its result is what the control local or instance "inst" of  *)
(*             the same control stands for,                                *)
(*   "call"    runs the action "inst" with the operands as arguments,      *)
(*   "table"   looks the operand up as the key of the table "inst" and     *)
(*             runs the entry's action with the arguments bound to it,     *)
(*   "method"  calls an extern (first operand) with a value (second),      *)
(*   "ctor"    is the constructor parameter "lit" of the control "inst".   *)
(* Conditionals and loops of the apply block are left out: the inliner     *)
(* puts its code where the call was, whatever is around it.                *)
(* An extern may also be instantiated at module level.  References spell   *)
(* out the path of what they name; within the control it is left out here. *)
(***************************************************************************)
EXTENDS ParserPrograms

SymRef(res, name) == [Op("symref", res, <<>>, 0) EXCEPT !.inst = name]
ModuleLevel(name) == <<"module">> \o name
IsModuleLevel(sym) == sym # <<>> /\ Head(sym) = "module"
Leaf(sym) == IF IsModuleLevel(sym) THEN Tail(sym) ELSE sym
CallAction(name, args) == [Op("call", NoValue, args, 0) EXCEPT !.inst = name]
ApplyTable(name, key) == [Op("table", NoValue, <<key>>, 0) EXCEPT !.inst = name]
CtorParam(res, control, n) == [Op("ctor", res, <<>>, n) EXCEPT !.inst = control]

Local(name, val) == [name |-> name, val |-> val]
Action(name, params, ops) == [name |-> name, params |-> params, ops |-> ops]
\* "entries": the "call" operations of the entries for the keys 0 and 1.
Table(name, entries) == [name |-> name, entries |-> entries]

\* Values of reference type: parameters passed by reference and variables.
Variables(control) == {o.res : o \in {p \in ToSet(control.top) : p.op = "var"}}
IsReference(control, v) == v \in control.byref \cup Variables(control)

NamesOf(seq) == {seq[i].name : i \in DOMAIN seq}
Symbols(control) ==
    NamesOf(control.locals) \cup NamesOf(control.actions) \cup NamesOf(control.tables)
        \cup NamesOf(control.insts)
Named(seq, name) == seq[CHOOSE i \in DOMAIN seq : seq[i].name = name]

AppliesOf(control, inst) ==
    SelectSeq(control.body, LAMBDA o : o.op = "apply" /\ o.inst = inst)
=============================================================================
