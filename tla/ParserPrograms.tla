--------------------------- MODULE ParserPrograms ---------------------------
(***************************************************************************)
(* Parsers of the P4HIR dialect as the subparser inliner sees them.  A     *)
(* parser has the operations of its body ("top": locals, constants and the *)
(* code that initialises the locals), the instances it declares, its       *)
(* states in the order of its block and the target of its start            *)
(* transition.  Names and SSA values are tuples of strings, so that "the   *)
(* name with a prefix" is concatenation.                                   *)
(*                                                                         *)
(* An operation has a result (or NoValue), operands, a literal and, for an *)
(* apply, the instance it calls and whether the call is nested in a        *)
(* conditional ("deep") or only in scopes.  The result of an apply stands  *)
(* for the identity of the operation.                                      *)
(***************************************************************************)
EXTENDS Positions, SequencesExt

\* Identifiers, and what the pass adds to them.
Word == STRING \cup {"#", "+", "in", "pre", "post"}
Name == Seq(Word)
\* A number in a name is that many marks.
Marks(mark, n) == [i \in 1 .. n |-> mark]

NoValue == <<>>

Op(op, res, args, lit) ==
    [op |-> op, res |-> res, args |-> args, lit |-> lit, inst |-> NoValue, deep |-> FALSE]
Apply(id, inst, args, deep) ==
    [op |-> "apply", res |-> id, args |-> args, lit |-> 0, inst |-> inst, deep |-> deep]

\* Transitions: accept, reject, to one state, a select on a value over two
\* targets (the value 1 takes the first one), and the missing terminator of a
\* state that is being built.
NextTo(kind, sel, targets) == [kind |-> kind, sel |-> sel, targets |-> targets]
Accept == NextTo("accept", NoValue, <<>>)
Reject == NextTo("reject", NoValue, <<>>)
Missing == NextTo("missing", NoValue, <<>>)
To(name) == NextTo("to", NoValue, <<name>>)
Select(val, name1, name0) == NextTo("select", val, <<name1, name0>>)

OpKinds == {"apply", "const", "ctor", "var", "read", "assign", "extract", "field", "elem", "slice"}
Operation == [op : OpKinds, res : Name, args : Seq(Name), lit : Nat, inst : Name, deep : BOOLEAN]
Transition == [kind : {"accept", "reject", "to", "select", "missing"}, sel : Name, targets : Seq(Name)]

ParserState(name, ops, next) == [name |-> name, ops |-> ops, next |-> next]
Instance(name, callee, args) == [name |-> name, callee |-> callee, args |-> args]

StateType == [name : Name, ops : Seq(Operation), next : Transition]
InstanceType == [name : Name, callee : STRING, args : Seq(Name)]
ParserType ==
    [params : Seq(Name), top : Seq(Operation), insts : Seq(InstanceType), start : Name,
     states : Seq(StateType)]

\* A sequence with others after its first i elements.
InsertAfter(seq, i, others) == SubSeq(seq, 1, i) \o others \o SubSeq(seq, i + 1, Len(seq))

StateNames(parser) == {parser.states[i].name : i \in DOMAIN parser.states}
InstanceNames(parser) == {parser.insts[i].name : i \in DOMAIN parser.insts}
StateAt(parser, name) == CHOOSE i \in DOMAIN parser.states : parser.states[i].name = name
StateNamed(parser, name) == parser.states[StateAt(parser, name)]

\* The operations that call an instance, in the order of the walk over the parser.
CallsOf(parser, inst) ==
    FlattenSeq([i \in DOMAIN parser.states |->
        LET ops == parser.states[i].ops
        IN Chosen(ops, {j \in DOMAIN ops : ops[j].op = "apply" /\ ops[j].inst = inst})])
HoldsOp(state, id) == \E j \in DOMAIN state.ops : state.ops[j].res = id

SiteOf(parser, id) ==
    parser.states[CHOOSE i \in DOMAIN parser.states : HoldsOp(parser.states[i], id)]
CallIn(site, id) == CHOOSE j \in DOMAIN site.ops : site.ops[j].res = id

\* The values a state uses in its operations and in its transition.
UsesIn(state) ==
    (UNION {ToSet(state.ops[j].args) : j \in DOMAIN state.ops})
        \cup (IF state.next.kind = "select" THEN {state.next.sel} ELSE {})
Results(ops) == {ops[j].res : j \in DOMAIN ops} \ {NoValue}
ValuesOf(parser) ==
    ToSet(parser.params) \cup Results(parser.top)
        \cup UNION {Results(parser.states[i].ops) : i \in DOMAIN parser.states}

----------------------------------------------------------------------------
(* Code as the translation makes it.  Its names are identifiers, those of   *)
(* instances are not used for anything else in the parser, and every value  *)
(* is defined once.                                                         *)

IsIdentifier(name) == Len(name) = 1 /\ name[1] # "#"

DefinedOnce(ops) ==
    \A j, k \in DOMAIN ops : ops[j].res = ops[k].res /\ ops[j].res # NoValue => j = k

IsSSA(parser) ==
    LET outer == ToSet(parser.params) \cup Results(parser.top)
        states == parser.states
    IN /\ IsInjective(parser.params)
       /\ ToSet(parser.params) \cap Results(parser.top) = {}
       /\ DefinedOnce(parser.top)
       /\ \A i \in DOMAIN states :
            /\ DefinedOnce(states[i].ops)
            /\ Results(states[i].ops) \cap outer = {}
            /\ \A k \in DOMAIN states :
                 Results(states[i].ops) \cap Results(states[k].ops) # {} => i = k

\* What operations yield; the result of a call is no value.
Computed(ops) == {ops[j].res : j \in {n \in DOMAIN ops : ops[n].op # "apply"}} \ {NoValue}

\* Every operation uses what others before it yield, or comes from outside.
UsesBefore(ops, outer) ==
    \A j \in DOMAIN ops : ToSet(ops[j].args) \subseteq outer \cup Computed(SubSeq(ops, 1, j - 1))

IsValid(parser) ==
    LET outer == ToSet(parser.params) \cup Computed(parser.top)
    IN /\ UsesBefore(parser.top, ToSet(parser.params))
       /\ parser.start \in StateNames(parser)
       /\ \A i \in DOMAIN parser.states :
            LET state == parser.states[i]
            IN /\ UsesBefore(state.ops, outer)
               /\ UsesIn(state) \subseteq outer \cup Computed(state.ops)
               /\ \A o \in ToSet(state.ops) : o.op = "apply" => o.inst \in InstanceNames(parser)
               /\ state.next.kind # "missing"
               /\ ToSet(state.next.targets) \subseteq StateNames(parser)

\* Only states call; constants and variables have no operands.
HasKinds(parser) ==
    /\ \A o \in ToSet(parser.top) :
         o.op # "apply" /\ (o.op \in {"const", "ctor", "var"} => o.args = <<>> /\ o.res # NoValue)
    /\ \A i \in DOMAIN parser.states : \A o \in ToSet(parser.states[i].ops) :
         /\ o.op \in {"apply", "const", "ctor", "var"} => o.res # NoValue
         /\ o.op \in {"const", "ctor", "var"} => o.args = <<>>

\* Instances are given constants, those of parsers one for each constructor
\* parameter, and calls one argument for each parameter.
IsLinked(module, parser) ==
    /\ \A inst \in ToSet(parser.insts) :
         /\ \A a \in DOMAIN inst.args : \E c \in ToSet(parser.top) :
              c.res = inst.args[a] /\ c.op \in {"const", "ctor"}
         /\ inst.callee \in DOMAIN module =>
              /\ \A o \in ToSet(module[inst.callee].top) :
                   o.op = "ctor" => o.lit \in DOMAIN inst.args
              /\ \A i \in DOMAIN parser.states : \A o \in ToSet(parser.states[i].ops) :
                   o.op = "apply" /\ o.inst = inst.name =>
                     Len(o.args) = Len(module[inst.callee].params)

\* Parsers are not recursive.
Ranked(module, rank) ==
    \A p \in DOMAIN module : \A inst \in ToSet(module[p].insts) :
        inst.callee \in DOMAIN module => rank[inst.callee] < rank[p]

HasIdentifiers(parser) ==
    /\ \A x \in StateNames(parser) \cup InstanceNames(parser) \cup ValuesOf(parser) :
         IsIdentifier(x)
    /\ \A i, k \in DOMAIN parser.states :
         parser.states[i].name = parser.states[k].name => i = k
    /\ \A i, k \in DOMAIN parser.insts : parser.insts[i].name = parser.insts[k].name => i = k
    /\ InstanceNames(parser) \cap (StateNames(parser) \cup ValuesOf(parser)) = {}

IsModule(module) ==
    /\ IsFiniteSet(DOMAIN module)
    /\ module \in [DOMAIN module -> ParserType]
    /\ \A p \in DOMAIN module :
         /\ HasIdentifiers(module[p])
         /\ IsSSA(module[p])
         /\ HasKinds(module[p])
         /\ IsLinked(module, module[p])
         /\ IsValid(module[p])
    /\ \E rank \in [DOMAIN module -> 0 .. Cardinality(DOMAIN module)] : Ranked(module, rank)
=============================================================================
