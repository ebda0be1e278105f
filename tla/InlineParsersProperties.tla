----------------------- MODULE InlineParsersProperties -----------------------
(***************************************************************************)
(* Inlining does not change what the main parser does.  The reference is a *)
(* run of a parser: it reads a sequence of input bits into storage cells   *)
(* named by sequences (a field of a cell is a longer name).  The call of   *)
(* an instance runs the instantiated parser with the cells and values it   *)
(* is given; a rejecting subparser rejects, an accepting one continues     *)
(* behind the call.                                                        *)
(***************************************************************************)
EXTENDS InlineParsers, TLC

CONSTANTS Inputs,       \* what the packet may hold
          Steps         \* a bound on the transitions of a run

Undefined == 2
Fields == << <<"[0]">>, <<"[1]">>, <<"[undefined]">> >>

\* "steps" bounds the transitions a run may take.
Start(params, input, mem, ctor, steps) ==
    [env |-> params, input |-> input, mem |-> mem, ctor |-> ctor,
     verdict |-> "running", steps |-> steps]

Value(m, v) == IF v \in DOMAIN m.env THEN m.env[v] ELSE Undefined
Cell(m, v) == IF v \in DOMAIN m.env THEN m.env[v] ELSE <<"nowhere">>
Load(m, cell) == IF cell \in DOMAIN m.mem THEN m.mem[cell] ELSE Undefined
Yields(m, o, val) == [m EXCEPT !.env = (o.res :> val) @@ @]
Store(m, cell, val) == [m EXCEPT !.mem = (cell :> val) @@ @]
\* A variable begins undefined each time it is declared.
Declare(m, o) ==
    [Yields(m, o, o.res) EXCEPT
        !.mem = [c \in {d \in DOMAIN @ : ~IsPrefix(o.res, d)} |-> @[c]]]
Extract(m, cell) ==
    IF m.input = <<>> THEN [m EXCEPT !.verdict = "reject"]
    ELSE [Store(m, cell, Head(m.input)) EXCEPT !.input = Tail(@)]

RECURSIVE RunOp(_, _, _, _), RunFrom(_, _, _, _)

RunOps(module, parser, ops, m) ==
    FoldLeft(LAMBDA n, o : IF n.verdict = "running" THEN RunOp(module, parser, o, n) ELSE n,
             m, ops)

RunParser(module, parser, m) ==
    RunFrom(module, parser, module[parser].start,
            RunOps(module, parser, module[parser].top, m))

RunFrom(module, parser, name, m) ==
    LET state == StateNamed(module[parser], name)
        after == RunOps(module, parser, state.ops, [m EXCEPT !.steps = @ - 1])
        Enter(target) == RunFrom(module, parser, target, after)
    IN CASE m.steps = 0 -> [m EXCEPT !.verdict = "endless"]
         [] m.steps # 0 /\ after.verdict # "running" -> after
         [] OTHER ->
              CASE state.next.kind = "accept" -> after
                [] state.next.kind = "reject" -> [after EXCEPT !.verdict = "reject"]
                [] state.next.kind = "missing" -> [after EXCEPT !.verdict = "stuck"]
                [] state.next.kind = "to" -> Enter(state.next.targets[1])
                [] state.next.kind = "select" ->
                     CASE Value(after, state.next.sel) = 1 -> Enter(state.next.targets[1])
                       [] Value(after, state.next.sel) = 0 -> Enter(state.next.targets[2])
                       [] OTHER -> [after EXCEPT !.verdict = "undefined"]

Call(module, parser, o, m) ==
    LET inst == CHOOSE i \in ToSet(module[parser].insts) : i.name = o.inst
        callee == module[inst.callee]
        actuals == [p \in ToSet(callee.params) |->
                      m.env[o.args[CHOOSE i \in DOMAIN callee.params :
                                        callee.params[i] = p]]]
        ctor == [a \in DOMAIN inst.args |-> Value(m, inst.args[a])]
        after == RunParser(module, inst.callee,
                           Start(actuals, m.input, m.mem, ctor, m.steps))
    IN [after EXCEPT !.env = m.env, !.ctor = m.ctor]

RunOp(module, parser, o, m) ==
    CASE o.op = "const" -> Yields(m, o, o.lit)
      [] o.op = "ctor" -> Yields(m, o, m.ctor[o.lit])
      [] o.op = "var" -> Declare(m, o)
      [] o.op \in {"read", "slice"} -> Yields(m, o, Load(m, Cell(m, o.args[1])))
      [] o.op = "field" -> Yields(m, o, Cell(m, o.args[1]) \o <<"f">>)
      [] o.op = "elem" ->
           Yields(m, o, Cell(m, o.args[1]) \o Fields[Value(m, o.args[2]) + 1])
      [] o.op = "assign" -> Store(m, Cell(m, o.args[1]), Value(m, o.args[2]))
      [] o.op = "extract" -> Extract(m, Cell(m, o.args[1]))
      [] o.op = "apply" -> Call(module, parser, o, m)

\* What the environment of a parser sees of a run with the storage "mem".
Outcome(module, parser, input, mem, steps) ==
    LET params == [p \in ToSet(module[parser].params) |-> p]
        end == RunParser(module, parser, Start(params, input, mem, <<>>, steps))
        seen == {c \in DOMAIN end.mem : \E p \in DOMAIN params : IsPrefix(p, c)}
    IN [verdict |-> end.verdict, rest |-> end.input, mem |-> [c \in seen |-> end.mem[c]]]

----------------------------------------------------------------------------
(* The property.                                                            *)

\* After each round, whatever has been inlined, the main parser gives every packet
\* the verdict it had, consumes as much of it and leaves the same values: calls in
\* a loop, several calls in one state, values held across a call, subparsers that
\* reject.
SameBehaviour ==
    phase = "visit" /\ todo = <<>> =>
        \A input \in Inputs :
            LET mem == [c \in {<<"x">>, <<"y">>} |-> 0]
            IN Outcome(program, "main", input, mem, Steps)
                  = Outcome(source, "main", input, mem, Steps)
=============================================================================
