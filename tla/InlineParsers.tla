---------------------------- MODULE InlineParsers ----------------------------
(***************************************************************************)
(* The pass p4hir-inline-parsers: every instance of a parser inside        *)
(* another parser is replaced by a copy of the states of the instantiated  *)
(* parser for each call of it, until no instance can be inlined any more.  *)
(*                                                                         *)
(* A state with a call is split into the code before the call ("pre"), the *)
(* states of the callee and the code after the call ("post").  Values that *)
(* were computed before the call and are used after it, or in the copied   *)
(* states, no longer reach their uses and are moved, recomputed or kept in *)
(* a variable.  When one of the calls of an instance is nested in a        *)
(* conditional nothing of the instance is inlined and the states created   *)
(* for the other calls are removed again.                                  *)
(*                                                                         *)
(* Source: lib/Transforms/InlineParserControl.cpp, IRUtils.cpp.            *)
(***************************************************************************)
EXTENDS ParserPrograms

CONSTANTS Programs,     \* the modules to inline: functions from parser names
          Orders        \* the orders the parsers may have in their module

ASSUME ProgramsAssumption == \A module \in Programs : IsModule(module)
ASSUME OrdersAssumption ==
    \A module \in Programs, ord \in Orders :
        ord \in Seq(DOMAIN module) /\ ToSet(ord) = DOMAIN module

VARIABLES source,       \* the module before the pass
          order,        \* its parsers in the order of the module
          program,      \* the module
          phase,        \* what the pass does next
          todo,         \* the instances of this round that were not visited yet
          changed,      \* madeChanges
          job           \* the inlining of one instance

vars == <<source, order, program, phase, todo, changed, job>>

NoJob == [parser |-> "", inst |-> NoValue, calls |-> <<>>, splits |-> <<>>, at |-> 0]

----------------------------------------------------------------------------
(* Names and values of the copies.                                         *)

Caller == program[job.parser]
Inst == Caller.insts[CHOOSE i \in DOMAIN Caller.insts : Caller.insts[i].name = job.inst]
Callee == program[Inst.callee]

\* Constants, variables and instances are copied once per instance, all other
\* operations once per call.
IsShared(o) == o.op \in {"const", "ctor", "var"}
SharedAt == {j \in DOMAIN Callee.top : IsShared(Callee.top[j])}
SharedOps == Chosen(Callee.top, SharedAt)
InitOps == Chosen(Callee.top, DOMAIN Callee.top \ SharedAt)
SharedName(name) == job.inst \o name

CallPrefix(k) == job.inst \o Marks("#", k)
StateName(k, name) ==
    (IF Len(job.calls) > 1 THEN CallPrefix(k) ELSE job.inst) \o name

ValueIn(k, v) ==
    LET site == SiteOf(Caller, job.calls[k])
        actual == site.ops[CallIn(site, job.calls[k])]
    IN CASE v \in ToSet(Callee.params) ->
                actual.args[CHOOSE i \in DOMAIN Callee.params : Callee.params[i] = v]
         [] v \in Results(SharedOps) -> SharedName(v)
         [] OTHER -> CallPrefix(k) \o v

CloneOp(k, o) ==
    [o EXCEPT !.res = IF @ = NoValue THEN NoValue ELSE ValueIn(k, @),
              !.args = [i \in DOMAIN @ |-> ValueIn(k, @[i])],
              !.inst = IF o.op = "apply" THEN SharedName(@) ELSE @]

CloneNext(k, next, post) ==
    IF next.kind = "accept" THEN To(post)
    ELSE [next EXCEPT !.sel = IF next.kind = "select" THEN ValueIn(k, @) ELSE @,
                      !.targets = [i \in DOMAIN @ |-> StateName(k, @[i])]]

CloneState(k, state, post) ==
    ParserState(StateName(k, state.name),
                [j \in DOMAIN state.ops |-> CloneOp(k, state.ops[j])],
                CloneNext(k, state.next, post))

\* A constant that stands for a constructor parameter becomes a copy of the
\* constant the instance was given for it.
CloneShared(o) ==
    IF o.op = "ctor"
    THEN LET arg == CHOOSE c \in ToSet(Caller.top) : c.res = Inst.args[o.lit]
         IN [arg EXCEPT !.res = SharedName(o.res)]
    ELSE [o EXCEPT !.res = SharedName(@)]

----------------------------------------------------------------------------
(* Splitting a state.                                                      *)

\* Bug: the name is taken even if there is such a symbol.
BaseName(parser, base) == base

\* A name that no symbol of the parser has yet.
UniqueName(parser, base) ==
    LET taken == StateNames(parser) \cup InstanceNames(parser)
        numbered(n) == base \o Marks("+", n)
    IN numbered(CHOOSE n \in 0 .. Cardinality(taken) :
                   /\ numbered(n) \notin taken
                   /\ \A m \in 0 .. n - 1 : numbered(m) \in taken)

InsertStates(parser, after, states) ==
    [parser EXCEPT !.states = InsertAfter(@, StateAt(parser, after), states)]

\* Bug: a call in a conditional is split like any other.
AlwaysSplit(site, id) == TRUE
CanSplitAt(site, id) == ~site.ops[CallIn(site, id)].deep

\* The states other than "block" that use a value.
EscapingStates(parser, block, val) ==
    {i \in DOMAIN parser.states :
        parser.states[i].name # block /\ val \in UsesIn(parser.states[i])}

SwapArgs(o, old, new) ==
    [o EXCEPT !.args = [i \in DOMAIN @ |-> IF @[i] = old THEN new ELSE @[i]]]
ReplaceUses(state, old, new) ==
    [state EXCEPT !.ops = [j \in DOMAIN @ |-> SwapArgs(@[j], old, new)],
                  !.next.sel = IF @ = old THEN new ELSE @]

\* What the names of new values begin with: no value of the parser has such a name.
NewStem(parser, old) ==
    LET stem(n) == old \o Marks("+", n) \o <<"in">>
    IN stem(CHOOSE n \in 0 .. Cardinality(ValuesOf(parser)) :
               \A v \in ValuesOf(parser) : ~IsPrefix(stem(n), v))

\* Every state in "escaping" starts with an operation of its own, like o, that
\* yields the value "old" there and uses the result of that one.
RecomputeIn(state, old, o, here) ==
    [ReplaceUses(state, old, here) EXCEPT !.ops = <<[o EXCEPT !.res = here]>> \o @]
Recompute(parser, escaping, old, o) ==
    [parser EXCEPT !.states = [i \in DOMAIN @ |->
        IF i \in escaping THEN RecomputeIn(@[i], old, o, NewStem(parser, old) \o @[i].name)
        ELSE @[i]]]

OpAt(ops, o) == CHOOSE j \in DOMAIN ops : ops[j] = o
WithOps(parser, block, ops) == [parser EXCEPT !.states[StateAt(parser, block)].ops = ops]

\* A variable is declared in the parser instead.
MoveToTop(parser, block, o) ==
    LET ops == StateNamed(parser, block).ops
    IN [WithOps(parser, block, RemoveAt(ops, OpAt(ops, o))) EXCEPT !.top = Append(@, o)]

\* The operation is repeated where its value is used.
CopyOp(parser, o, escaping) == Recompute(parser, escaping, o.res, o)

\* The value is stored in a new variable where it is computed and read again
\* where it is used.
PromoteValToVar(parser, block, o, escaping) ==
    LET local == NewStem(parser, o.res)
        ops == StateNamed(parser, block).ops
        stored == InsertAfter(ops, OpAt(ops, o),
                              <<Op("assign", NoValue, <<local, o.res>>, 0)>>)
        withReads == Recompute(parser, escaping, o.res, Op("read", NoValue, <<local>>, 0))
    IN [WithOps(withReads, block, stored) EXCEPT !.top = Append(@, Op("var", local, <<>>, 0))]

\* Bug: reads are repeated where their value is used.
ReadsToo(o) == o.op \in {"const", "ctor", "field", "elem", "slice", "read"}
IsCopied(o) == o.op \in {"const", "ctor", "field", "elem", "slice"}

AdjustUsesOf(parser, block, o) ==
    LET escaping == EscapingStates(parser, block, o.res)
    IN IF o.res = NoValue \/ escaping = {} THEN parser
       ELSE CASE o.op = "var" -> MoveToTop(parser, block, o)
              [] IsCopied(o) -> CopyOp(parser, o, escaping)
              [] OTHER -> PromoteValToVar(parser, block, o, escaping)

\* Bug: from the first operation to the last.
Forwards(parser, block) ==
    FoldLeft(LAMBDA p, o : AdjustUsesOf(p, block, o),
             parser, StateNamed(parser, block).ops)

\* From the last operation of the block to the first: a copy brings uses of its
\* operands to the escaping states.
AdjustBlockUses(parser, block) ==
    LET ops == StateNamed(parser, block).ops
        \* once only the first n operations are left
        adjusted[n \in 0 .. Len(ops)] ==
            IF n = Len(ops) THEN parser ELSE AdjustUsesOf(adjusted[n + 1], block, ops[n + 1])
    IN adjusted[0]

\* The code around the j-th operation of "site" moves to the pre and post states.
AroundCall(site, j, split, state) ==
    CASE state.name = site.name -> ParserState(site.name, <<>>, To(split.pre))
      [] state.name = split.pre -> [state EXCEPT !.ops = SubSeq(site.ops, 1, j - 1) \o @]
      [] state.name = split.post ->
           ParserState(split.post, SubSeq(site.ops, j + 1, Len(site.ops)), site.next)
      [] OTHER -> state

\* The split state goes to the pre state.
SplitAt(parser, id, split) ==
    LET site == SiteOf(parser, id)
        j == CallIn(site, id)
        moved == [parser EXCEPT !.states =
                     [i \in DOMAIN @ |-> AroundCall(site, j, split, @[i])]]
    IN AdjustBlockUses(moved, split.pre)

----------------------------------------------------------------------------
(* The pass.                                                               *)

Init ==
    /\ source \in Programs
    /\ order \in Orders
    /\ program = source
    /\ phase = "collect"
    /\ todo = <<>>
    /\ changed = FALSE
    /\ job = NoJob

\* inlineIteratively: the instances of all parsers at the start of a round.
CollectInstances ==
    /\ phase = "collect"
    /\ todo' = FlattenSeq([n \in DOMAIN order |->
                  [i \in DOMAIN program[order[n]].insts |->
                      <<order[n], program[order[n]].insts[i].name>>]])
    /\ changed' = FALSE
    /\ phase' = "visit"
    /\ UNCHANGED <<source, order, program, job>>

Visit(parser, inst) ==
    /\ todo' = Tail(todo)
    /\ job' = [NoJob EXCEPT !.parser = parser, !.inst = inst,
                            !.calls = [k \in DOMAIN CallsOf(program[parser], inst) |->
                                          CallsOf(program[parser], inst)[k].res]]
    /\ UNCHANGED <<source, order, program, changed>>

IsParser(parser, inst) ==
    \E i \in DOMAIN program[parser].insts :
        /\ program[parser].insts[i].name = inst
        /\ program[parser].insts[i].callee \in DOMAIN program

VisitInstance ==
    /\ phase = "visit" /\ todo # <<>>
    /\ IsParser(Head(todo)[1], Head(todo)[2])
    /\ Visit(Head(todo)[1], Head(todo)[2])
    /\ phase' = "split"

\* The instance of an extern or a control is none of this pass's business.
SkipInstance ==
    /\ phase = "visit" /\ todo # <<>>
    /\ ~IsParser(Head(todo)[1], Head(todo)[2])
    /\ todo' = Tail(todo)
    /\ UNCHANGED <<source, order, program, phase, changed, job>>

\* SplitStateRewriter::init: two empty states after the state with the call.
SplitState ==
    LET k == Len(job.splits) + 1
        site == SiteOf(Caller, job.calls[k])
        pre == UniqueName(Caller, site.name \o <<"pre">>)
        post == UniqueName(Caller, site.name \o <<"post">>)
    IN /\ phase = "split" /\ k <= Len(job.calls)
       /\ CanSplitAt(site, job.calls[k])
       /\ program' = [program EXCEPT ![job.parser] =
              InsertStates(@, site.name, <<ParserState(pre, <<>>, Missing),
                                           ParserState(post, <<>>, Missing)>>)]
       /\ job' = [job EXCEPT !.splits = Append(@, [pre |-> pre, post |-> post])]
       /\ UNCHANGED <<source, order, phase, todo, changed>>

\* One call cannot be split: the states created for the other calls go.
Created == UNION {{job.splits[k].pre, job.splits[k].post} : k \in DOMAIN job.splits}
\* Bug: a refused instance counts as a change.
CancelIsChange ==
    LET k == Len(job.splits) + 1
    IN /\ phase = "split" /\ k <= Len(job.calls)
       /\ ~CanSplitAt(SiteOf(Caller, job.calls[k]), job.calls[k])
       /\ program' = [program EXCEPT ![job.parser].states =
                         Chosen(@, {i \in DOMAIN @ : @[i].name \notin Created})]
       /\ changed' = TRUE
       /\ phase' = "visit"
       /\ job' = NoJob
       /\ UNCHANGED <<source, order, todo>>

Cancel ==
    LET k == Len(job.splits) + 1
    IN /\ phase = "split" /\ k <= Len(job.calls)
       /\ ~CanSplitAt(SiteOf(Caller, job.calls[k]), job.calls[k])
       /\ program' = [program EXCEPT ![job.parser].states =
                         Chosen(@, {i \in DOMAIN @ : @[i].name \notin Created})]
       /\ phase' = "visit"
       /\ job' = NoJob
       /\ UNCHANGED <<source, order, todo, changed>>

\* The locals, constants and instances of the callee, in place of the instance.
CloneLocals ==
    LET i == CHOOSE i \in DOMAIN Caller.insts : Caller.insts[i].name = job.inst
        own == [n \in DOMAIN Callee.insts |->
                  [Callee.insts[n] EXCEPT
                      !.name = SharedName(@),
                      !.args = [a \in DOMAIN @ |-> SharedName(@[a])]]]
        shared == [n \in DOMAIN SharedOps |-> CloneShared(SharedOps[n])]
    IN /\ phase = "split" /\ Len(job.splits) = Len(job.calls)
       /\ program' = [program EXCEPT
              ![job.parser].top = shared \o @,
              ![job.parser].insts = InsertAfter(@, i - 1, own)]
       /\ phase' = "clone"
       /\ job' = [job EXCEPT !.at = 1]
       /\ UNCHANGED <<source, order, todo, changed>>

\* The states of the callee for one call, and its initialisation in the pre state.
CloneStates ==
    LET k == job.at
        split == job.splits[k]
        states == [n \in DOMAIN Callee.states |->
                      CloneState(k, Callee.states[n], split.post)]
        inits == [n \in DOMAIN InitOps |-> CloneOp(k, InitOps[n])]
        enter == ParserState(split.pre, inits, To(StateName(k, Callee.start)))
    IN /\ phase = "clone" /\ k <= Len(job.calls)
       /\ program' = [program EXCEPT ![job.parser] =
              [InsertStates(@, split.pre, states)
                 EXCEPT !.states[StateAt(Caller, split.pre)] = enter]]
       /\ job' = [job EXCEPT !.at = k + 1]
       /\ UNCHANGED <<source, order, phase, todo, changed>>

AllCloned ==
    /\ phase = "clone" /\ job.at > Len(job.calls)
    /\ phase' = "finalize"
    /\ job' = [job EXCEPT !.at = 1]
    /\ UNCHANGED <<source, order, program, todo, changed>>

\* SplitStateRewriter::finalize
FinalizeSplit ==
    /\ phase = "finalize" /\ job.at <= Len(job.calls)
    /\ program' = [program EXCEPT ![job.parser] =
                      SplitAt(@, job.calls[job.at], job.splits[job.at])]
    /\ job' = [job EXCEPT !.at = @ + 1]
    /\ UNCHANGED <<source, order, phase, todo, changed>>

EraseInstance ==
    /\ phase = "finalize" /\ job.at > Len(job.calls)
    /\ program' = [program EXCEPT ![job.parser].insts =
                      Chosen(@, {i \in DOMAIN @ : @[i].name # job.inst})]
    /\ changed' = TRUE
    /\ phase' = "visit"
    /\ job' = NoJob
    /\ UNCHANGED <<source, order, todo>>

\* Bug: one round only.
OneRound ==
    /\ phase = "visit" /\ todo = <<>>
    /\ phase' = "done"
    /\ UNCHANGED <<source, order, program, todo, changed, job>>

\* do { ... } while (madeChanges)
EndOfRound ==
    /\ phase = "visit" /\ todo = <<>>
    /\ phase' = IF changed THEN "collect" ELSE "done"
    /\ UNCHANGED <<source, order, program, todo, changed, job>>

Done == phase = "done" /\ UNCHANGED vars

Next ==
    \/ CollectInstances \/ VisitInstance \/ SkipInstance
    \/ SplitState \/ Cancel
    \/ CloneLocals \/ CloneStates \/ AllCloned \/ FinalizeSplit \/ EraseInstance
    \/ EndOfRound \/ Done

\* The pass is one sequential loop that runs until it is done.  (This is
\* WF_vars(Next) without ENABLED: before "done" a step is always possible.)
KeepsRunning == []<><<Next>>_vars \/ <>[](phase = "done")

Spec == Init /\ [][Next]_vars /\ KeepsRunning

----------------------------------------------------------------------------
(* Correctness.                                                             *)

\* The type of the pass: names of a parser and values within it are unique, the
\* lists of calls and splits of the job agree.
TypeOK ==
    /\ phase \in {"collect", "visit", "split", "clone", "finalize", "done"}
    /\ changed \in BOOLEAN
    /\ Len(job.splits) <= Len(job.calls) /\ job.at \in 0 .. Len(job.calls) + 1
    /\ \A p \in DOMAIN program :
         LET parser == program[p]
         IN /\ IsInjective([i \in DOMAIN parser.states |-> parser.states[i].name])
            /\ IsInjective([i \in DOMAIN parser.insts |-> parser.insts[i].name])
            /\ IsSSA(parser)

\* Between two inlinings the module is valid code.
BetweenJobs == phase \in {"visit", "done"}

\* Every value is computed in the state that uses it, before its use, or among
\* the operations of the parser's body; every call names an instance that is
\* there, every state ends in a transition and every transition has its target:
\* adjustBlockUses repairs what the splitting cuts, cancel and finalize leave no
\* unfinished state.
ValidCode ==
    BetweenJobs => \A p \in DOMAIN program : IsValid(program[p])

\* At the end an instance of a parser is only left where one of its calls is
\* nested in a conditional: the rounds go on until then, in whatever order the
\* parsers stand in their module.
NothingLeft ==
    phase = "done" =>
        \A p \in DOMAIN program :
            \A inst \in ToSet(program[p].insts) :
                inst.callee \in DOMAIN program =>
                    \E o \in ToSet(CallsOf(program[p], inst.name)) : o.deep

\* An instance with a call that cannot be split keeps all its calls: while one of
\* them is deep, no call of the same instance disappears (doInlining initialises
\* every rewriter before it changes anything else).
AllCallsOrNone ==
    [][\A p \in DOMAIN program :
          \A inst \in ToSet(program[p].insts) :
              (\E o \in ToSet(CallsOf(program[p], inst.name)) : o.deep) =>
                  {o.res : o \in ToSet(CallsOf(program[p], inst.name))}
                      \subseteq {o.res : o \in ToSet(CallsOf(program'[p], inst.name))}]_vars

\* The rounds come to an end: a refused instance does not count as a change.
Terminates == <>(phase = "done")
=============================================================================
