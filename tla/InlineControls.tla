---------------------------- MODULE InlineControls ----------------------------
(***************************************************************************)
(* The pass p4hir-inline-controls: every instance of a control inside      *)
(* another control is replaced by a copy of its locals and actions, and    *)
(* every call of it by a copy of its initialisation and apply block.       *)
(*                                                                         *)
(* Actions are copied once but serve all calls, and they reach what the    *)
(* calls pass only through control locals.  An argument that is the same   *)
(* in all calls is passed through (a constant by value, a parameter or an  *)
(* extern by the name of a control local or instance of the caller); for   *)
(* the others the copied control local gets a variable of its own, which   *)
(* is filled before each inlined call and copied back after it.            *)
(*                                                                         *)
(* Source: lib/Transforms/InlineParserControl.cpp.                         *)
(***************************************************************************)
EXTENDS ControlPrograms, FiniteSets

CONSTANTS Programs,     \* the modules to inline: functions from control names
          Orders,       \* the orders the controls may have in their module
          Ordinals      \* the strings of the numbers 0, 1, ... as a sequence

VARIABLES source,       \* the module before the pass
          order,        \* its controls in the order of the module
          program,      \* the module
          phase,        \* what the pass does next
          todo,         \* the instances of this round that were not visited yet
          changed,      \* madeChanges
          job           \* the inlining of one instance

vars == <<source, order, program, phase, todo, changed, job>>

\* "byVal" and "bySym": passthroughByValue and passthroughBySymbol.
NoJob == [control |-> "", inst |-> NoValue, calls |-> <<>>,
          byVal |-> <<>>, bySym |-> <<>>, at |-> 0]

----------------------------------------------------------------------------
Caller == program[job.control]
Inst == Caller.insts[CHOOSE i \in DOMAIN Caller.insts : Caller.insts[i].name = job.inst]
Callee == program[Inst.callee]
CallAt(k) == CHOOSE o \in ToSet(Caller.body) : o.res = job.calls[k]
HasApply == job.calls # <<>>

IsShared(o) == o.op \in {"const", "ctor", "var"}
SharedOps == SelectSeq(Callee.top, IsShared)
InitOps == SelectSeq(Callee.top, LAMBDA o : ~IsShared(o))
SharedName(name) == job.inst \o name
CallPrefix(k) == job.inst \o <<"#", Ordinals[k]>>

FormalIndex(v) == CHOOSE i \in DOMAIN Callee.params : Callee.params[i] = v
IsFormal(v) == v \in ToSet(Callee.params)

----------------------------------------------------------------------------
(* Passing arguments through.                                              *)

ArgOf(k, i) == CallAt(k).args[i]
AllSame(i) == \A k \in DOMAIN job.calls : ArgOf(k, i) = ArgOf(1, i)

DefinedAs(ops, v, kind) == \E o \in ToSet(ops) : o.res = v /\ o.op = kind
\* Parameters and the values of the control's body are there where the instance
\* is; what the apply block computes is not.
DominatesInst(v) == v \in ToSet(Caller.params) \cup Results(Caller.top)

IsCandidate(i) == AllSame(i) /\ DominatesInst(ArgOf(1, i))
IsConstant(i) ==
    \/ DefinedAs(Caller.top, ArgOf(1, i), "const")
    \/ DefinedAs(Caller.top, ArgOf(1, i), "ctor")
IsParameter(i) == ArgOf(1, i) \in ToSet(Caller.params)

PassedByValue(i) ==
    IF IsCandidate(i) /\ (IsConstant(i) \/ IsParameter(i)) THEN ArgOf(1, i) ELSE NoValue

\* The symbol behind an extern argument that the apply block refers to by name.
ExternDecl(k, i) ==
    LET refs == {o \in ToSet(Caller.body) : o.op = "symref" /\ o.res = ArgOf(k, i)}
    IN IF refs = {} THEN NoValue ELSE (CHOOSE o \in refs : TRUE).inst
AllSameDecl(i) == \A k \in DOMAIN job.calls : ExternDecl(k, i) = ExternDecl(1, i)

IsExtern(i) == Callee.params[i] \in Callee.externs

\* A control local that already names the argument.
Naming(i) == {l \in ToSet(Caller.locals) : l.val = ArgOf(1, i)}
\* Bug: the name of a new local is not made unique.
SomeLocalName == <<"__local">>

\* A name that no symbol of the caller has yet.
NewLocalName ==
    LET name(n) == IF n = 0 THEN <<"__local">> ELSE <<"__local", Ordinals[n]>>
    IN name(CHOOSE n \in 0 .. Len(Ordinals) :
              /\ name(n) \notin Symbols(Caller)
              /\ \A j \in 0 .. n - 1 : name(j) \in Symbols(Caller))


----------------------------------------------------------------------------
(* Copying the callee.                                                     *)

ParamPassed(l, by) == IsFormal(l.val) /\ by[FormalIndex(l.val)] # NoValue
\* What becomes of a control local of the callee.
Fate(l) ==
    CASE ParamPassed(l, job.bySym) -> "symbol"
      [] ~ParamPassed(l, job.bySym) /\ ParamPassed(l, job.byVal) -> "value"
      [] l.val \in Variables(Callee) -> "cloned"
      [] OTHER -> "storage"
\* A variable takes the place of a value.
IsPromoted(l) == Fate(l) = "storage" /\ ~IsReference(Callee, l.val)

Storage(l) == SharedName(l.name) \o <<"var">>

\* A reference to a control local in a copied action.
CloneSymRef(o) ==
    LET l == CHOOSE l \in ToSet(Callee.locals) : l.name = o.inst
        res == SharedName(o.res)
    IN CASE Fate(l) = "symbol" -> <<SymRef(res, job.bySym[FormalIndex(l.val)])>>
         [] Fate(l) = "value" ->
              LET val == job.byVal[FormalIndex(l.val)]
                  const == CHOOSE c \in ToSet(Caller.top) : c.res = val
              IN <<[const EXCEPT !.res = res]>>
         [] IsPromoted(l) ->
              <<SymRef(res \o <<"ref">>, SharedName(l.name)),
                Op("read", res, <<res \o <<"ref">>>>, 0)>>
         [] OTHER -> <<SymRef(res, SharedName(l.name))>>

CloneInAction(o) ==
    IF o.op = "symref" THEN CloneSymRef(o)
    ELSE <<[o EXCEPT !.res = IF @ = NoValue THEN NoValue ELSE SharedName(@),
                     !.args = [i \in DOMAIN @ |-> SharedName(@[i])]]>>

CloneAction(a) ==
    Action(SharedName(a.name), [i \in DOMAIN a.params |-> SharedName(a.params[i])],
           FlattenSeq([j \in DOMAIN a.ops |-> CloneInAction(a.ops[j])]))

\* Tables are copied once, too, with what is passed through by value; whatever
\* else the entries bind stays as it is.
TopValue(v) ==
    CASE IsFormal(v) /\ job.byVal[FormalIndex(v)] # NoValue -> job.byVal[FormalIndex(v)]
      [] v \in Results(SharedOps) -> SharedName(v)
      [] OTHER -> v
CloneTable(t) ==
    Table(SharedName(t.name),
          [j \in DOMAIN t.entries |->
              CallAction(SharedName(t.entries[j].inst),
                         [i \in DOMAIN t.entries[j].args |-> TopValue(t.entries[j].args[i])])])

KeptLocals == SelectSeq(Callee.locals, LAMBDA l : Fate(l) \in {"cloned", "storage"})
CloneLocal(l) ==
    Local(SharedName(l.name),
          IF Fate(l) = "cloned" THEN SharedName(l.val) ELSE Storage(l))
StoredLocals == SelectSeq(Callee.locals, LAMBDA l : Fate(l) = "storage")

----------------------------------------------------------------------------
(* Copying a call.                                                         *)

\* callMapper
ValueIn(k, v) ==
    CASE IsFormal(v) -> ArgOf(k, FormalIndex(v))
      [] v \in Results(SharedOps) -> SharedName(v)
      [] OTHER -> CallPrefix(k) \o v

\* Bug: the apply block keeps working on the argument.
ArgumentInBody(k, v) == ValueIn(k, v)

IsStored(v) == \E l \in ToSet(StoredLocals) : l.val = v /\ IsReference(Callee, v)
\* The apply block works on the storage of a control local, not on the argument.
ValueInBody(k, v) ==
    IF IsStored(v) THEN Storage(CHOOSE l \in ToSet(StoredLocals) : l.val = v)
    ELSE ValueIn(k, v)

CloneCall(k, o, Map(_, _)) ==
    [o EXCEPT !.res = IF @ = NoValue THEN NoValue ELSE Map(k, @),
              !.args = [i \in DOMAIN @ |-> Map(k, @[i])],
              !.inst = IF o.op \in {"apply", "symref", "call", "table"} /\ ~IsModuleLevel(@)
                       THEN SharedName(@) ELSE @]

Copied(k, l) == CallPrefix(k) \o l.name
CopyIn(k, l) ==
    LET new == ValueIn(k, l.val)
    IN IF IsReference(Callee, l.val)
       THEN <<Op("read", Copied(k, l) \o <<"in">>, <<new>>, 0),
              Op("assign", NoValue, <<Storage(l), Copied(k, l) \o <<"in">>>>, 0)>>
       ELSE <<Op("assign", NoValue, <<Storage(l), new>>, 0)>>

CopyOut(k, l) ==
    LET new == ValueIn(k, l.val)
    IN IF IsReference(Callee, l.val)
       THEN <<Op("read", Copied(k, l) \o <<"out">>, <<Storage(l)>>, 0),
              Op("assign", NoValue, <<new, Copied(k, l) \o <<"out">>>>, 0)>>
       ELSE <<>>

CodeOfCall(k) ==
    LET Map(Code(_, _)) ==
            FlattenSeq([n \in DOMAIN StoredLocals |-> Code(k, StoredLocals[n])])
    IN [n \in DOMAIN InitOps |-> CloneCall(k, InitOps[n], ValueIn)]
         \o Map(CopyIn)
         \o [n \in DOMAIN Callee.body |-> CloneCall(k, Callee.body[n], ValueInBody)]
         \o Map(CopyOut)

----------------------------------------------------------------------------
(* The pass.                                                               *)

Init ==
    /\ source \in Programs
    /\ order \in Orders
    /\ program = source
    /\ phase = "collect"
    /\ todo = <<>>
    /\ changed = FALSE
    /\ job = NoJob

CollectInstances ==
    /\ phase = "collect"
    /\ todo' = FlattenSeq([n \in DOMAIN order |->
                  [i \in DOMAIN program[order[n]].insts |->
                      <<order[n], program[order[n]].insts[i].name>>]])
    /\ changed' = FALSE
    /\ phase' = "visit"
    /\ UNCHANGED <<source, order, program, job>>

IsControl(control, inst) ==
    \E i \in ToSet(program[control].insts) :
        i.name = inst /\ i.callee \in DOMAIN program

VisitInstance ==
    /\ phase = "visit" /\ todo # <<>>
    /\ IsControl(Head(todo)[1], Head(todo)[2])
    /\ LET calls == AppliesOf(program[Head(todo)[1]], Head(todo)[2])
       IN job' = [NoJob EXCEPT !.control = Head(todo)[1], !.inst = Head(todo)[2],
                               !.calls = [k \in DOMAIN calls |-> calls[k].res]]
    /\ todo' = Tail(todo)
    /\ phase' = "arguments"
    /\ UNCHANGED <<source, order, program, changed>>

SkipInstance ==
    /\ phase = "visit" /\ todo # <<>>
    /\ ~IsControl(Head(todo)[1], Head(todo)[2])
    /\ todo' = Tail(todo)
    /\ UNCHANGED <<source, order, program, phase, changed, job>>

\* The next argument, when the instance is called at all.
NextArg == Len(job.byVal) + 1
ArgumentsLeft == phase = "arguments" /\ HasApply /\ NextArg <= Len(Callee.params)

Record(sym) ==
    /\ job' = [job EXCEPT !.byVal = Append(@, PassedByValue(NextArg)),
                          !.bySym = Append(@, sym)]
    /\ UNCHANGED <<source, order, phase, todo, changed>>

\* A parameter of the caller that no control local names yet gets one.  The
\* name is made with that of the caller's parameter of the same number.
Unnamed(i) == IsCandidate(i) /\ IsParameter(i) /\ Naming(i) = {}
NameParameter ==
    /\ ArgumentsLeft
    /\ Unnamed(NextArg)
    /\ program' = [program EXCEPT ![job.control].locals =
                      <<Local(NewLocalName, ArgOf(1, NextArg))>> \o @]
    /\ Record(NewLocalName)

PassArgument ==
    LET i == NextArg
        named == IsCandidate(i) /\ IsParameter(i)
        first == CHOOSE n \in DOMAIN Caller.locals :
                    /\ Caller.locals[n].val = ArgOf(1, i)
                    /\ \A m \in 1 .. n - 1 : Caller.locals[m].val # ArgOf(1, i)
        sym == CASE named -> Caller.locals[first].name
                 [] ~named /\ IsExtern(i) /\ AllSameDecl(i) -> Leaf(ExternDecl(1, i))
                 [] OTHER -> NoValue
    IN /\ ArgumentsLeft
       /\ named => Naming(i) # {}
       /\ IsExtern(i) => sym # NoValue
       /\ Record(sym)
       /\ UNCHANGED program

\* Externs have no storage: one that differs between the calls cannot be passed.
Refuse ==
    /\ ArgumentsLeft
    /\ IsExtern(NextArg)
    /\ ~(IsCandidate(NextArg) /\ IsParameter(NextArg))
    /\ ~AllSameDecl(NextArg) \/ ExternDecl(1, NextArg) = NoValue
    /\ phase' = "visit"
    /\ job' = NoJob
    /\ UNCHANGED <<source, order, program, todo, changed>>

\* Bug: the constructor parameter of the callee is copied with the rest.
CopyCtorParam(o) == [o EXCEPT !.res = SharedName(@)]

\* A constant that stands for a constructor parameter becomes a copy of the
\* constant the instance was given for it.
CloneShared(o) ==
    IF o.op = "ctor"
    THEN LET arg == CHOOSE c \in ToSet(Caller.top) : c.res = Inst.args[o.lit]
         IN [arg EXCEPT !.res = SharedName(o.res)]
    ELSE [o EXCEPT !.res = SharedName(@)]

\* Of a callee that is never called, only its constants and instances.
CloneCallee ==
    LET i == CHOOSE i \in DOMAIN Caller.insts : Caller.insts[i].name = job.inst
        own == [n \in DOMAIN Callee.insts |->
                  [Callee.insts[n] EXCEPT !.name = SharedName(@),
                                          !.args = [a \in DOMAIN @ |-> SharedName(@[a])]]]
        ops == SelectSeq(Callee.top,
                         LAMBDA o : o.op \in {"const", "ctor"} \/ (HasApply /\ o.op = "var"))
        shared == [n \in DOMAIN ops |-> CloneShared(ops[n])]
        stores == [n \in DOMAIN StoredLocals |-> Op("var", Storage(StoredLocals[n]), <<>>, 0)]
        locals == [n \in DOMAIN KeptLocals |-> CloneLocal(KeptLocals[n])]
        actions == [n \in DOMAIN Callee.actions |-> CloneAction(Callee.actions[n])]
        tables == [n \in DOMAIN Callee.tables |-> CloneTable(Callee.tables[n])]
    IN /\ phase = "arguments" /\ ~ArgumentsLeft
       /\ program' = [program EXCEPT
              ![job.control].insts = SubSeq(@, 1, i - 1) \o own \o SubSeq(@, i, Len(@)),
              ![job.control].top = shared \o (IF HasApply THEN stores ELSE <<>>) \o @,
              ![job.control].locals = @ \o (IF HasApply THEN locals ELSE <<>>),
              ![job.control].actions = @ \o (IF HasApply THEN actions ELSE <<>>),
              ![job.control].tables = @ \o (IF HasApply THEN tables ELSE <<>>)]
       /\ phase' = "calls"
       /\ job' = [job EXCEPT !.at = 1]
       /\ UNCHANGED <<source, order, todo, changed>>

InlineCall ==
    LET k == job.at
        j == CHOOSE j \in DOMAIN Caller.body : Caller.body[j].res = job.calls[k]
    IN /\ phase = "calls" /\ k <= Len(job.calls)
       /\ program' = [program EXCEPT ![job.control].body =
              SubSeq(@, 1, j - 1) \o CodeOfCall(k) \o SubSeq(@, j + 1, Len(@))]
       /\ job' = [job EXCEPT !.at = k + 1]
       /\ UNCHANGED <<source, order, phase, todo, changed>>

EraseInstance ==
    /\ phase = "calls" /\ job.at > Len(job.calls)
    /\ program' = [program EXCEPT ![job.control].insts =
                      SelectSeq(@, LAMBDA i : i.name # job.inst)]
    /\ changed' = TRUE
    /\ phase' = "visit"
    /\ job' = NoJob
    /\ UNCHANGED <<source, order, todo>>

\* Bug: the module is walked only once.
OneRound ==
    /\ phase = "visit" /\ todo = <<>>
    /\ phase' = "done"
    /\ UNCHANGED <<source, order, program, todo, changed, job>>

EndOfRound ==
    /\ phase = "visit" /\ todo = <<>>
    /\ phase' = IF changed THEN "collect" ELSE "done"
    /\ UNCHANGED <<source, order, program, todo, changed, job>>

Done == phase = "done" /\ UNCHANGED vars

Next ==
    \/ CollectInstances \/ VisitInstance \/ SkipInstance
    \/ NameParameter \/ PassArgument \/ Refuse
    \/ CloneCallee \/ InlineCall \/ EraseInstance
    \/ EndOfRound \/ Done

\* The pass is one sequential loop that runs until it is done.  (This is
\* WF_vars(Next) without ENABLED: before "done" a step is always possible.)
KeepsRunning == []<><<Next>>_vars \/ <>[](phase = "done")

Spec == Init /\ [][Next]_vars /\ KeepsRunning
=============================================================================
