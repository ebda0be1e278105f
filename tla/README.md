# P4MLIR: a verification project

P4MLIR translates P4-16 programs, as the P4 compiler's front end leaves them, to the MLIR dialect
P4HIR, and lowers P4HIR step by step towards a target. Everything that can go wrong silently goes
wrong in its *passes*: each one rewrites a program, and each has to leave the program's meaning,
and the rules of the dialect, as they were. These modules specify the passes as state machines over
small programs, say what the rewritten program must still do, and check it with TLC. For five of the passes
safety properties that do not need an interpreter are also proved with TLAPS, for all programs.

Paths below are relative to `src/`; the passes are in `lib/Transforms/`.

## 1. Inventory

There are no threads, no messages and no persistent state in this code: a pass is a sequential
program over a shared, mutable graph of operations. What takes the place of interleaving is the
*order* in which worklists, walks and greedy pattern drivers reach the operations, and what takes
the place of stale messages is *state computed before a rewrite and used after it* (liveness sets,
maps keyed by operations, insertion points, dominance and alias information).

| Component | State | Operations | Interacts with | What is hard | What makes it correct |
|---|---|---|---|---|---|
| Symbol DCE (`SymbolDCE.cpp`) | `liveSymbols`, a worklist per symbol table, the recursion over nested tables | `computeLiveness`, the marking of uses, the sweep, `erase` | symbol resolution (MLIR), `isPrivate`/`canDiscardOnUseEmpty` of the operations, the verifiers that resolve the same references differently | recursion into tables while the caller's worklist is pending; a symbol shadowed by a local one | no operation that survives refers to an erased symbol; everything unneeded goes; the marking ends |
| Soft control flow removal (`RemoveSoftCF.cpp`) | the body, the guards, `CFInfo` with an insertion point per visited operation | `visitBlock`, `visitOp`, guard creation, moving of the rest of a block | the loops, switches and branches of the dialect | insertion points that go stale when operations move; guards of nested loops | the rewritten body does what the body did; no `soft_*` operation is left; values dominate uses |
| Parser simplification (`SimplifyParsers.cpp`) | the state graph, reachable set, chain maps | erase unreachable states, collapse chains | `ParserGraph.h`, annotations | the entry edge, loops, maps keyed by erased states | every path of the source parser is still executed, nothing dangles, annotated states survive |
| Lowering of calls (`lib/P4C/translate.cpp`) | the builder's block, the map from P4 expressions to values | temporaries for `out`/`inout` arguments, copies in and out, views of fields and slices | everything after it | evaluation order, overlapping arguments | copy-in/copy-out semantics of P4 |
| Copy elimination (`CopyInCopyOutElimination.cpp`) | the block around a call | two rewrite patterns in a greedy driver | memory effects of calls (`P4HIR_Ops.cpp`), alias analysis, dominance | effects between the copies, two arguments that name one place | as above, without the copies; no callee gets two references to one place |
| Inlining of parsers (`InlineParserControl.cpp`, `IRUtils.cpp`) | the list of instances of a round, split states, value maps | split states at calls, clone the callee, repair uses, roll back | symbol names, instances, constructor parameters | several calls of one instance; one call that cannot be split; values cut off from their uses | the main parser treats every packet as before; all calls of an instance or none; termination |
| Inlining of controls (`InlineParserControl.cpp`) | pass-through arguments, storage of control locals | clone actions, tables, the apply body per call | captured control locals | actions shared by several applies | same behaviour, captured locals see the right storage |
| Constant folding and verifiers (`lib/Dialect/P4HIR/P4HIR_Ops.cpp`, `P4HIR_Attrs.cpp`) | the body and the driver's worklist | `fold`, `canonicalize`, `verify` of every operation | MLIR's greedy driver, constants of attributes | widths, signs, saturation, shift amounts; rules that rewrite into each other's input; constants of a kind a hook does not expect | a fold or pattern leaves what the operation computes; the driver ends; no hook asserts |
| Translation (`translate.cpp`) | the builder's block, values of nodes, scopes of names | one `preorder`/`postorder` per P4 construct | P4 front end | short circuit operators, references and values, slices of slices, case labels without a statement, scopes | the P4HIR program means what the P4 program means, and verifies |
| P4HIR types (`P4HIR_Types.cpp`) | none | construction, `verify`, `getDefaultValue` | translation, folders | the validity bit of headers, enums without a zero | default values are those of the language |
| CFG flattening (`FlattenCFG.cpp`) | blocks | one pattern per structured operation | control flow operations, verifiers of the operations around | blocks split twice, results as block arguments | same behaviour, valid code, no structured operation of its kinds left |
| Type lowering (enum, serializable enum, alias, tuple, emit passes; `lib/Conversion/ConversionPatterns.cpp`) | type converters | one conversion per type, attribute or operation | dialect conversion driver | types mentioned in attributes, in aggregates and case labels | same behaviour, valid code, no type of the kind is left |
| Core library and BMv2 conversions | type converters, symbol names | one pattern per operation | JSON output | names of instances | one to one |
| Pipelines and tools | options | pass order | all passes | passes that rely on an earlier one | order of the common front end pipeline |

The common front end pipeline (`lib/Dialect/P4HIR/Pipelines/CommonFrontEndPipeline.cpp`) runs:
canonicalize, soft control flow removal, core library lowering, copy elimination, symbol DCE,
control inlining, parser inlining, canonicalize.

## 2. Modules

Every component has a module with the state of the pass as variables and one action per step that
the code can be observed to take; data are abstracted to what the properties tell apart.

### Symbol DCE: `SymbolTables`, `DeadSymbols`, `SymbolDCE`, `MCSymbolDCE`, `SymbolDCE_proofs`

`SymbolTables` has the programs: a tree of operations with kind, name, visibility and references,
and the two-step resolution of a reference (`Resolved`: the table the operation sits in, then the
module). `SymbolDCE` is the pass. The recursion of `computeLiveness` is a stack of frames, a frame
holding the table, whether it is hidden, and the local worklist; `EnterTable`, `VisitOp`,
`ReturnFromTable` are what one turn of the loop does, `SweepTable` is one table of the bottom-up
walk. The worklist is a set and any element may be taken, so nothing can depend on the order
(the code pops the youngest). `DeadSymbols` states the promise in one step (keep the least closed
set of operations) and `SymbolDCE` is checked to implement it (`Eliminates`).

### Soft control flow: `StructuredCode`, `Positions`, `RemoveSoftCF`, `RemoveSoftCFProperties`, `MCRemoveSoftCF`, `Positions_proofs`, `StructuredCode_proofs`, `RemoveSoftCF_proofs`

`StructuredCode` represents a body as operations with regions and the edits the pass makes
(emit before, move into a branch, merge). `RemoveSoftCF` is the visitor with an explicit stack for
the recursion of `visitBlock` and `visitOp`, its `CFInfo` (which exits were seen, how control goes
on, where the insertion point is) and the three guards. `RemoveSoftCFProperties` runs a body
on a sequence of decisions and compares before and after on all of them. `IsBody` says which bodies
the pass may be given, `IsCode` what every edit has to keep. `Positions` describes a sequence without
some of its elements by where each ends up (what `SelectSeq` does, in a form that can be proved about).

### Parser graphs: `ParserGraphs`, `SimplifyParsers`, `MCSimplifyParsers`, `SimplifyParsers_proofs`

States with transitions (including selects), reachability as a worklist with one action per visited
state, erasure, the in-degree maps, and one action per spliced state. A state remembers which source
states its body consists of, in order. Every select has a default case, as the translation makes sure
(`translate.cpp:3147-3155`): that a select with a single case which may fail to match is taken for a plain
transition (`SimplifyParsers.cpp:45`) is therefore a hazard no property covers.

### Calls: `CallBlocks`, `Positions`, `CopyElimination`, `MCCopyElimination`, `Positions_proofs`, `CopyElimination_proofs`

`CallBlocks` lowers a call the way `translate.cpp` does (a temporary for each `out` and `inout`
argument, copy in, the call, copies out in order), and defines both what P4 says the call does
(`CallByCopy`) and what the lowered code does when executed. `CopyElimination` has the two patterns
with all their conditions, applied in any order, the memory effects the operations declare, and
aliasing as MLIR's analysis sees it.

### Inlining of parsers: `ParserPrograms`, `InlineParsers`, `InlineParsersProperties`, `MCInlineParsers`, `InlineParsers_lemmas`, `InlineParsers_proofs`

`InlineParsers` follows `inlineIteratively`: rounds over the instances; for each one the state of
every call is split (`SplitState`, `SplitStateRewriter::init`) or all splits are undone (`Cancel`);
the callee's locals are copied once, its states once per call (`CloneLocals`, `CloneStates`);
`FinalizeSplit` moves the code around the call to the pre and post states and repairs the values
that no longer reach their uses (`AdjustBlockUses`: variables move to the parser, constants and
references are repeated, other values are kept in a variable); `EraseInstance` and `EndOfRound`
finish. `InlineParsersProperties` has an interpreter for nested parsers, the reference for behaviour.
Names and SSA values are sequences of words: the code joins an instance's name and a name of the callee
with a `.`, which identifiers do not contain, so a prefix is a shorter sequence; `_pre`, `_post` are words,
and the number in `#k` or in a name made unique is that many marks, since TLA+ has no map from
numbers to strings. An SSA value has no name in the code; here it gets one that is new (`NewStem`).
`IsModule` says which modules the pass may be given.
Nested regions are abstract: what matters of them is whether a call is inside a conditional.

### Inlining of controls: `ControlPrograms`, `InlineControls`, `ControlRuns`, `InlineControlsProperties`, `MCInlineControls`

A control has a body of constants and variables, control locals (names under which actions see its
values), actions, tables, instances and an apply block. `InlineControls` runs the same rounds.
`NameParameter`, `PassArgument` and `Refuse` are one turn each of the loop over the arguments, which
decides what is the same in all calls and can be passed through by value or by symbol;
`CloneCallee` copies constants, variables, locals, actions and tables once, and decides what becomes
of each control local (`Fate`: the name of a local of the caller, a constant, a copy, or a variable
of its own); `InlineCall` replaces one call by the initialisation, the copies into the storage of
the locals, the apply block and the copies back; `EraseInstance` ends the job. `ControlRuns` is the
interpreter: actions see the control only through symbols, tables choose an entry by key, calls of
extern methods are logged with the path of the extern's instance.

### Function bodies through the compiler: `HirTypes`, `HirCode`, `P4Arithmetic`, `P4Source`, `P4Semantics`, `TranslateCode`, `HirFolds`, `HirPatterns`, `HirVerify`, `LowerTypes`, `FlattenCFG`, `HirRuns`, `CompileCode`, `MCCompileCode`

This is the composition of the components that rewrite a body: translation, canonicalization, type
lowering and flattening. `CompileCode` is the state machine; the others are what its actions do.

* `HirTypes` and `HirCode` are the data. A body is a sequence of operations and a sequence of blocks;
  a value is the index of the operation that defines it; blocks sit in regions of operations. An
  operation has what MLIR gives it: kind, operands, type, attribute, constant indices, regions and
  successors. The edits (`ReplaceOp`, `InsertOps`, `EraseOps`, `AddBlock`) are those of MLIR's
  rewriter. An attribute is the integer it stands for, and `Fit` is what its width keeps of it.
* `TranslateCode` follows `P4HIRConverter`, one operator per method: `Visit` for the visitor,
  `GetValue` (which reads a reference where it is used), `Resolve` (which makes references to parts),
  `Materialize` (constants are made at every use), and one per statement and expression. A failed
  `BUG_CHECK` clears `ok`.
* `HirFolds` has the fold hook of every operation as a sequence of rules the first of which applies,
  and `FoldAsserts`, the cases in which a hook would cast or dereference what is not there.
  `HirPatterns` has the rewrite patterns, from `P4HIR_Patterns.td` as a table, and one visit of an
  operation by the greedy driver (`Rewrites`), with what the driver does besides: it erases dead
  operations and makes constants unique at the head of the body (`Tidied`).
* `HirVerify` has the verifiers of the operations, the constraints `P4HIR_Ops.td` puts on operands and
  regions, and dominance.
* `LowerTypes` is the type converter with one rule per pass; `FlattenCFG` has both its patterns.
* `P4Source` is the syntax of bodies after the front end, `P4Semantics` an interpreter for it,
  `HirRuns` one for P4HIR, and `P4Arithmetic` the operators of the language, which both use.

`CompileCode` converts one statement per step (`ConvertStatement`, `FinishTranslation`), and then runs
the passes of a pipeline. `Canonicalize(o)` is one visit of one operation, with any `o` next: the
driver's worklist order depends on the shape of the code and on MLIR, and nothing may depend on it.
`Flatten(o)` is one application of a pattern, in any order as well. `ConvertTypes` is a whole type
pass: the conversion driver converts all operations or fails. Arguments of a C++ call that both emit
operations (`getValue(left), getValue(right)`) are emitted left first; the other order emits the same
reads with nothing between them, which no property can tell apart.

## 3. Runs

| Run | Shows | Bounds, and why they are enough |
|---|---|---|
| `symbol_dce` | type; uses survive as the pass resolves them and, without shadowing, as the verifiers do; a marked symbol never loses an ancestor; a table is not entered again while active; refinement of `DeadSymbols`; termination | one module, extern with method and overload set, extern function, control with local, action, apply and nested region: every kind of symbol and each nesting the walk distinguishes; up to two references from the action and one from the body, to every kind of target and to a name that does not resolve |
| `symbol_dce_shadowed` | violated: see findings | the same, with shadowed names |
| `remove_soft_cf` | type; behaviour (outside the known defect); no soft operation left; operands still dominated; insertion points exist | 528 bodies: branches, loop in loop, loop around switch, three loops with a scope, every hole filled with every kind of exit; inputs of up to six decisions, enough to iterate an outer and an inner loop twice |
| `remove_soft_cf_nested_return` | violated: see findings | the same |
| `simplify_parsers` | type; no transition dangles; bodies are paths of the source; nothing lost; annotations kept; nothing left to collapse; termination | all parsers over four states with nine kinds of transition for the first two, five for the third: chains up to three, self loops, loops to the entry, double edges |
| `copy_elimination` | type; P4 copy semantics; no aliased arguments; values defined before use; disjoint arguments lose all copies | two arguments over six overlapping places in all directions, inner calls, slices, symbolic locals; callees of two assignments: enough to write both parameters or one from the other, which is what tells copies from references |
| `copy_elimination_captured` | violated: see findings | actions that capture the local they are called with |
| `inline_parsers` | type and unique names; valid code between inlinings; the main parser's verdict, consumed input and storage; nothing inlinable left; all calls of an instance or none; termination | three nested parsers, two orders in the module, one or two calls in one state, two states or a loop, a nested call that is plain or in a conditional, an extern instance, six kinds of values held across a call; packets of up to three bits, which reaches every state of the second iteration of a loop. `Steps` = 40 transitions is never exhausted by them |
| `inline_controls` | type and unique symbols; copies refer to nothing of the callee; main's storage and extern calls; only instances whose calls pass different externs are left | three nested controls, two orders; no, one or two calls; the `inout` argument a parameter, a variable of the control or a temporary, the `in` argument a parameter, a constant of the control or the block, or a value read there, the extern a parameter or an instance; main's control locals all there or none, one with the name a new one would get; all initial storage of one bit each: every case of `Fate` and of the pass-through |
| `compile_code` | code well formed; no assertion or `BUG_CHECK` fails; the body verifies between any two rewrites; it does what P4 says of the source, between any two rewrites; nothing left that a pass of the pipeline removes; termination in every order | 31 bodies which together have every modelled expression and statement and the folding rules and patterns they can reach, each on two or three inputs chosen to tell results apart (bits above a slice, negative values, taken and untaken branches). Three pipelines, as `p4mlir-opt` may be asked for: canonicalize first, last but one, and after flattening, so folds see translated, lowered and flattened code. Widths of 2, 4 and 8 bits: all overflow. `MaxFuel` = 30 blocks and `MaxRounds` = 8 rounds are more than any body uses; widths of `WideWidth` = 30 and more (`bit<32>` indices, `infint`) hold small numbers only |
| `compile_code_casts` | violated: see findings | one body, the same inputs |
| `inline_parsers_slice` | violated: see findings | the same with a slice of the storage the subparser writes |

Every property has a mutant: a plausible slip in the code, written as an alternative definition
next to the real one ("Bug:" in the modules), under which TLC finds the property
violated.

**Fairness.** Each pass is one sequential loop, run to completion by the pass manager, so
`SymbolDCE` and `SimplifyParsers` assume weak fairness of the next-state relation and nothing more;
`InlineParsers`, `InlineControls` and `CompileCode` assume the same, written without `ENABLED` (`KeepsRunning`) because TLC evaluates
`ENABLED` of that relation very slowly. `RemoveSoftCF` and `CopyElimination` assume no fairness: they
have no liveness property, and that they do not get stuck is the deadlock check.

## 4. Proofs

The theorems hold for every value of the constants that satisfies the named assumptions: any number
of operations, states, arguments or references, in any program. The assumptions are facts about what
the passes are given, each stated in the module that declares the constants, and TLC evaluates them
in the runs.

### Symbol DCE

`SymbolDCE_proofs` assumes `OpAssumption` (the module is an operation and `None` is none) and
`ProgramsAssumption`: programs are trees of operations of finite depth in which only symbol tables
hold symbols and a name occurs once in a table, which is what MLIR's verifier of symbol tables
guarantees. It proves

* `TypeCorrect`: `Spec => []TypeOK`;
* `LiveSurvives`: `Spec => []LiveNeverGone`: no ancestor of a marked symbol is erased;
* `UsesKept`: `Spec => []UsesSurvive`: at the end, what a surviving operation refers to survives;
* `UnshadowedUsesKept`: `Spec => []UnshadowedUsesSurvive`: without shadowed names, references that
  resolved at module level still do.

`UsesSurvive` speaks of the end only and is not inductive. The marking is right because at every
moment each live symbol either *waits* (it is in some worklist, or it is a table whose call is
active) or has had all its uses marked. This is `InvMark`; `InvStack` says the same of the entries
of the tables being visited, and that what waits may wait (it sits inside live tables); `InvLive`
that live symbols sit inside live tables, without which the sweep could erase a table around a live
symbol; `InvPhase` ties the phase to the stack; `InvSweep` that only unmarked symbols are erased and
that visited tables are clean. `IInv` is their conjunction with `TypeOK`. When the stack is empty
nothing waits, so `InvMark` becomes closure under uses, and with `InvLive` and `InvSweep` it gives
the theorems. The lemmas are one per action (`StartStep`, `EnterStep`, `VisitStep`, `ReturnStep`,
`FinishStep`, `SweepStep`), on top of facts about resolution (`PathInside`, `UsedInside`).

The second part of the module bounds the marking from above, and proves

* `NoReentrantCall`: `Spec => []NoReentry`: `computeLiveness` is never active twice for one table;
* `Refinement`: `Spec => Eliminates`: the pass implements `DeadSymbols`: the operations it takes out
  are exactly those that are in no closed set, and it takes them out for good.

`RInv` adds three parts to `IInv`. `InvOnce`: a symbol is held by one call only, as an entry of its
worklist or as its table, which is what rules out reentry. `InvNeeded`: *every* closed set holds all
that is live or waits; quantifying over all closed sets makes it inductive, where the least one would
need induction over the marking. `InvRooted`: what a live table keeps unconditionally is live. When
the stack is empty, what is left is itself closed (`RestIsClosed`) and inside every closed set
(`RestIsNeeded`), so it is the least one, and the last sweep is the one step of `DeadSymbols`; all
other steps stutter.

### Soft control flow

`StructuredCode_proofs` has what the edits of the rewriter do to well-formed code (`EmitFacts`,
`AddEmptyFacts`, `EraseFacts`): which operations a block holds afterwards, that each is still in one
block, and that a suffix of a block stays one. `RemoveSoftCF_proofs` assumes `ProgramsAssumption` (the
programs satisfy `IsBody`: well-formed code of the translation's kinds, without guards, nested to a
finite depth) and proves

* `TypeCorrect`: `Spec => []TypeOK`: the code is well formed after every step;
* `SoftControlFlowGone`: `Spec => []SoftFree`: no `return`, `break` or `continue` is left at the end;
* `InsertionPointsExist`: `Spec => []PointsExist`: no call holds an insertion point that was erased.

`SoftFree` is about the end of a traversal of code that the traversal itself moves around, so the
invariant has to say which code is still to be traversed. It does so with the set `U` of the blocks the
visitor has yet to open, which the state does not hold and `InvPhase` quantifies over; `Inv(p, U, fs, X)`
is about the code, `U`, the active calls of `visitBlock` and the operations `X` just taken out of the rest
of their block. Its parts:

* `InvSource`: what is to be visited is as the translation made it, but for one assignment to a guard
  that starts an iteration;
* `InvActive`: each outer call is busy with an operation that exists, is not pending, and of whose
  regions exactly the rest are unopened;
* `InvPending`: every soft operation is *pending* (in a block of `U`, in the rest of a call, or in `X`),
  and each block of `U` is a region of a pending operation or among the rest of an active one;
* `InvPlaces`: an insertion point is either the first operation of what its call has left, or the
  terminator of a block that is done. This is what makes `PointsExist` inductive: neither is erased by
  what the visitor does next;
* `Grounded`: opened blocks are not nested in each other in a cycle. The actions move operations into new
  blocks, so this is not kept by construction.

`EditStep` proves once that an edit which satisfies `Edited` keeps `Inv`; creating, moving, erasing and
guarding are instances of it (`EmitStep`, `MoveStep`, `EraseStep`, `GuardedStep`), and there is one lemma per
action. In `EraseRest` what goes is defined by `Enclosing`, a recursive function; the proof uses no more of
it than its equation (`EnclosingFacts`), which makes what is cut closed downwards (`CutFacts`) and, with
`Grounded`, leaves what the calls are busy with alone (`DeadFacts`). When the outermost call returns, a
pending operation would be in a block of `U`; the one with the greatest number would be held by an
operation that is pending too, in a block of `U` with a greater number, as blocks are numbered from the
inside out. So nothing is pending, and no soft operation is left.

### Parser simplification

`SimplifyParsers_proofs` assumes `ParsersAssumption` (`IsParser`: finitely many states, transitions
into the parser) and `NoneAssumption` (`None` is no state), and proves every invariant of the run:

* `TypeCorrect`: `Spec => []TypeOK`;
* `NothingDangles`: `Spec => []NoDangling`: no transition and no entry to an erased state;
* `PathsOfTheSource`: `Spec => []BodiesArePaths`: a body is what the source parser executes along a
  path;
* `OperationsSurvive`: `Spec => []NothingLost`: each reachable state is executed by exactly one state;
* `AnnotationsSurvive`: `Spec => []AnnotationsKept`: no annotated state is merged into another;
* `SecondRunIdle`: `Spec => []Simplified`: nothing is left that a second run would change.

The argument is about *places*: a kept source state sits at one index of one body (`InvPlaces`), and
neighbours in a body are neighbours in `succ` (`InvBodies`). `succ` is computed once, before any splice,
from in-degrees counted then; `InvSucc` says that it nevertheless stays the relation `Chained` of the
source parser, because a splice removes exactly the edge it follows. `InvHeads` says that only chains
whose head was taken have grown. `Simplified` needs that no chain is a cycle of states each with one
predecessor, the entry outside: such a cycle is not reachable, which is the third part of `InvReach`,
stated of all sets of states, so that it is inductive over the depth-first walk. Nothing is assumed
about the order of the walk or of the heads.

### Copy elimination

`CopyElimination_proofs` assumes `VariablesAssumption` (the names of temporaries are not those of
variables: SSA values), `ParamsAssumption`, and `CallsAssumption` (`IsP4Call`: any number of
arguments, each a reference or, for one `in` argument, the result of an inner call with such
arguments), and proves

* `TypeCorrect`: `Spec => []TypeOK`;
* `ArgumentsNeverAlias`: `Spec => []NoAliasedArguments`: whatever patterns are applied in whatever
  order, no callee is given two references to one place;
* `AlwaysDefined`: `Spec => []DefinedBeforeUse`: every value has one definition, above its uses.

The inductive invariant is the conjunction with `Once` (no two operations define one value). Both
patterns erase some operations and rename one temporary to the reference it is a copy of. `Replaces`
states what they establish before they do so (the temporary's users, that the reference is defined
above them, that no effect of the call may touch it); `CopyOutReplaces` and `CopyInOutReplaces` derive
it from the conditions in the code, and each conjunct has one lemma from `Replaces` alone
(`OnceStep`, `NoAliasedStep`, `DefinedStep`, `TypeStep`). `NewCode` describes the code after a step by
positions: an operation that is kept comes from the position with as many kept ones before it.
Initially the code is what `translate.cpp` emits, a concatenation over the arguments; `Block` is a
specification of a piece of code (what it defines, uses and may mention) that is closed under
concatenation (`Concatenated`), and `LoweredBlock` builds it up along the lowering.

### Inlining of parsers

`InlineParsers_proofs` assumes `ProgramsAssumption` (`IsModule`: any finite set of parsers without
recursion, as the translation makes them: names are identifiers, an instance shares its name with nothing
else in its parser, every value is defined once and before its uses, arguments match parameters) and
`OrdersAssumption` (an order lists the parsers of the module), and proves

* `TypeCorrect`: `Spec => []TypeOK`: unique names, every value defined once, after every step;
* `NothingLeftProved`: `Spec => []NothingLeft`: at the end an instance of a parser is only left where a
  call of it is in a conditional;
* `AllOrNone`: `Spec => AllCallsOrNone`: an instance with a call that cannot be split keeps all calls;
* `ValidCodeProved`: `Spec => []ValidCode`: between two inlinings every use of a value is reached by its
  definition, every call has its instance, every finished state a transition, to a state of its parser.

The inductive invariant is `Inv`, the code is well formed, together with `InvValid`, it is valid but for
what the inlining that is under way still owes. The first three theorems follow from `Inv` alone.

That names stay unique rests on prefixes. `Begins` and `Apart` (neither begins with the other) are about
names; everything the pass copies for an instance has a name that begins with the instance's, so the names
of two expansions differ if the names of instances are apart from each other and from all other names in
the parser. Identifiers are apart, and `HasNames` keeps it so: in place of the instance its own instances
come with longer names, and a state split off another one only extends a name that is apart already. The
parts of `Inv`:

* `InvType`, `InvCode`: `CodeFits` for every parser: names (`HasNames`, for the instances that are not just
  being expanded), single definitions, kinds of operations, linked instances; and `IsRanked`, no recursion:
  expanding an instance of a parser brings instances of lower rank, so a callee is never the caller;
* `InvJob`: the calls of the job are the operations that call its instance and are not finalized yet, each
  of them there;
* `InvSplits`: the states created for splits exist, differ, and hold no code until it is their turn (`Cancel`
  may remove them, `AroundCall` overwrites them), and copied states do not call the instance;
* `InvFresh`: while the copies are made, only those made so far have names that begin with the instance's;
* `InvShallow`: what was split is not in a conditional;
* `InvRound`: in a round that has changed nothing so far, an instance is still to be visited, is being
  visited, or has a call in a conditional. This is what the fixed point needs for `NothingLeft`.

The two parts of `InvValid`:

* `InvUses`: every use is `Fed`, from the body of the parser or from the code above it, except that the
  states of the job may wait for their `Debts`. While a call waits to be finalized, the copies made for it
  are entered before the code in front of the call has come to the pre state; what that code computes, and
  what the pre state begins with, is owed to the copies (`IsOwed`). Two calls in one state, where the second
  is finalized inside the post state of the first, are why the debts are a function of the state;
* `InvTargets`: states made for a split are `Hidden` from transitions while the split may be cancelled, and
  `Loose`, without a transition of their own, until they get one.

`EnteredFed` shows that a copy uses nothing but its own code, the locals, and what is owed to it.
`FinalizeSplit` pays the debts of its call: `CuttingSupplied` says what the states lack when the code is
cut, and `BlockSupplied` follows the loop of `adjustBlockUses` over the block from its last operation to
its first. `Supplied(R, B, n, D)` is the invariant of that loop: once only the first n operations are left, no
other state waits for the others. Each turn keeps it, whether it moves a variable, repeats a constant or
reference, or promotes a value (`MovedSupplied`, `CopiedSupplied`, `PromotedSupplied`). A repeated reference
brings uses of earlier operations with it, so the proof fails for the other direction of the loop.

Most lemmas about operators alone are in `InlineParsers_lemmas`. `adjustBlockUses` goes over a block whose later operations
it may itself have changed; `AdjustSteps` unfolds it as the sequence of parsers on its way, and `BlockKeeps`
shows that moving, copying and promoting values keep the calls of every state, single definitions and names
(`MovedKeeps`, `CopiedKeeps`, `PromotedKeeps`), whichever operations these are. Each action then has one
lemma about the parser it changes (`SplitFits`, `ReducedFits`, `LocalsHaveNames` and its neighbours,
`EnteredFits`, `FinalFits`, `EraseFits`), from which `ParserStep` concludes about the module, and one that
puts the parts of `Inv` together (`SplitInv` to `EraseInv`), and one for those of `InvValid` (`SplitValid` to
`EraseValid`, `FinalizeValid`). `AllOrNone` is proved along with them: only
`FinalizeSplit` removes a call, of the job's instance, and `InvShallow` says that none of its calls is deep.

### Only model-checked

* Liveness: that the passes end (`Terminates`, `AllInlined` and the like). TLAPS cannot reason about
  fairness here.
* Behaviour: `Preserves`, `CopySemantics`, `SameBehaviour`. The interpreters (`RemoveSoftCFProperties`,
  `InlineParsersProperties`, `ControlRuns`, `HirRuns`, `P4Semantics`) are recursive, and what a recursive definition
  computes for every input is beyond the provers, so behaviour is compared by TLC on bounded programs.
* `KeepsDominance`, which relates the rewritten body to the source; the invariant above says nothing of
  the order in which the moved operations end up.
* `TypeOK` and `ValidCode` of `InlineControls`. Actions that are copied once see the values of several calls,
  through names of control locals whose fate is decided per argument; the inductive invariant this needs, the
  counterpart of `Inv` and `InvValid`, is not written yet.
* `DisjointArgumentsDirect`, which says that a pattern applies in every case of a kind (a form of
  progress), and the components not named above, see the plan.

## 5. Findings

* **Symbol DCE and shadowing** (`SymbolDCE.cpp:178`). Uses are resolved in the surrounding table
  first; the verifiers resolve call targets in the module only. A control-local symbol with the name
  of an extern function captures its calls, and the function that is really called is erased.
* **A return in nested loops** (`RemoveSoftCF.cpp:316`). The return clears the guards of the
  innermost loop and the return guard; an outer loop with a break or continue of its own continues
  its iteration.
* **Copies and captured locals** (`P4HIR_Ops.cpp:1584`). The effects of a call leave out the control
  locals an action captures, so copy elimination passes a reference to a local the action also
  writes under its own name.
* **Slices and state splitting** (`IRUtils.cpp:101`). A slice read before an inlined call is read
  again after it, where the storage may have been written.

* **Casts of casts** (`P4HIR_Ops.cpp:258`). `cast(cast(a))` becomes one cast, also when the inner one
  narrows: `(bit<4>)(bit<2>)a` keeps all bits of `a`.

Each has a run in which TLC finds the stated property violated; the passing runs exclude exactly
the programs concerned.

Four more cases met in the inlining of controls are among the hazards. `MCInlineControls` leaves
the programs out, so no run covers them:

* a constructor parameter that a subcontrol passes on to a leaf control ends up inside an action,
  where the inlining of the subcontrol does not substitute it (`InlineParserControl.cpp:121`; adding
  `sub(<<"k">>, A, <<"k">>)` to the programs violates `ValidCode`);
* a table entry that binds a parameter of the subcontrol which is not passed through by value keeps
  the parameter of the subcontrol (`InlineParserControl.cpp:461`; with `<<"val">>` among the values of
  `bound`, `ValidCode` is violated);
* the symbol of a module-level extern that is passed as an argument is looked up in the caller
  (`InlineParserControl.cpp:402`; with `ModuleLevel(<<"ext">>)` for the extern argument, `ValidCode` is
  violated);
* the caller's parameter name is fetched with the callee's argument index
  (`InlineParserControl.cpp:379`; with `main(x, e)` applying `sub(x, 1, e)`, `TypeOK` is violated).

The bodies of `MCCompileCode` avoid these, so no run covers them; each violates the property named when
it is added:

| Body | Code | Property |
|---|---|---|
| `r = a * 3 * 2` | `MulMulCst` adds the two constants (`P4HIR_Patterns.td:132-138`) | `SameBehaviour` |
| `r = 0 \|-\| a` | `SubSatToNeg` makes a negation of it, which wraps (`P4HIR_Patterns.td:116-121`) | `SameBehaviour` |
| `r <<= 8w17` for a `bit<4>` | the amount is cast to the type of the left side (`translate.cpp:2024-2025`) | `SameBehaviour` |
| a `for` whose condition has `&&` | flattening leaves several blocks in the condition region, which may have one (`FlattenCFG.cpp:131`, `P4HIR_Ops.td:1841`) | `Verifies` |
| a `foreach` with an `if` in its body | the same for the body, which has the single block trait (`P4HIR_Ops.td:1868`) | `Verifies` |
| `s.h == {#}` for a member | `emitInvalidHeaderCmpOp` asks for the value before the operand is visited (`translate.cpp:1904-1916`) | `NoCrash` |

Seen while modelling, outside the model: `setInvalid` emits nothing unless the header is a member of a
union (`translate.cpp:2425`); an assignment to a member of a header union invalidates all its members
before the right side is read (`translate.cpp:1974-1978`); a header constant made of a struct
expression has no element for its validity (`translate.cpp:1609-1615`); comments say `add_sat(a, 0)`
and `sub_sat(a, 0)` fold to 0 where the code rightly returns `a` (`P4HIR_Ops.cpp:494`,
`P4HIR_Ops.cpp:504`); `Passes.td:62-67` says that loops are flattened, too.

## 6. Not modelled, and the plan

The plan:

1. Proofs: `KeepsDominance` of `RemoveSoftCF`; the type invariant and `ValidCode` of `InlineControls`.
2. Translation of parsers (selects, the synthesized reject) and of tables, as programs of the modules
   of the inliners; header unions and stacks, with the hazards above.
3. The folders of `range`, `set` and mask operations, and `ExpandEmit`, which unfolds the emits of
   nested headers in deparsers.
4. The conversions to the core library and to BMv2, which replace one operation by another.

Of MLIR itself, what is modelled is what the code relies on. The greedy driver also simplifies regions
(merges identical blocks, drops unreachable ones) and, in FlattenCFG, folds operations next to the
ones it rewrites: a flattened body does not go through the canonicalizer's block merging here, and
folds happen in `canonicalize` only. The inliner of MLIR is not modelled: bodies have no calls.

Left out for good: parsing and printing of types and operations, option handling, registration and
JSON output (textual formats without state), and the P4 front end, which is external: its guarantees
(declaration before use, no recursive parsers, side effects ordered) appear as restrictions on the
programs the MC modules build.
