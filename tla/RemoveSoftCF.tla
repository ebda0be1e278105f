----------------------------- MODULE RemoveSoftCF -----------------------------
(***************************************************************************)
(* The p4hir-remove-soft-cf pass (lib/Transforms/RemoveSoftCF.cpp) on one  *)
(* function or control body: the `return`, `break` and `continue` of P4    *)
(* are replaced by assignments to guard variables, and what follows them   *)
(* is moved into the one branch that reaches it or into a block that runs  *)
(* only while a guard holds.                                               *)
(*                                                                         *)
(* The recursion of visitBlock and visitOp is a stack of frames.  A frame  *)
(* is a call of visitBlock, with the operation it is visiting, the regions *)
(* of that operation still to visit and what the visited ones reported.    *)
(***************************************************************************)
EXTENDS StructuredCode

CONSTANT Programs   \* the bodies the pass may be given

ASSUME ProgramsAssumption == \A p \in Programs : IsBody(p)

VARIABLES src,     \* the body, as the pass finds it
          ir,      \* the body, as the pass rewrites it
          phase,   \* "start", "visit", "done"
          frames,  \* the active calls of visitBlock, innermost last
          guards   \* returnGuard, breakGuard, continueGuard

vars == <<src, ir, phase, frames, guards>>

\* CFInfo; `cf` is the mask cfTypes.
Info(cf, et, ep) == [cf |-> cf, et |-> et, ep |-> ep]

NoGuards == [ret |-> NoVar, brk |-> NoVar, cnt |-> NoVar]

NewFrame(p, b) ==
  [b |-> b, todo |-> Front(p.block[b]), info |-> Info({}, "next", Head(p.block[b])),
   op |-> 0, rest |-> <<>>, got |-> <<>>, saved |-> NoGuards]

Init ==
  /\ src \in Programs
  /\ ir = src
  /\ phase = "start"
  /\ frames = <<>>
  /\ guards = NoGuards

HasSoftCF(p) == \E o \in OpsIn(p) : IsSoft(p, o)

Skip ==
  /\ phase = "start"
  /\ ~HasSoftCF(ir)
  /\ phase' = "done"
  /\ UNCHANGED <<src, ir, frames, guards>>

\* transform(): the return guard, then the body.
Start ==
  /\ phase = "start"
  /\ HasSoftCF(ir)
  /\ LET g == Len(ir.op) + 1
         p == Emit(ir, Head(ir.block[ir.root]), <<Assign(g, TRUE)>>)
     IN /\ ir' = p
        /\ guards' = [guards EXCEPT !.ret = g]
        /\ frames' = <<NewFrame(p, ir.root)>>
  /\ phase' = "visit"
  /\ UNCHANGED src

-----------------------------------------------------------------------------
(* One operation of visitBlock                                              *)

Top == Last(frames)

IsInLoop == guards.brk # NoVar

\* createGuardedBlock: a block in front of `at` that runs while v holds; its
\* terminator is the youngest operation.
GuardedBlock(p, at, v) ==
  LET q == Emit(p, at, <<Make("guard", <<Len(p.block) + 1>>, v, FALSE)>>)
  IN AddEmptyBlock(q)

\* Bug: the new block has no terminator.
Unterminated(p, b, v) ==
  LET n == Len(p.op)
      q == [p EXCEPT !.op = @ \o <<Make("guard", <<Len(p.block) + 1>>, v, FALSE)>>,
                     !.block[b] = <<n + 1, Last(@)>>]
  IN AddBlock(q, Front(p.block[b]))

\* guardBlock: the same for all of an existing block b.
GuardBlock(p, b, v) ==
  LET n == Len(p.op)
      new == Len(p.block) + 1
      ops == Front(p.block[b])
      q == [p EXCEPT !.op = @ \o <<Make("guard", <<new>>, v, FALSE), End>>,
                     !.block[b] = <<n + 1, Last(@)>>]
  IN AddBlock(q, Append(ops, n + 2))

Turn(o) ==
  /\ phase = "visit"
  /\ Top.op = 0
  /\ Top.todo # <<>>
  /\ o = Head(Top.todo)

\* Bug: only the first operation moves to the point where execution continues.
StaysBehind(o) ==
  LET i == Top.info
      g == IF IsInLoop THEN guards.cnt ELSE guards.ret
      p == GuardedBlock(ir, i.ep, g)
      n == Len(p.op)
  IN CASE i.et = "multiple" -> [ir |-> MoveBefore(p, o, n),
                                info |-> Info(i.cf, "nested", n)]
       [] i.et = "nested"   -> [ir |-> ir, info |-> i]
       [] i.et = "next"     -> [ir |-> ir, info |-> Info(i.cf, "next", NextNode(ir, i.ep))]

\* Where `o` goes before it is visited: it stays if execution simply comes to
\* it, else it moves to the point where execution continues, in a new guarded
\* block if there are several.
Placed(o) ==
  LET i == Top.info
      g == IF IsInLoop THEN guards.cnt ELSE guards.ret
      p == GuardedBlock(ir, i.ep, g)
      n == Len(p.op)
  IN CASE i.et = "multiple" -> [ir |-> MoveBefore(p, o, n),
                                info |-> Info(i.cf, "nested", n)]
       [] i.et = "nested"   -> [ir |-> MoveBefore(ir, o, i.ep), info |-> i]
       [] i.et = "next"     -> [ir |-> ir, info |-> Info(i.cf, "next", NextNode(ir, i.ep))]

\* What the block learns from the operation it has visited.
Absorbed(i, got) ==
  IF got.et = "next" THEN i
  ELSE Info(i.cf \cup got.cf, got.et, IF got.et = "nested" THEN got.ep ELSE i.ep)

\* The frames, the operation at the head of the top one being done with.
Advanced(info) ==
  [frames EXCEPT ![Len(frames)].todo = Tail(@), ![Len(frames)].info = info]

\* Bug: what nothing reaches is passed over and left there.
SkipRest ==
  /\ phase = "visit" /\ Top.op = 0 /\ Top.todo # <<>>
  /\ Top.info.et = "none"
  /\ frames' = [frames EXCEPT ![Len(frames)].todo = <<>>,
                              ![Len(frames)].info.ep = 0]
  /\ UNCHANGED <<src, ir, phase, guards>>

\* Nothing reaches the rest of the block; what is erased takes along what is
\* nested in it.
EraseRest ==
  /\ phase = "visit" /\ Top.op = 0 /\ Top.todo # <<>>
  /\ Top.info.et = "none"
  /\ LET rest == Range(Top.todo)
     IN ir' = Erase(ir, {o \in OpsIn(ir) : Enclosing(ir, o) \cap rest # {}})
  /\ frames' = [frames EXCEPT ![Len(frames)].todo = <<>>,
                              ![Len(frames)].info.ep = 0]
  /\ UNCHANGED <<src, phase, guards>>

VisitPlain(o) ==
  /\ Turn(o)
  /\ Top.info.et # "none"
  /\ ir.op[o].k \in {"op", "assign"}
  /\ ir' = Placed(o).ir
  /\ frames' = Advanced(Placed(o).info)
  /\ UNCHANGED <<src, phase, guards>>

\* The guards a soft control flow operation clears, in their order.
Clears(k) ==
  CASE k = "ret" -> <<guards.ret>> \o (IF IsInLoop THEN <<guards.brk, guards.cnt>>
                                       ELSE <<>>)
    [] k = "brk" -> <<guards.brk, guards.cnt>>
    [] k = "cnt" -> <<guards.cnt>>

VisitSoft(o) ==
  /\ Turn(o)
  /\ Top.info.et # "none"
  /\ IsSoft(ir, o)
  /\ LET k == ir.op[o].k
         clears == [i \in DOMAIN Clears(k) |-> Assign(Clears(k)[i], FALSE)]
         value == IF k = "ret" /\ ir.valued THEN <<Make("retval", <<>>, NoVar, o)>>
                  ELSE <<>>
     IN /\ ir' = Erase(Emit(Placed(o).ir, o, clears \o value), {o})
        /\ frames' = Advanced(Absorbed(Placed(o).info, Info({k}, "none", 0)))
  /\ UNCHANGED <<src, phase, guards>>

\* Visit `o` in p: its regions bs, from the first.
Opened(p, o, info, bs) ==
  [Advanced(info) EXCEPT ![Len(frames)].op = o,
                         ![Len(frames)].rest = Tail(bs),
                         ![Len(frames)].got = <<>>,
                         ![Len(frames)].saved = guards]
    \o <<NewFrame(p, Head(bs))>>

\* ScopeOp, IfOp, SwitchOp; a missing else or default is made up first.
OpenConditional(o) ==
  /\ Turn(o)
  /\ Top.info.et # "none"
  /\ ir.op[o].k \in {"scope", "branch"}
  /\ LET q == Placed(o).ir
         missing == ir.op[o].k = "branch" /\ ~ir.op[o].val
         p == IF missing
              THEN [AddEmptyBlock(q) EXCEPT !.op[o].val = TRUE,
                                            !.op[o].regions = Append(@, Len(q.block) + 1)]
              ELSE q
     IN /\ ir' = p
        /\ frames' = Opened(p, o, Placed(o).info, p.op[o].regions)
  /\ UNCHANGED <<src, phase, guards>>

\* ForOp, ForInOp: two new guards in front, the second set again by every
\* iteration.
OpenLoop(o) ==
  /\ Turn(o)
  /\ Top.info.et # "none"
  /\ IsLoop(ir, o)
  /\ LET q == Placed(o).ir
         brk == Len(q.op) + 1
         cnt == Len(q.op) + 2
         r == Emit(q, o, <<Assign(brk, TRUE), Assign(cnt, TRUE)>>)
         p == Emit(r, Head(Body(r, o)), <<Assign(cnt, TRUE)>>)
     IN /\ ir' = p
        /\ frames' = Opened(p, o, Placed(o).info, p.op[o].regions)
        /\ guards' = [guards EXCEPT !.brk = brk, !.cnt = cnt]
  /\ UNCHANGED <<src, phase>>

-----------------------------------------------------------------------------
(* The end of a block                                                       *)

BlockDone == phase = "visit" /\ Top.op = 0 /\ Top.todo = <<>>

Caller == frames[Len(frames) - 1]

NextRegion ==
  /\ BlockDone
  /\ Len(frames) > 1
  /\ Caller.rest # <<>>
  /\ LET n == Len(frames) - 1
     IN frames' = [SubSeq(frames, 1, n) EXCEPT ![n].rest = Tail(@),
                                               ![n].got = Append(@, Top.info)]
                    \o <<NewFrame(ir, Head(Caller.rest))>>
  /\ UNCHANGED <<src, ir, phase, guards>>

\* The operation whose last region this was has reported `got`.
Returned(got) ==
  LET n == Len(frames) - 1
  IN [SubSeq(frames, 1, n) EXCEPT ![n].op = 0, ![n].info = Absorbed(@, got)]

\* Bug: execution is said to continue in the first block, whatever that does.
FirstPoint(infos) ==
  LET Of(et) == {i \in DOMAIN infos : infos[i].et = et}
      Is(et) == Cardinality(Of(et))
      total == Len(infos)
      cf == UNION {infos[i].cf : i \in DOMAIN infos}
  IN IF Is("none") = total THEN Info(cf, "none", 0)
     ELSE IF Is("next") = total THEN Info(cf, "next", 0)
     ELSE IF Is("none") = total - 1 THEN Info(cf, "nested", infos[1].ep)
     ELSE Info(cf, "multiple", 0)

\* visitConditional: where execution continues after the blocks, one of which
\* has been executed.
Combined(infos) ==
  LET Of(et) == {i \in DOMAIN infos : infos[i].et = et}
      Is(et) == Cardinality(Of(et))
      total == Len(infos)
      cf == UNION {infos[i].cf : i \in DOMAIN infos}
      points == Of("next") \cup Of("nested")
  IN IF Is("none") = total THEN Info(cf, "none", 0)
     ELSE IF Is("next") = total THEN Info(cf, "next", 0)
     ELSE IF Is("none") = total - 1 /\ (Is("next") = 1 \/ Is("nested") = 1)
          THEN Info(cf, "nested", infos[Max(points)].ep)
     ELSE Info(cf, "multiple", 0)

FinishConditional ==
  /\ BlockDone
  /\ Len(frames) > 1
  /\ Caller.rest = <<>>
  /\ ~IsLoop(ir, Caller.op)
  /\ frames' = Returned(Combined(Append(Caller.got, Top.info)))
  /\ UNCHANGED <<src, ir, phase, guards>>

\* Bug: the return guard is preferred.
ReturnGuardFirst(cf) ==
  IF "ret" \in cf THEN guards.ret ELSE IF "brk" \in cf THEN guards.brk ELSE NoVar

\* The guard that ends the loop: its own, or the return guard if it has no use
\* for its own.
ActualBreakGuard(cf) ==
  IF "brk" \in cf THEN guards.brk ELSE IF "ret" \in cf THEN guards.ret ELSE NoVar

\* A ForOp tests its guard in its condition and around its updates, a ForInOp
\* around its body.
WithBreakGuard(p, o, v) ==
  IF v = NoVar THEN p
  ELSE IF p.op[o].k = "for" THEN [p EXCEPT !.op[o].var = v]
  ELSE GuardBlock(p, p.op[o].regions[1], v)

\* Without a `continue` of its own, the loop does with one guard.
Merged(p, v, w) ==
  LET dead == {a \in OpsIn(p) : p.op[a].k = "assign" /\ p.op[a].var = v}
  IN [Erase(p, dead) EXCEPT !.op = [a \in DOMAIN @ |->
        IF @[a].var = v THEN [@[a] EXCEPT !.var = w] ELSE @[a]]]

FinishLoop ==
  /\ BlockDone
  /\ Len(frames) > 1
  /\ IsLoop(ir, Caller.op)
  /\ LET cf == Top.info.cf
         v == ActualBreakGuard(cf)
         p == WithBreakGuard(ir, Caller.op, v)
     IN /\ ir' = IF v # NoVar /\ "cnt" \notin cf THEN Merged(p, guards.cnt, v) ELSE p
        /\ frames' = Returned(IF "ret" \in cf THEN Info({"ret"}, "multiple", 0)
                              ELSE Info({}, "next", 0))
        /\ guards' = Caller.saved
  /\ UNCHANGED <<src, phase>>

FinishBody ==
  /\ BlockDone
  /\ Len(frames) = 1
  /\ phase' = "done"
  /\ frames' = <<>>
  /\ UNCHANGED <<src, ir, guards>>

Finished == phase = "done" /\ UNCHANGED vars

Next ==
  \/ Skip
  \/ Start
  \/ EraseRest
  \/ \E o \in DOMAIN ir.op : VisitPlain(o)
  \/ \E o \in DOMAIN ir.op : VisitSoft(o)
  \/ \E o \in DOMAIN ir.op : OpenConditional(o)
  \/ \E o \in DOMAIN ir.op : OpenLoop(o)
  \/ NextRegion
  \/ FinishConditional
  \/ FinishLoop
  \/ FinishBody
  \/ Finished

Spec == Init /\ [][Next]_vars

-----------------------------------------------------------------------------
\* Guards and code keep their shape: an operation is in one block at most, every
\* block ends in its terminator and is a region of one operation, and the
\* guards are variables.
TypeOK ==
  /\ phase \in {"start", "visit", "done"}
  /\ IsCode(ir)
  /\ {guards.ret, guards.brk, guards.cnt} \subseteq {NoVar} \cup DOMAIN ir.op

\* No soft control flow is left for the passes that come after.
SoftFree == phase = "done" => ~HasSoftCF(ir)

\* What moves takes along all that could use its results: a plain operation
\* that was executed before another, in its block or in a block around it,
\* still is, so no value is used where its definition does not reach.
Dominates(p, a, b) ==
  \E e \in Enclosing(p, b) \ {a} :
    BlockOf(p, e) = BlockOf(p, a) /\ IndexOf(p, a) < IndexOf(p, e)

KeepsDominance ==
  phase = "done" =>
    LET kept == {o \in OpsIn(src) \cap OpsIn(ir) : src.op[o].k # "end"}
    IN \A a, b \in kept :
         src.op[a].k = "op" /\ Dominates(src, a, b) => Dominates(ir, a, b)

\* The insertion points the visitor holds on to while it erases and moves are
\* those of operations that still exist.
PointsExist ==
  \A n \in DOMAIN frames :
    frames[n].info.et # "none" => frames[n].info.ep \in OpsIn(ir)

=============================================================================
