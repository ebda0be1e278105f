------------------------ MODULE RemoveSoftCFProperties ------------------------
(***************************************************************************)
(* The removal of soft control flow preserves what a body does.            *)
(*                                                                         *)
(* To run a body: `in` holds what conditions, switches and the collections *)
(* of `for (x in ...)` evaluate to; `out` lists what has been evaluated    *)
(* and executed, in its order, an operation -o being the updates of the    *)
(* loop o; `st` tells how execution goes on: "run", the three soft exits,  *)
(* and "stop" where the inputs are used up.                                *)
(***************************************************************************)
EXTENDS RemoveSoftCF

CONSTANT Inputs   \* what the conditions of a run may evaluate to

-----------------------------------------------------------------------------
(* What running a body does                                                 *)

Running(in) == [st |-> "run", env |-> <<>>, in |-> in, out |-> <<>>, res |-> 0]

\* Evaluates what `o` depends on.
Consult(c, o) ==
  IF c.in = <<>> THEN [c EXCEPT !.st = "stop"]
  ELSE [c EXCEPT !.in = Tail(@), !.out = Append(@, o)]

Holds(c, v) == v = NoVar \/ c.env[v]

RECURSIVE RunOp(_, _, _), RunLoop(_, _, _, _)

RunBlock(p, c, b) ==
  LET step(d, o) == IF d.st = "run" THEN RunOp(p, d, o) ELSE d
  IN FoldLeft(step, c, p.block[b])

\* The loop o decides on another iteration; a `for ... in` has n left.
RunLoop(p, c, o, n) ==
  LET r == p.op[o]
      for == r.k = "for"
      d == IF for THEN Consult(c, o) ELSE c
      e == RunBlock(p, d, r.regions[1])
      next == [e EXCEPT !.st = "run",
                        !.out = IF for /\ Holds(e, r.var) THEN Append(@, -o) ELSE @]
  IN IF for /\ ~Holds(c, r.var) THEN c
     ELSE IF for /\ (d.st = "stop" \/ Head(c.in) # 1) THEN d
     ELSE IF ~for /\ n = 0 THEN c
     ELSE CASE e.st = "brk" -> [e EXCEPT !.st = "run"]
            [] e.st \in {"ret", "stop"} -> e
            [] OTHER -> RunLoop(p, next, o, n - 1)

RunOp(p, c, o) ==
  LET r == p.op[o]
      d == Consult(c, o)
      case == IF Head(c.in) <= Len(r.regions) THEN Head(c.in) ELSE Len(r.regions)
  IN CASE r.k = "op"     -> [c EXCEPT !.out = Append(@, o)]
       [] r.k = "assign" -> [c EXCEPT !.env = (r.var :> r.val) @@ @]
       [] r.k = "retval" -> [c EXCEPT !.res = r.val]
       [] r.k = "ret"    -> [c EXCEPT !.st = "ret", !.res = o]
       [] r.k \in {"brk", "cnt"} -> [c EXCEPT !.st = r.k]
       [] r.k = "scope"  -> RunBlock(p, c, r.regions[1])
       [] r.k = "guard"  -> IF Holds(c, r.var) THEN RunBlock(p, c, r.regions[1]) ELSE c
       [] r.k = "branch" -> IF d.st = "stop" \/ (~r.val /\ Head(c.in) > Len(r.regions))
                            THEN d ELSE RunBlock(p, d, r.regions[case])
       [] r.k = "for"    -> RunLoop(p, c, o, 0)
       [] r.k = "forin"  -> IF d.st = "stop" THEN d ELSE RunLoop(p, d, o, Head(c.in))
       [] r.k = "end"    -> c

\* What an observer sees of the run on `in`: what was executed, whether the run
\* came to an end, and the value it returned.
Observed(p, in) ==
  LET c == RunBlock(p, Running(in), p.root)
  IN [out |-> c.out, stopped |-> c.st = "stop",
      res |-> IF p.valued /\ c.st # "stop" THEN c.res ELSE 0]

-----------------------------------------------------------------------------
(* What it has to do still                                                  *)

\* The loops of src that `o` is nested in.
LoopsOf(o) == {l \in Enclosing(src, o) \ {o} : IsLoop(src, l)}
InnermostLoop(o, l) == l \in LoopsOf(o) /\ \A m \in LoopsOf(o) : m \in Enclosing(src, l)

\* A `return` leaves a loop, nested in another loop that a `break` or a
\* `continue` of its own guards.
ReturnsPastGuards ==
  \E r \in OpsIn(src) :
    /\ src.op[r].k = "ret"
    /\ \E l \in LoopsOf(r) :
         /\ ~InnermostLoop(r, l)
         /\ \E x \in OpsIn(src) : src.op[x].k \in {"brk", "cnt"} /\ InnermostLoop(x, l)

\* The rewritten body does what the body did: on every input it evaluates and
\* executes the same, in the same order, and returns the same value.
SameBehaviour ==
  phase = "done" =>
    \A in \in Inputs : Observed(ir, in) = Observed(src, in)

\* The pass preserves what a body does, unless a `return` has to pass the
\* guards of an outer loop on its way out.
Preserves == phase = "done" /\ ~ReturnsPastGuards => SameBehaviour

=============================================================================
