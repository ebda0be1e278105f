--------------------------- MODULE MCCopyElimination ---------------------------
(***************************************************************************)
(* Calls with two arguments out of six places, of every direction; with an *)
(* argument that is itself a call; with bits of a variable; in an action,  *)
(* where control locals are named by symbols; and of actions that capture  *)
(* a control local.  A callee makes two assignments (one, in a call inside *)
(* a call): enough to write both parameters, or one from the other.        *)
(***************************************************************************)
EXTENDS CopyElimination

CONSTANTS hdr, local, first, second, other

MCFields == [r \in {hdr, local, first, second, other} |-> IF r = hdr THEN {"x", "y"} ELSE {"v"}]
MCParams == {first, second}

\* What a call can name: a struct, its fields, a variable, two parameters.
Places == {Whole(hdr), Ref(hdr, "x"), Ref(hdr, "y"), Whole(local), Whole(first), Whole(second)}
FewPlaces == {Whole(hdr), Ref(hdr, "x"), Whole(local), Whole(first)}

Arg(d, r) == [dir |-> d, ref |-> r, slice |-> FALSE]
Args(places) == {Arg(d, r) : d \in {"in", "out", "inout"}, r \in places}

\* A body writes every out parameter, and not later than it reads it.
Proper(args, body) ==
  \A i \in DOMAIN args : args[i].dir = "out" =>
    \E n \in DOMAIN body :
      body[n].dst = i /\ \A m \in 1..n : body[m].src # i

Callees(args, captured, steps) ==
  {b \in [1..steps -> [dst : {i \in DOMAIN args : args[i].dir # "in"} \cup captured,
                       src : (DOMAIN args) \cup captured \cup {Const}]] : Proper(args, b)}

\* The calls with these arguments of callees with that many steps.
CallsOf(argss, captured, sym, steps) ==
  UNION {{[args |-> args, callee |-> b, sym |-> sym] : b \in Callees(args, captured, steps)} :
         args \in argss}

Pairs(A, B) == {<<a, b>> : a \in A, b \in B}

Inner == {[dir |-> "in", inner |-> c] :
            c \in CallsOf({<<a>> : a \in {b \in Args(FewPlaces) : HasOut(b)}}, {}, {}, 1)}
Slices == {[a EXCEPT !.slice = TRUE] : a \in Args({Ref(hdr, "x")})}

MCCalls ==
  CallsOf(Pairs(Args(Places), Args(Places)), {}, {}, 2)
    \cup CallsOf(Pairs(Args(FewPlaces), Inner) \cup Pairs(Inner, Args(FewPlaces)), {}, {}, 2)
    \cup CallsOf(Pairs(Slices, Args({Whole(hdr), Ref(hdr, "y")})), {}, {}, 2)
    \cup CallsOf(Pairs(Args({Whole(hdr), Ref(hdr, "x"), Whole(first)}), Args({Whole(local), Ref(hdr, "y")})),
                 {}, {hdr, local}, 2)
    \cup CallsOf({<<a>> : a \in Args(FewPlaces)}, {other}, {}, 2)

\* The captured variable is one the call names, too.
CapturedCalls == CallsOf({<<a>> : a \in Args(FewPlaces)}, {local}, {}, 2)

=============================================================================
