---------------------------- MODULE MCRemoveSoftCF ----------------------------
(***************************************************************************)
(* Bodies of four shapes with holes, the holes filled with a plain         *)
(* operation or a soft control flow operation: branches without a loop, a  *)
(* loop in a loop, a loop around a switch, and three loops with a scope.   *)
(***************************************************************************)
EXTENDS RemoveSoftCFProperties

\* Bodies as trees; Flat lays one out.
Node(k, regions, val) == [k |-> k, regions |-> regions, val |-> val]
Leaf(k) == Node(k, <<>>, FALSE)
If(then) == Node("branch", <<then>>, FALSE)
IfElse(then, else) == Node("branch", <<then, else>>, TRUE)
Scope(body) == Node("scope", <<body>>, FALSE)

RECURSIVE LayOut(_, _)
LayOut(p, body) ==
  LET Region(acc, b) == LET q == LayOut(acc.p, b)
                        IN [p |-> q, ids |-> Append(acc.ids, Len(q.block))]
      Operation(acc, n) ==
        LET r == FoldLeft(Region, [p |-> acc.p, ids |-> <<>>], n.regions)
            o == Make(n.k, r.ids, NoVar, n.val)
        IN [p |-> [r.p EXCEPT !.op = Append(@, o)],
            ids |-> Append(acc.ids, Len(r.p.op) + 1)]
      all == FoldLeft(Operation, [p |-> p, ids |-> <<>>], body)
  IN AddBlock([all.p EXCEPT !.op = Append(@, End)], Append(all.ids, Len(all.p.op) + 1))

Flat(body, valued) ==
  LET p == LayOut([op |-> <<>>, block |-> <<>>, root |-> 0, valued |-> valued], body)
  IN [p EXCEPT !.root = Len(p.block)]

Op == Leaf("op")
Soft == {Leaf(k) : k \in {"op", "ret", "brk", "cnt"}}
Exits == {Leaf("op"), Leaf("ret")}
Loops == {"for", "forin"}

Branches ==
  {Flat(<<If(<<h, Op>>), IfElse(<<i, Op>>, <<j>>), Scope(<<If(<<k>>), Op>>), Op,
          Leaf("ret")>>, TRUE) : h, i, j, k \in Exits}

NestedLoops ==
  {Flat(<<Node(a, <<<<If(<<h>>), Op, Node(b, <<<<IfElse(<<i>>, <<j>>), Op>>>>, FALSE),
                     Op>>>>, FALSE), Op, Leaf("ret")>>, TRUE) :
     a, b \in Loops, h, i \in Soft, j \in {Leaf("op"), Leaf("ret")}}

Switches ==
  {Flat(<<Node(a, <<<<Node("branch", <<<<h>>, <<i>>, <<j>>>>, d), Op>>>>, FALSE), Op>>, FALSE) :
     a \in Loops, h, i, j \in Soft, d \in BOOLEAN}

Deep ==
  {Flat(<<Node(a, <<<<Scope(<<If(<<h>>), Op>>),
                     Node("for", <<<<If(<<i>>), Node("forin", <<<<If(<<j>>), Op>>>>, FALSE),
                                     Op>>>>, FALSE), Op>>>>, FALSE), Leaf("ret")>>, TRUE) :
     a \in Loops, h, i, j \in Soft}

MCPrograms == Branches \cup NestedLoops \cup Switches \cup Deep

MCInputs == [1..6 -> 1..2] \cup [1..4 -> 1..3]

=============================================================================
