---------------------------- MODULE StructuredCode ----------------------------
(***************************************************************************)
(* The body of a P4HIR function as the structured-control-flow passes see  *)
(* it: blocks of operations, operations with regions of one block each,    *)
(* and the edits a rewriter makes.                                         *)
(*                                                                         *)
(* A body is [op, block, root, valued]: `op` and `block` are sequences, an *)
(* operation or block is its index, and so a new one is appended.  `block` *)
(* lists the operations of a block, the last one its terminator.           *)
(***************************************************************************)
EXTENDS Positions, Sequences, FiniteSetsExt, SequencesExt, TLC

\* An IfOp and a SwitchOp are both a "branch"; `val` tells whether one of its
\* regions always runs (there is an else region, a default case).  A "for"
\* has its condition and updates in itself, guarded by `var` once there is one.
Kind == {"op", "ret", "brk", "cnt", "scope", "branch", "for", "forin", "end",
         "assign", "retval", "guard"}

NoVar == 0

Make(k, regions, var, val) ==
  [k |-> k, regions |-> regions, var |-> var, val |-> val]

End == Make("end", <<>>, NoVar, FALSE)
Assign(v, b) == Make("assign", <<>>, v, b)

IsSoft(p, o) == p.op[o].k \in {"ret", "brk", "cnt"}
IsLoop(p, o) == p.op[o].k \in {"for", "forin"}

Body(p, o) == p.block[p.op[o].regions[1]]   \* of a loop

OpsIn(p) == UNION {Range(p.block[b]) : b \in DOMAIN p.block}
BlockOf(p, o) == CHOOSE b \in DOMAIN p.block : o \in Range(p.block[b])
IndexOf(p, o) == LET s == p.block[BlockOf(p, o)] IN CHOOSE i \in DOMAIN s : s[i] = o
NextNode(p, o) == p.block[BlockOf(p, o)][IndexOf(p, o) + 1]

\* The operations that hold block b; none holds the root.
Holders(p, b) == {o \in OpsIn(p) : b \in Range(p.op[o].regions)}

\* The operations `o` is nested in, itself included.
Enclosing(p, o) ==
  LET Up[x \in OpsIn(p)] == {x} \cup UNION {Up[h] : h \in Holders(p, BlockOf(p, x))}
  IN Up[o]

-----------------------------------------------------------------------------
(* What makes a body one                                                    *)

IsNode(n) ==
  /\ n = Make(n.k, n.regions, n.var, n.val)
  /\ n.k \in Kind
  /\ n.regions \in Seq(Nat)
  /\ n.var \in Nat
  /\ n.k = "branch" => n.val \in BOOLEAN

\* The sequence s can be a block: every operation once, and one terminator.
IsBlock(p, s) ==
  /\ s \in Seq(DOMAIN p.op)
  /\ IsInjective(s)
  /\ \A i \in DOMAIN s : p.op[s[i]].k = "end" <=> i = Len(s)

\* An operation is in one block at most, and a block is a region of one
\* operation at most.
IsCode(p) ==
  /\ p = [op |-> p.op, block |-> p.block, root |-> p.root, valued |-> p.valued]
  /\ p.op \in Seq(Range(p.op)) /\ p.block \in Seq(Range(p.block))
  /\ p.root \in DOMAIN p.block
  /\ \A o \in DOMAIN p.op : IsNode(p.op[o])
  /\ \A b \in DOMAIN p.block : IsBlock(p, p.block[b])
  /\ \A b, c \in DOMAIN p.block :
       b # c => Range(p.block[b]) \cap Range(p.block[c]) = {}
  /\ \A o \in OpsIn(p) :
       /\ IsInjective(p.op[o].regions)
       /\ Range(p.op[o].regions) \subseteq (DOMAIN p.block) \ {p.root}
  /\ \A o, x \in OpsIn(p) :
       o # x => Range(p.op[o].regions) \cap Range(p.op[x].regions) = {}

\* What the translation makes.  Its bodies have no guards.
IsSourceNode(n) ==
  /\ n.k \notin {"assign", "retval", "guard"}
  /\ n.k \in {"op", "ret", "brk", "cnt", "end"} => n.regions = <<>>
  /\ n.k \in {"scope", "for", "forin"} => Len(n.regions) = 1
  /\ n.k = "branch" /\ n.val => n.regions # <<>>

\* A body as a pass may find it; blocks are numbered from the inside out.
IsBody(p) ==
  /\ IsCode(p)
  /\ \A o \in OpsIn(p) : IsSourceNode(p.op[o])
  /\ \A b \in DOMAIN p.block :
       /\ p.block[b] # <<>>
       /\ b # p.root => Holders(p, b) # {}
       /\ \A o \in Range(p.block[b]) : \A r \in Range(p.op[o].regions) : r < b

-----------------------------------------------------------------------------
(* The edits of mlir::RewriterBase                                          *)

\* New operations, in front of `at`.
Emit(p, at, ops) ==
  LET n == Len(p.op)
      i == IndexOf(p, at)
  IN [p EXCEPT !.op = @ \o ops,
               !.block[BlockOf(p, at)] =
                 SubSeq(@, 1, i - 1) \o [j \in 1..Len(ops) |-> n + j]
                   \o SubSeq(@, i, Len(@))]

\* The rest of s without the members of S.
Without(s, S) ==
  LET stay == Staying(Len(s), {i \in DOMAIN s : s[i] \in S})
  IN [i \in DOMAIN stay |-> s[stay[i]]]

Erase(p, S) == [p EXCEPT !.block = [b \in DOMAIN @ |-> Without(@[b], S)]]

MoveBefore(p, o, at) ==
  LET q == Erase(p, {o})
      i == IndexOf(q, at)
  IN [q EXCEPT !.block[BlockOf(q, at)] = InsertAt(@, i, o)]

AddBlock(p, ops) == [p EXCEPT !.block = Append(@, ops)]

\* An empty block: nothing but a terminator, the youngest operation.
AddEmptyBlock(p) ==
  AddBlock([p EXCEPT !.op = Append(@, End)], <<Len(p.op) + 1>>)

=============================================================================
