-------------------------------- MODULE HirCode --------------------------------
(***************************************************************************)
(* A P4HIR function body as MLIR keeps it: operations in blocks, blocks in *)
(* regions of operations, every value the one result of an operation.      *)
(*                                                                         *)
(* A body is [op, block, root]: `op` is the sequence of operations, and a  *)
(* value is the index of the operation that defines it; `block` is the     *)
(* sequence of blocks, each the sequence of its operations; `root` is the  *)
(* region of the body, the sequence of its blocks.  The arguments of a     *)
(* block are operations of their own ("arg") at its head.                  *)
(***************************************************************************)
EXTENDS HirTypes

Op(k) == [k |-> k, sub |-> "", args |-> <<>>, ty |-> Void, attr |-> None, idx |-> <<>>,
          regions |-> <<>>, succ |-> <<>>]

ArgOp(t) == [Op("arg") EXCEPT !.ty = t]
ConstOp(a) == [Op("const") EXCEPT !.ty = a.ty, !.attr = a]
Unary(k, args, t) == [Op(k) EXCEPT !.args = args, !.ty = t]
CastOp(t, v) == Unary("cast", <<v>>, t)
Kinded(k, sub, args, t) == [Unary(k, args, t) EXCEPT !.sub = sub]
Indexed(k, args, idx, t) == [Unary(k, args, t) EXCEPT !.idx = idx]
Nested(k, args, t, regions) == [Unary(k, args, t) EXCEPT !.regions = regions]
BrOp(b, args) == [Op("br") EXCEPT !.args = args, !.succ = <<b>>]
CondBrOp(c, t, f) == [Op("cond_br") EXCEPT !.args = <<c>>, !.succ = <<t, f>>]

Terminators == {"yield", "condition", "br", "cond_br", "return"}

\* What Pure says of an operation; a read has a read effect only.
PureOps ==
  {"const", "cast", "unary", "binop", "concat", "shl", "shr", "cmp", "struct",
   "struct_extract", "struct_field_ref", "tuple", "tuple_extract", "slice", "read_slice",
   "array", "array_get", "array_element_ref", "read"}

\* The blocks of the regions of an operation.
BlocksOf(c, o) == FlattenSeq(c.op[o].regions)

OpsIn(c) == UNION {Range(c.block[b]) : b \in DOMAIN c.block}
BlockOf(c, o) == CHOOSE b \in DOMAIN c.block : o \in Range(c.block[b])
IndexOf(c, o) == PositionOf(c.block[BlockOf(c, o)], o)
IsBefore(c, o, u) == BlockOf(c, o) = BlockOf(c, u) /\ IndexOf(c, o) < IndexOf(c, u)

Users(c, v) == {o \in OpsIn(c) : v \in Range(c.op[o].args)}
HasOneUse(c, v) ==
  LET users == Users(c, v)
  IN /\ Cardinality(users) = 1
     /\ \A u \in users : Cardinality({n \in DOMAIN c.op[u].args : c.op[u].args[n] = v}) = 1

\* The operation whose region block b is in; none for a block of the root.
Parent(c, b) == {o \in OpsIn(c) : b \in Range(BlocksOf(c, o))}

-----------------------------------------------------------------------------
(* The edits of a builder and of a rewriter                                 *)

AddOp(c, b, op) ==
  [c EXCEPT !.op = Append(@, op), !.block[b] = Append(@, Len(c.op) + 1)]

AddBlock(c) == [c EXCEPT !.block = Append(@, <<>>)]

\* New operations, in front of `at`.
InsertOps(c, at, ops) ==
  LET new == [j \in DOMAIN ops |-> Len(c.op) + j]
      i == IndexOf(c, at)
  IN [c EXCEPT !.op = @ \o ops,
               !.block[BlockOf(c, at)] = SubSeq(@, 1, i - 1) \o new \o SubSeq(@, i, Len(@))]

EraseOps(c, S) ==
  [c EXCEPT !.block = [b \in DOMAIN @ |-> SelectSeq(@[b], LAMBDA o : o \notin S)]]

ReplaceUses(c, old, new) ==
  [c EXCEPT !.op = [o \in DOMAIN @ |->
     [@[o] EXCEPT !.args = [n \in DOMAIN @ |-> IF @[n] = old THEN new ELSE @[n]]]]]

\* Bug: the uses of what was replaced are left.
ReplaceOpOnly(c, o, v) == EraseOps(c, {o})

ReplaceOp(c, o, v) == EraseOps(ReplaceUses(c, o, v), {o})

-----------------------------------------------------------------------------
(* One name for one body: the blocks and the operations reached from the    *)
(* root, numbered as they are met.                                          *)

RECURSIVE BlocksUnder(_, _)
BlocksUnder(c, region) ==
  FlattenSeq([i \in DOMAIN region |->
    <<region[i]>> \o
      FlattenSeq([n \in DOMAIN c.block[region[i]] |->
                    BlocksUnder(c, BlocksOf(c, c.block[region[i]][n]))])])

Renumbered(c) ==
  LET blocks == BlocksUnder(c, c.root)
      ops == FlattenSeq([i \in DOMAIN blocks |-> c.block[blocks[i]]])
      BlockNo == [b \in Range(blocks) |-> PositionOf(blocks, b)]
      OpNo == [o \in Range(ops) |-> PositionOf(ops, o)]
      Values(s) == [n \in DOMAIN s |-> IF s[n] \in DOMAIN OpNo THEN OpNo[s[n]] ELSE 0]
      Targets(s) == [n \in DOMAIN s |-> BlockNo[s[n]]]
  IN [op |-> [i \in DOMAIN ops |->
                [c.op[ops[i]] EXCEPT
                   !.args = Values(@), !.succ = Targets(@),
                   !.regions = [r \in DOMAIN @ |-> Targets(@[r])]]],
      block |-> [i \in DOMAIN blocks |-> Values(c.block[blocks[i]])],
      root |-> Targets(c.root)]

=============================================================================
