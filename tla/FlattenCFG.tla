------------------------------- MODULE FlattenCFG -------------------------------
(***************************************************************************)
(* FlattenCFG (lib/Transforms/FlattenCFG.cpp): a conditional or a scope    *)
(* becomes blocks of the region it is in.                                  *)
(***************************************************************************)
EXTENDS HirCode

\* Bug: scopes are left alone.
ToFlattenIfs(c) == {o \in OpsIn(c) : c.op[o].k = "if"}

ToFlatten(c) == {o \in OpsIn(c) : c.op[o].k \in {"if", "scope"}}

\* The region that block b is in, with `new` in place of b.
SpliceBlocks(c, b, new) ==
  LET Spliced(r) == FlattenSeq([i \in DOMAIN r |-> IF r[i] = b THEN new ELSE <<r[i]>>])
  IN [c EXCEPT !.root = Spliced(@),
               !.op = [o \in DOMAIN @ |->
                         [@[o] EXCEPT !.regions = [r \in DOMAIN @ |-> Spliced(@[r])]]]]

\* The block of o split in front of it: `rest` takes what follows o.
SplitAt(c, o, rest) ==
  LET b == BlockOf(c, o)
      i == IndexOf(c, o)
  IN [c EXCEPT !.block[rest] = SubSeq(c.block[b], i + 1, Len(c.block[b])),
               !.block[b] = SubSeq(@, 1, i - 1)]

\* Bug: what the regions yielded is not handed over.
BranchOutDry(c, region, b) ==
  [c EXCEPT !.op[Last(c.block[Last(region)])] = BrOp(b, <<>>)]

\* The last block of a region branches to b with what it yielded.
BranchOut(c, region, b) ==
  LET y == Last(c.block[Last(region)])
  IN [c EXCEPT !.op[y] = BrOp(b, @.args)]

\* The result of o becomes the argument of block b, if it has one.
ResultArgument(c, o, b) ==
  IF c.op[o].ty = Void THEN c
  ELSE LET arg == Len(c.op) + 1
       IN ReplaceUses([c EXCEPT !.op = Append(@, ArgOp(c.op[o].ty)), !.block[b] = <<arg>> \o @],
                      o, arg)

\* The results of a conditional are the arguments of a block of its own, which
\* branches to what follows.
FlattenIf(c, o) ==
  LET b == BlockOf(c, o)
      then == c.op[o].regions[1]
      else == c.op[o].regions[2]
      rest == Len(c.block) + 1
      join == IF c.op[o].ty = Void THEN rest ELSE rest + 1
      split == SplitAt(AddBlock(c), o, rest)
      joined == IF join = rest THEN split
                ELSE AddOp(AddBlock(split), join, BrOp(rest, <<>>))
      out == BranchOut(joined, then, join)
      out2 == IF else = <<>> THEN out ELSE BranchOut(out, else, join)
      test == AddOp(out2, b, CondBrOp(c.op[o].args[1], then[1],
                                      IF else = <<>> THEN join ELSE else[1]))
      moved == [test EXCEPT !.op[o].regions = <<>>]
      all == <<b>> \o then \o else \o (IF join = rest THEN <<>> ELSE <<join>>) \o <<rest>>
  IN ResultArgument(SpliceBlocks(moved, b, all), o, join)

\* A scope that only yields is removed.
FlattenScope(c, o) ==
  LET b == BlockOf(c, o)
      body == c.op[o].regions[1]
      after == Len(c.block) + 1
      split == SplitAt(AddBlock(c), o, after)
      enter == AddOp(split, b, BrOp(body[1], <<>>))
      out == BranchOut(enter, body, after)
      moved == [out EXCEPT !.op[o].regions = <<>>]
  IN IF Len(body) = 1 /\ c.op[Head(c.block[body[1]])].k = "yield" THEN EraseOps(c, {o})
     ELSE ResultArgument(SpliceBlocks(moved, b, <<b>> \o body \o <<after>>), o, after)

Flattened(c, o) == Renumbered(IF c.op[o].k = "if" THEN FlattenIf(c, o) ELSE FlattenScope(c, o))

=============================================================================
