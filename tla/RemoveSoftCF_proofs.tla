-------------------------- MODULE RemoveSoftCF_proofs --------------------------
(***************************************************************************)
(* For every set of bodies: the code the visitor makes is well formed at   *)
(* every step, the insertion points it holds on to exist, and it reaches   *)
(* every soft control flow operation it does not erase.                    *)
(*                                                                         *)
(* The argument is about the set U of the blocks the visitor has yet to    *)
(* open: code there is still as the pass found it, and each of its blocks  *)
(* is a region of an operation that is still to be visited (it is in U,    *)
(* in the rest of an active block, or the current one) or has been only in *)
(* part.  The predicates below are about some code p, the active calls fs  *)
(* of visitBlock, and the operations X taken out of the rest of their      *)
(* block and not dealt with yet.                                           *)
(***************************************************************************)
EXTENDS RemoveSoftCF, StructuredCode_proofs

InfoSet ==
  [cf : SUBSET {"ret", "brk", "cnt"}, et : {"next", "nested", "multiple", "none"}, ep : Nat]

GuardSet == [ret : Nat, brk : Nat, cnt : Nat]

Frame ==
  [b : Nat, todo : Seq(Nat), info : InfoSet, op : Nat, rest : Seq(Nat),
   got : Seq(InfoSet), saved : GuardSet]

AreVariables(p, g) == {g.ret, g.brk, g.cnt} \subseteq {NoVar} \cup DOMAIN p.op

-----------------------------------------------------------------------------
(* What is left to visit *)

Todo(fs) == UNION {Range(fs[n].todo) : n \in DOMAIN fs}

Pending(p, U, fs, X) ==
  (UNION {Range(p.block[b]) : b \in U}) \cup Todo(fs) \cup X

IsAssign(n) == n.k = "assign" /\ n.regions = <<>>

\* Code to visit is code of the source, but for the guard that starts an
\* iteration.
InvSource(p, U, fs, X) ==
  /\ \A c \in U : \A o \in Range(p.block[c]) :
       IsSourceNode(p.op[o]) /\ \A r \in Regions(p, o) : r < c
  /\ \A n \in DOMAIN fs : \A i \in DOMAIN fs[n].todo :
       \/ IsSourceNode(p.op[fs[n].todo[i]])
       \/ i = 1 /\ n = Len(fs) /\ X = {} /\ IsAssign(p.op[fs[n].todo[i]])
  /\ \A o \in X : /\ p.op[o].k # "end" /\ (IsSourceNode(p.op[o]) \/ IsAssign(p.op[o]))
                  /\ o \notin Todo(fs) /\ \A c \in U : o \notin Range(p.block[c])

\* The operations whose regions the first l calls are visiting.
AreActive(p, U, fs, X, l) ==
  /\ \A n \in 1..l :
       /\ fs[n].op \in OpsIn(p) \ Pending(p, U, fs, X)
       /\ p.op[fs[n].op].k \in {"scope", "branch", "for", "forin"}
       /\ IsInjective(fs[n].rest)
       /\ Range(fs[n].rest) \subseteq U \cap Regions(p, fs[n].op)
       /\ IsLoop(p, fs[n].op) => Len(p.op[fs[n].op].regions) = 1
       /\ fs[n].info.et \in {"next", "nested"}
  /\ \A m, n \in 1..l : fs[m].op = fs[n].op => m = n

Nested(p, fs) == \A n \in 1..Len(fs) - 1 : fs[n + 1].b \in Regions(p, fs[n].op)

InvActive(p, U, fs, X) == AreActive(p, U, fs, X, Len(fs) - 1) /\ Nested(p, fs)

\* What has been opened leads to what has not through pending operations, and
\* through those the first l calls are visiting.
LeadsTo(p, U, fs, X, l) ==
  /\ U \subseteq (DOMAIN p.block) \ {p.root}
  /\ Pending(p, U, fs, X) \subseteq OpsIn(p)
  /\ \A o \in Pending(p, U, fs, X) : Regions(p, o) \subseteq U
  /\ \A b \in U :
       /\ p.block[b] # <<>>
       /\ \E o \in OpsIn(p) :
            /\ b \in Regions(p, o)
            /\ \/ o \in Pending(p, U, fs, X)
               \/ \E n \in 1..l : o = fs[n].op /\ b \in Range(fs[n].rest)
  /\ \A o \in OpsIn(p) : IsSoft(p, o) => o \in Pending(p, U, fs, X)

InvPending(p, U, fs, X) == LeadsTo(p, U, fs, X, Len(fs) - 1)

-----------------------------------------------------------------------------
(* Where things are *)

\* The rest of the block of f, with its terminator.
Rem(p, f) == Append(f.todo, Last(p.block[f.b]))

AtRest(p, f, e) == e = Head(Rem(p, f))

Opening(fs) == {fs[n].b : n \in DOMAIN fs}

\* e ends a block that has been visited.
Nestable(p, U, fs, e) ==
  \E c \in (DOMAIN p.block) \ (U \cup Opening(fs)) :
    p.block[c] # <<>> /\ e = Last(p.block[c])

\* Where an info says execution continues, in the code and in its frame.
IsPoint(p, U, fs, f, i) ==
  /\ i.et = "next" => AtRest(p, f, i.ep)
  /\ i.et = "multiple" => AtRest(p, f, i.ep) \/ Nestable(p, U, fs, i.ep)
  /\ i.et = "nested" => Nestable(p, U, fs, i.ep)

InvPlaces(p, U, fs) ==
  /\ \A n \in DOMAIN fs :
       /\ fs[n].b \in (DOMAIN p.block) \ U
       /\ p.block[fs[n].b] # <<>>
       /\ EndsIn(p.block[fs[n].b], Rem(p, fs[n]))
       /\ IsPoint(p, U, fs, fs[n], fs[n].info)
       /\ \A g \in Range(fs[n].got) :
            g.et \in {"next", "nested"} => Nestable(p, U, fs, g.ep)
  /\ \A m, n \in DOMAIN fs : fs[m].b = fs[n].b => m = n

\* What has been opened hangs together: there are no cycles in it.
Grounded(p, U) ==
  \A S \in SUBSET ((DOMAIN p.block) \ U) : S # {} =>
    \E b \in S : \A c \in S : \A o \in Range(p.block[c]) : b \notin Regions(p, o)

InvFrames(p, fs) ==
  /\ fs \in Seq(Frame)
  /\ fs # <<>>
  /\ \A n \in DOMAIN fs : AreVariables(p, fs[n].saved)

Inv(p, U, fs, X) ==
  /\ IsCode(p)
  /\ InvFrames(p, fs)
  /\ InvSource(p, U, fs, X)
  /\ InvActive(p, U, fs, X)
  /\ InvPending(p, U, fs, X)
  /\ InvPlaces(p, U, fs)
  /\ Grounded(p, U)

\* The same between two regions of the operation the last call is visiting.
Between(p, U, fs) ==
  /\ IsCode(p)
  /\ InvFrames(p, fs)
  /\ InvSource(p, U, fs, {})
  /\ \A i \in DOMAIN fs[Len(fs)].todo : IsSourceNode(p.op[fs[Len(fs)].todo[i]])
  /\ AreActive(p, U, fs, {}, Len(fs)) /\ Nested(p, fs)
  /\ LeadsTo(p, U, fs, {}, Len(fs))
  /\ InvPlaces(p, U, fs)
  /\ Grounded(p, U)

InvPhase ==
  /\ phase \in {"start", "visit", "done"}
  /\ guards \in GuardSet
  /\ phase = "start" => IsBody(ir) /\ guards = NoGuards /\ frames = <<>>
  /\ phase = "visit" => Last(frames).op = 0 /\ \E U \in SUBSET Nat : Inv(ir, U, frames, {})
  /\ phase = "done" => IsCode(ir) /\ ~HasSoftCF(ir) /\ frames = <<>>

IInv == TypeOK /\ InvPhase

-----------------------------------------------------------------------------
(* What an edit must not touch *)

SameNode(m, n) == m.k = n.k /\ m.regions = n.regions /\ m.val = n.val

\* An edit of p that may erase, of the operations X, those not in Y.
Edited(p, q, U, fs, X, Y) ==
  /\ IsCode(q) /\ q.root = p.root /\ Grounded(q, U)
  /\ DOMAIN p.op \subseteq DOMAIN q.op /\ DOMAIN p.block \subseteq DOMAIN q.block
  /\ \A o \in DOMAIN p.op : SameNode(p.op[o], q.op[o])
  /\ \A c \in U : Range(q.block[c]) = Range(p.block[c])
  /\ \A o \in OpsIn(q) \ OpsIn(p) : ~IsSoft(q, o)
  /\ \A o \in OpsIn(p) \ OpsIn(q) :
       o \notin Pending(p, U, fs, Y) /\ \A n \in 1..Len(fs) - 1 : o # fs[n].op
  /\ Y \subseteq X
  /\ \A o \in X \ Y : Regions(p, o) = {} /\ (IsSoft(p, o) => o \notin OpsIn(q))
  /\ \A n \in DOMAIN fs : EndsIn(q.block[fs[n].b], Rem(p, fs[n]))
  /\ \A c \in (DOMAIN p.block) \ (U \cup Opening(fs)) :
       p.block[c] # <<>> => q.block[c] # <<>> /\ Last(q.block[c]) = Last(p.block[c])

\* What a call has yet to visit is its todo list and the terminator.
LEMMA RemFacts ==
  ASSUME NEW p, HasBlocks(p), NEW f \in Frame, f.b \in DOMAIN p.block, p.block[f.b] # <<>>
  PROVE  /\ Rem(p, f) \in Seq(Nat) /\ Rem(p, f) # <<>> /\ Len(Rem(p, f)) = Len(f.todo) + 1
         /\ Last(Rem(p, f)) = Last(p.block[f.b])
         /\ Range(Rem(p, f)) = Range(f.todo) \cup {Last(p.block[f.b])}
         /\ f.todo # <<>> => Head(Rem(p, f)) = Head(f.todo)
         /\ f.todo = <<>> => Head(Rem(p, f)) = Last(p.block[f.b])
<1> DEFINE z == Last(p.block[f.b])
<1>1. f.todo \in Seq(Nat) /\ z \in Nat
  <2>1. p.block[f.b] \in Seq(Nat)
    BY BlockFacts
  <2> QED BY <2>1, RangeFacts, SMTT(60) DEF Frame
<1>2. PICK t \in Seq(Nat) : t = f.todo
  BY <1>1
<1> HIDE DEF z
<1>3. /\ Append(t, z) \in Seq(Nat) /\ Len(Append(t, z)) = Len(t) + 1
      /\ \A i \in 1..Len(t) : Append(t, z)[i] = t[i]
      /\ Append(t, z)[Len(t) + 1] = z
  BY <1>1
<1>4. Len(t) \in Nat /\ DOMAIN t = 1..Len(t) /\ DOMAIN Append(t, z) = 1..Len(t) + 1
  BY <1>3
<1>5. Range(Append(t, z)) = Range(t) \cup {z}
  <2>1. \A i \in 1..Len(t) + 1 : i \in 1..Len(t) \/ i = Len(t) + 1
    BY <1>4
  <2>2. Len(t) + 1 \in 1..Len(t) + 1 /\ \A i \in 1..Len(t) : i \in 1..Len(t) + 1
    BY <1>4
  <2> QED BY <2>1, <2>2, <1>3, <1>4 DEF Range
<1>6. Append(t, z) # <<>> /\ Last(Append(t, z)) = z
  BY <1>3, <1>4 DEF Last
<1>7. t # <<>> => Head(Append(t, z)) = Head(t)
  <2>1. t # <<>> => 1 \in 1..Len(t)
    BY <1>4
  <2> QED BY <2>1, <1>3, <1>6
<1>8. t = <<>> => Head(Append(t, z)) = z
  BY <1>1
<1> QED BY <1>2, <1>3, <1>5, <1>6, <1>7, <1>8 DEF Rem, z

\* An edit that Edited allows keeps the invariant: this is where each rewrite of
\* the visitor meets it.
LEMMA EditStep ==
  ASSUME NEW p, NEW q, NEW U, NEW fs, NEW X, NEW Y,
         Inv(p, U, fs, X), Edited(p, q, U, fs, X, Y)
  PROVE  Inv(q, U, fs, Y)
<1>1. /\ HasBlocks(p) /\ HasRegions(p) /\ HasBlocks(q) /\ HasRegions(q)
      /\ InvFrames(p, fs) /\ InvSource(p, U, fs, X) /\ InvActive(p, U, fs, X)
      /\ InvPending(p, U, fs, X) /\ InvPlaces(p, U, fs)
  BY CodeParts DEF Inv, Edited
<1>2. fs \in Seq(Frame) /\ fs # <<>> /\ DOMAIN fs = 1..Len(fs) /\ Len(fs) \in Nat
  BY <1>1 DEF InvFrames
<1>3. /\ OpsIn(p) \subseteq DOMAIN p.op /\ OpsIn(q) \subseteq DOMAIN q.op
      /\ DOMAIN p.op \subseteq DOMAIN q.op /\ DOMAIN p.block \subseteq DOMAIN q.block
      /\ \A o \in DOMAIN p.op : SameNode(p.op[o], q.op[o])
      /\ \A o \in DOMAIN p.op : Regions(p, o) = Regions(q, o)
      /\ \A c \in U : Range(q.block[c]) = Range(p.block[c])
      /\ U \subseteq DOMAIN p.block
  BY <1>1, CodeFacts DEF Edited, SameNode, Regions, InvPending, LeadsTo
<1>4. Pending(q, U, fs, Y) = Pending(p, U, fs, Y) /\ Pending(p, U, fs, Y) \subseteq Pending(p, U, fs, X)
  BY <1>3 DEF Pending, Edited
<1>5. Pending(p, U, fs, X) \subseteq DOMAIN p.op
  BY <1>1, <1>3 DEF InvPending, LeadsTo
<1>6. InvFrames(q, fs)
  BY <1>1, <1>3 DEF InvFrames, AreVariables
<1>7. InvSource(q, U, fs, Y)
  <2>1. \A o \in DOMAIN p.op : /\ IsSourceNode(p.op[o]) <=> IsSourceNode(q.op[o])
                               /\ IsAssign(p.op[o]) <=> IsAssign(q.op[o])
    BY <1>3 DEF SameNode, IsSourceNode, IsAssign
  <2>2. \A c \in U : Range(p.block[c]) \subseteq DOMAIN p.op
    BY <1>5 DEF Pending
  <2>3. \A n \in DOMAIN fs : \A i \in DOMAIN fs[n].todo : fs[n].todo[i] \in DOMAIN p.op
    BY <1>5 DEF Pending, Todo, Range
  <2>4. X \subseteq DOMAIN p.op
    BY <1>5 DEF Pending
  <2>5. Y \subseteq X
    BY DEF Edited
  <2>6. ASSUME NEW c \in U, NEW o \in Range(q.block[c])
        PROVE  IsSourceNode(q.op[o]) /\ \A r \in Regions(q, o) : r < c
    BY <2>1, <2>2, <1>3, <1>1 DEF InvSource
  <2>7. ASSUME NEW n \in DOMAIN fs, NEW i \in DOMAIN fs[n].todo
        PROVE  \/ IsSourceNode(q.op[fs[n].todo[i]])
               \/ i = 1 /\ n = Len(fs) /\ Y = {} /\ IsAssign(q.op[fs[n].todo[i]])
    BY <2>1, <2>3, <2>5, <1>1 DEF InvSource
  <2>8. ASSUME NEW o \in Y
        PROVE  /\ q.op[o].k # "end" /\ (IsSourceNode(q.op[o]) \/ IsAssign(q.op[o]))
               /\ o \notin Todo(fs) /\ \A c \in U : o \notin Range(q.block[c])
    BY <2>1, <2>4, <2>5, <1>1, <1>3 DEF InvSource, SameNode
  <2> QED BY <2>6, <2>7, <2>8 DEF InvSource
<1>8. InvActive(q, U, fs, Y)
  <2>1. ASSUME NEW n \in 1..Len(fs) - 1
        PROVE  /\ fs[n].op \in OpsIn(q) \ Pending(q, U, fs, Y)
               /\ q.op[fs[n].op].k \in {"scope", "branch", "for", "forin"}
               /\ IsInjective(fs[n].rest)
               /\ Range(fs[n].rest) \subseteq U \cap Regions(q, fs[n].op)
               /\ fs[n + 1].b \in Regions(q, fs[n].op)
               /\ IsLoop(q, fs[n].op) => Len(q.op[fs[n].op].regions) = 1
               /\ fs[n].info.et \in {"next", "nested"}
    <3>1. /\ fs[n].op \in OpsIn(p) \ Pending(p, U, fs, X)
          /\ p.op[fs[n].op].k \in {"scope", "branch", "for", "forin"}
          /\ IsInjective(fs[n].rest)
          /\ Range(fs[n].rest) \subseteq U \cap Regions(p, fs[n].op)
          /\ fs[n + 1].b \in Regions(p, fs[n].op)
          /\ IsLoop(p, fs[n].op) => Len(p.op[fs[n].op].regions) = 1
          /\ fs[n].info.et \in {"next", "nested"}
      BY <1>1 DEF InvActive, AreActive, Nested
    <3>2. fs[n].op \in OpsIn(q)
      BY <3>1 DEF Edited
    <3>3. fs[n].op \in DOMAIN p.op /\ SameNode(p.op[fs[n].op], q.op[fs[n].op])
      BY <3>1, <1>3
    <3>4. Regions(p, fs[n].op) = Regions(q, fs[n].op)
      BY <3>3, <1>3
    <3> QED BY <3>1, <3>2, <3>3, <3>4, <1>4 DEF SameNode, IsLoop
  <2>2. \A m, n \in 1..Len(fs) - 1 : fs[m].op = fs[n].op => m = n
    BY <1>1 DEF InvActive, AreActive, Nested
  <2> QED BY <2>1, <2>2 DEF InvActive, AreActive, Nested
<1>9. InvPending(q, U, fs, Y)
  <2>1. U \subseteq (DOMAIN q.block) \ {q.root}
    BY <1>1, <1>3 DEF InvPending, LeadsTo, Edited
  <2>2. Pending(q, U, fs, Y) \subseteq OpsIn(q)
    BY <1>1, <1>4 DEF InvPending, LeadsTo, Edited
  <2>3. \A o \in Pending(q, U, fs, Y) : Regions(q, o) \subseteq U
    BY <1>1, <1>3, <1>4, <1>5 DEF InvPending, LeadsTo
  <2>4. ASSUME NEW b \in U
        PROVE  /\ q.block[b] # <<>>
               /\ \E o \in OpsIn(q) :
                    /\ b \in Regions(q, o)
                    /\ \/ o \in Pending(q, U, fs, Y)
                       \/ \E n \in 1..Len(fs) - 1 : o = fs[n].op /\ b \in Range(fs[n].rest)
    <3>1. p.block[b] # <<>> /\ p.block[b] \in Seq(Nat) /\ q.block[b] \in Seq(Nat)
      BY <1>1, <1>3, BlockFacts DEF InvPending, LeadsTo
    <3>2. q.block[b] # <<>>
      <4>1. Last(p.block[b]) \in Range(q.block[b])
        BY <3>1, <1>3, RangeFacts
      <4> QED BY <4>1 DEF Range
    <3>3. PICK o \in OpsIn(p) :
            /\ b \in Regions(p, o)
            /\ \/ o \in Pending(p, U, fs, X)
               \/ \E n \in 1..Len(fs) - 1 : o = fs[n].op /\ b \in Range(fs[n].rest)
      BY <1>1 DEF InvPending, LeadsTo
    <3>4. b \in Regions(q, o)
      BY <3>3, <1>3
    <3>5. o \in Pending(p, U, fs, X) => o \in Pending(p, U, fs, Y)
      <4>1. o \notin X \ Y
        BY <3>3 DEF Edited
      <4> QED BY <4>1 DEF Pending
    <3>6. o \in OpsIn(q)
      BY <3>3, <3>5 DEF Edited
    <3> QED BY <3>2, <3>3, <3>4, <3>5, <3>6, <1>4
  <2>5. ASSUME NEW o \in OpsIn(q), IsSoft(q, o) PROVE o \in Pending(q, U, fs, Y)
    <3>1. o \in OpsIn(p)
      BY <2>5 DEF Edited
    <3>2. IsSoft(p, o)
      BY <2>5, <3>1, <1>3 DEF IsSoft, SameNode
    <3>3. o \in Pending(p, U, fs, X)
      BY <3>1, <3>2, <1>1 DEF InvPending, LeadsTo
    <3>4. o \notin X \ Y
      BY <3>2 DEF Edited
    <3> QED BY <3>3, <3>4, <1>4 DEF Pending
  <2> QED BY <2>1, <2>2, <2>3, <2>4, <2>5 DEF InvPending, LeadsTo
<1>10. InvPlaces(q, U, fs)
  <2>1. \A e : Nestable(p, U, fs, e) => Nestable(q, U, fs, e)
    BY <1>3 DEF Nestable, Edited
  <2>2. ASSUME NEW n \in DOMAIN fs
        PROVE  /\ fs[n].b \in (DOMAIN q.block) \ U
               /\ q.block[fs[n].b] # <<>>
               /\ Rem(q, fs[n]) = Rem(p, fs[n])
               /\ EndsIn(q.block[fs[n].b], Rem(q, fs[n]))
               /\ IsPoint(q, U, fs, fs[n], fs[n].info)
               /\ \A g \in Range(fs[n].got) :
                    g.et \in {"next", "nested"} => Nestable(q, U, fs, g.ep)
    <3>1. /\ fs[n] \in Frame /\ fs[n].b \in (DOMAIN p.block) \ U /\ p.block[fs[n].b] # <<>>
          /\ EndsIn(q.block[fs[n].b], Rem(p, fs[n]))
          /\ IsPoint(p, U, fs, fs[n], fs[n].info)
      BY <1>1, <1>2 DEF InvPlaces, Edited
    <3>2. /\ Rem(p, fs[n]) \in Seq(Nat) /\ Rem(p, fs[n]) # <<>>
          /\ Last(Rem(p, fs[n])) = Last(p.block[fs[n].b])
      BY <3>1, <1>1, RemFacts
    <3>3. q.block[fs[n].b] # <<>> /\ Last(q.block[fs[n].b]) = Last(p.block[fs[n].b])
      <4>1. PICK s, t : s = q.block[fs[n].b] /\ t = Rem(p, fs[n])
        OBVIOUS
      <4>2. s \in Seq(Nat) /\ t \in Seq(Nat) /\ t # <<>> /\ EndsIn(s, t)
        BY <4>1, <3>1, <3>2, <1>1, <1>3, BlockFacts
      <4>3. Len(s) \in Nat /\ Len(t) \in Nat /\ Len(t) >= 1 /\ Len(t) <= Len(s)
        BY <4>2 DEF EndsIn
      <4>4. t[Len(t)] = s[Len(s) - Len(t) + Len(t)] /\ Len(s) - Len(t) + Len(t) = Len(s)
        BY <4>2, <4>3 DEF EndsIn
      <4> QED BY <4>1, <4>2, <4>3, <4>4, <3>2 DEF Last
    <3>4. Rem(q, fs[n]) = Rem(p, fs[n])
      BY <3>3 DEF Rem
    <3>5. IsPoint(q, U, fs, fs[n], fs[n].info)
      BY <3>1, <3>4, <2>1 DEF IsPoint, AtRest
    <3> QED BY <3>1, <3>3, <3>4, <3>5, <2>1, <1>1, <1>3 DEF InvPlaces
  <2> QED BY <2>2, <1>1 DEF InvPlaces
<1> QED BY <1>6, <1>7, <1>8, <1>9, <1>10 DEF Inv, Edited

\* Edges into blocks that were there are old ones.
LEMMA GroundedKept ==
  ASSUME NEW p, NEW q, NEW U, Grounded(p, U), NEW N,
         DOMAIN q.block \subseteq DOMAIN p.block \cup {N},
         N \in (DOMAIN q.block) \ DOMAIN p.block
           => \A o \in Range(q.block[N]) : N \notin Regions(q, o),
         \A c \in (DOMAIN q.block) \ U : \A o \in Range(q.block[c]) : \A b \in Regions(q, o) :
           b \in (DOMAIN p.block) \ U =>
             c \in DOMAIN p.block /\ \E x \in Range(p.block[c]) : b \in Regions(p, x)
  PROVE  Grounded(q, U)
<1> SUFFICES ASSUME NEW S \in SUBSET ((DOMAIN q.block) \ U), S # {}
             PROVE  \E b \in S : \A c \in S : \A o \in Range(q.block[c]) : b \notin Regions(q, o)
  BY DEF Grounded
<1>1. CASE S \cap DOMAIN p.block = {}
  <2>1. S = {N} /\ N \in (DOMAIN q.block) \ DOMAIN p.block
    BY <1>1
  <2> QED BY <2>1
<1>2. CASE S \cap DOMAIN p.block # {}
  <2>1. PICK b \in S \cap DOMAIN p.block :
          \A c \in S \cap DOMAIN p.block : \A o \in Range(p.block[c]) : b \notin Regions(p, o)
    <3>1. S \cap DOMAIN p.block \in SUBSET ((DOMAIN p.block) \ U)
      OBVIOUS
    <3> QED BY <3>1, <1>2 DEF Grounded
  <2>2. \A c \in S : \A o \in Range(q.block[c]) : b \notin Regions(q, o)
    BY <2>1
  <2> QED BY <2>1, <2>2
<1> QED BY <1>1, <1>2

-----------------------------------------------------------------------------
(* The edits of the visitor, one by one *)

\* `at` is not behind the rest of a block.
AtVisited(p, U, fs, at) ==
  \E b \in (DOMAIN p.block) \ U :
    /\ at \in Range(p.block[b])
    /\ \A n \in DOMAIN fs :
         fs[n].b = b => IndexOf(p, at) <= Len(p.block[b]) - Len(Rem(p, fs[n])) + 1

\* What the steps need to know of an invariant.
LEMMA InvFacts ==
  ASSUME NEW p, NEW U, NEW fs, NEW X, Inv(p, U, fs, X)
  PROVE  /\ HasBlocks(p) /\ HasRegions(p)
         /\ fs \in Seq(Frame) /\ fs # <<>> /\ Len(fs) \in Nat /\ Len(fs) >= 1
         /\ DOMAIN fs = 1..Len(fs)
         /\ U \subseteq (DOMAIN p.block) \ {p.root}
         /\ OpsIn(p) \subseteq DOMAIN p.op
         /\ Pending(p, U, fs, X) \subseteq OpsIn(p)
         /\ X \subseteq OpsIn(p)
         /\ \A o \in X : p.op[o].k # "end" /\ Regions(p, o) \subseteq U
         /\ \A n \in DOMAIN fs :
              /\ fs[n] \in Frame
              /\ fs[n].b \in (DOMAIN p.block) \ U /\ p.block[fs[n].b] # <<>>
              /\ Rem(p, fs[n]) \in Seq(Nat) /\ Rem(p, fs[n]) # <<>>
              /\ EndsIn(p.block[fs[n].b], Rem(p, fs[n]))
              /\ Range(Rem(p, fs[n])) = Range(fs[n].todo) \cup {Last(p.block[fs[n].b])}
              /\ Range(fs[n].todo) \subseteq Todo(fs)
<1>1. HasBlocks(p) /\ HasRegions(p)
  BY CodeParts DEF Inv
<1>2. /\ fs \in Seq(Frame) /\ fs # <<>>
      /\ U \subseteq (DOMAIN p.block) \ {p.root}
      /\ Pending(p, U, fs, X) \subseteq OpsIn(p)
      /\ \A o \in Pending(p, U, fs, X) : Regions(p, o) \subseteq U
      /\ \A o \in X : p.op[o].k # "end"
      /\ \A n \in DOMAIN fs :
           /\ fs[n].b \in (DOMAIN p.block) \ U /\ p.block[fs[n].b] # <<>>
           /\ EndsIn(p.block[fs[n].b], Rem(p, fs[n]))
  BY DEF Inv, InvFrames, InvSource, InvPending, LeadsTo, InvPlaces
<1>3. Len(fs) \in Nat /\ Len(fs) >= 1 /\ DOMAIN fs = 1..Len(fs)
  BY <1>2
<1>4. X \subseteq Pending(p, U, fs, X)
  BY DEF Pending
<1>5. OpsIn(p) \subseteq DOMAIN p.op
  BY <1>1, CodeFacts
<1>6. ASSUME NEW n \in DOMAIN fs
      PROVE  /\ fs[n] \in Frame
             /\ Rem(p, fs[n]) \in Seq(Nat) /\ Rem(p, fs[n]) # <<>>
             /\ Range(Rem(p, fs[n])) = Range(fs[n].todo) \cup {Last(p.block[fs[n].b])}
             /\ Range(fs[n].todo) \subseteq Todo(fs)
  <2>1. fs[n] \in Frame
    BY <1>2, <1>3
  <2>2. Range(fs[n].todo) \subseteq Todo(fs)
    BY DEF Todo
  <2> QED BY <2>1, <2>2, <1>1, <1>2, RemFacts
<1> QED BY <1>1, <1>2, <1>3, <1>4, <1>5, <1>6

\* The three kinds of places the visitor inserts at.
LEMMA CurrentPlace ==
  ASSUME NEW p, NEW U, NEW fs, NEW X, Inv(p, U, fs, X), NEW o \in X
  PROVE  AtVisited(p, U, fs, o)
<1>1. /\ HasBlocks(p) /\ o \in OpsIn(p) /\ p.op[o].k # "end"
      /\ o \notin Todo(fs) /\ \A c \in U : o \notin Range(p.block[c])
  BY InvFacts DEF Inv, InvSource
<1>2. PICK b \in DOMAIN p.block : o \in Range(p.block[b])
  BY <1>1, CodeFacts
<1>3. ASSUME NEW n \in DOMAIN fs, fs[n].b = b
      PROVE  IndexOf(p, o) <= Len(p.block[b]) - Len(Rem(p, fs[n])) + 1
  <2>1. /\ Rem(p, fs[n]) \in Seq(Nat) /\ EndsIn(p.block[b], Rem(p, fs[n]))
        /\ Range(Rem(p, fs[n])) = Range(fs[n].todo) \cup {Last(p.block[b])}
        /\ Range(fs[n].todo) \subseteq Todo(fs)
    BY <1>3, InvFacts
  <2>2. o # Last(p.block[b])
    BY <1>1, <1>2, BlockFacts
  <2>3. IndexOf(p, o) <= Len(p.block[b]) - Len(Rem(p, fs[n]))
    BY <2>1, <2>2, <1>1, <1>2, Before
  <2>4. IndexOf(p, o) \in Nat /\ Len(p.block[b]) \in Nat /\ Len(Rem(p, fs[n])) \in Nat
    <3>1. IndexOf(p, o) \in 1..Len(p.block[b]) /\ Len(p.block[b]) \in Nat
      BY <1>1, <1>2, BlockFacts
    <3> QED BY <3>1, <2>1
  <2> QED BY <2>3, <2>4
<1> QED BY <1>1, <1>2, <1>3 DEF AtVisited

\* A point in front of what a call has left to visit is where code may be put.
LEMMA RestPlace ==
  ASSUME NEW p, NEW U, NEW fs, NEW X, Inv(p, U, fs, X), NEW n \in DOMAIN fs, NEW e,
         AtRest(p, fs[n], e)
  PROVE  AtVisited(p, U, fs, e)
<1> DEFINE b == fs[n].b
           t == Rem(p, fs[n])
<1>1. /\ HasBlocks(p) /\ b \in (DOMAIN p.block) \ U
      /\ t \in Seq(Nat) /\ t # <<>> /\ EndsIn(p.block[b], t)
  BY InvFacts
<1>2. e = Head(t)
  BY DEF AtRest
<1>3. e \in Range(p.block[b]) /\ IndexOf(p, e) = Len(p.block[b]) - Len(t) + 1
  BY <1>1, <1>2, HeadOfRest
<1>4. Len(p.block[b]) \in Nat /\ Len(t) \in Nat
  BY <1>1, BlockFacts
<1>5. \A m \in DOMAIN fs : fs[m].b = b => m = n
  BY DEF Inv, InvPlaces
<1> HIDE DEF b
<1>6. \A m \in DOMAIN fs : fs[m].b = b => Rem(p, fs[m]) = t
  BY <1>5
<1> HIDE DEF t
<1>7. \A m \in DOMAIN fs : fs[m].b = b
        => IndexOf(p, e) <= Len(p.block[b]) - Len(Rem(p, fs[m])) + 1
  BY <1>3, <1>4, <1>6
<1> QED BY <1>1, <1>3, <1>7 DEF AtVisited

\* So is the end of a block the visitor made itself.
LEMMA NestedPlace ==
  ASSUME NEW p, NEW U, NEW fs, HasBlocks(p), NEW e, Nestable(p, U, fs, e)
  PROVE  AtVisited(p, U, fs, e)
<1>1. PICK c \in (DOMAIN p.block) \ (U \cup Opening(fs)) : p.block[c] # <<>> /\ e = Last(p.block[c])
  BY DEF Nestable
<1>2. e \in Range(p.block[c])
  BY <1>1, BlockFacts
<1>3. \A n \in DOMAIN fs : fs[n].b # c
  BY DEF Opening
<1> QED BY <1>1, <1>2, <1>3 DEF AtVisited

\* Creating assignments and reads of the guards keeps the invariant.
LEMMA EmitStep ==
  ASSUME NEW p, NEW U, NEW fs, NEW X, Inv(p, U, fs, X), NEW at, AtVisited(p, U, fs, at),
         NEW ops, ops \in Seq(Range(ops)),
         \A j \in DOMAIN ops :
           IsNode(ops[j]) /\ ops[j].k \in {"assign", "retval"} /\ ops[j].regions = <<>>
  PROVE  /\ Inv(Emit(p, at, ops), U, fs, X)
         /\ \A o \in DOMAIN p.op : /\ o \in DOMAIN Emit(p, at, ops).op
                                   /\ Emit(p, at, ops).op[o] = p.op[o]
<1>1. PICK b \in (DOMAIN p.block) \ U :
        /\ at \in Range(p.block[b])
        /\ \A n \in DOMAIN fs :
             fs[n].b = b => IndexOf(p, at) <= Len(p.block[b]) - Len(Rem(p, fs[n])) + 1
  BY DEF AtVisited
<1>2. PICK q : q = Emit(p, at, ops)
  OBVIOUS
<1>3. HasBlocks(p) /\ HasRegions(p) /\ OpsIn(p) \subseteq DOMAIN p.op
  BY InvFacts
<1>4. PICK n : n = Len(p.op)
  OBVIOUS
<1>5. IsEmit(p, b, at, ops, q)
  <2>1. \A j \in DOMAIN ops : IsNode(ops[j]) /\ ops[j].k # "end"
    OBVIOUS
  <2> QED BY <1>1, <1>2, <1>3, <2>1, EmitFacts
<1>14. /\ HasBlocks(q)
       /\ q.root = p.root /\ DOMAIN q.block = DOMAIN p.block
       /\ \A o \in DOMAIN p.op : o \in DOMAIN q.op /\ q.op[o] = p.op[o]
       /\ \A j \in DOMAIN ops : n + j \in DOMAIN q.op /\ q.op[n + j] = ops[j]
       /\ \A c \in DOMAIN p.block : c # b => q.block[c] = p.block[c]
       /\ q.block[b] # <<>> /\ Last(q.block[b]) = Last(p.block[b])
       /\ Range(q.block[b]) = Range(p.block[b]) \cup (n + 1..n + Len(ops))
       /\ \A t : /\ t \in Seq(Nat)
                 /\ EndsIn(p.block[b], t)
                 /\ IndexOf(p, at) <= Len(p.block[b]) - Len(t) + 1
                 => EndsIn(q.block[b], t)
  BY <1>4, <1>5 DEF IsEmit
<1>6. OpsIn(q) = OpsIn(p) \cup (n + 1..n + Len(ops))
  BY <1>1, <1>14, OpsOfEdit
<1>7. ASSUME NEW o \in OpsIn(q) \ OpsIn(p)
      PROVE  q.op[o].k \in {"assign", "retval"} /\ q.op[o].regions = <<>>
  <2>1. o \in n + 1..n + Len(ops)
    BY <1>6, <1>7
  <2>2. n \in Nat /\ Len(ops) \in Nat /\ DOMAIN ops = 1..Len(ops)
    BY <1>3, <1>4, CodeFacts
  <2>3. o - n \in DOMAIN ops /\ n + (o - n) = o
    BY <2>1, <2>2
  <2>4. q.op[n + (o - n)] = ops[o - n]
    BY <1>14, <2>3
  <2>5. q.op[o] = ops[o - n]
    BY <2>3, <2>4
  <2> QED BY <2>3, <2>5
<1>8. \A o \in OpsIn(p) : q.op[o].regions = p.op[o].regions
  BY <1>3, <1>14
<1>9. HasRegions(q)
  BY <1>3, <1>14, <1>7, <1>8, RegionsKept
<1>10. Range(<<>>) = {}
  BY DEF Range
<1>11. Grounded(q, U)
  <2>1. ASSUME NEW c \in (DOMAIN q.block) \ U, NEW o \in Range(q.block[c]), NEW d \in Regions(q, o),
               d \in (DOMAIN p.block) \ U
        PROVE  c \in DOMAIN p.block /\ \E x \in Range(p.block[c]) : d \in Regions(p, x)
    <3>1. o \in OpsIn(q)
      BY DEF OpsIn
    <3>2. o \in OpsIn(p)
      BY <3>1, <2>1, <1>7, <1>10 DEF Regions
    <3>3. d \in Regions(p, o)
      BY <3>2, <2>1, <1>8 DEF Regions
    <3>4. o \in Range(p.block[c])
      <4>1. PICK a \in DOMAIN p.block : o \in Range(p.block[a])
        BY <3>2, <1>3, CodeFacts
      <4>2. o \in Range(q.block[a])
        BY <4>1, <1>14
      <4>3. a = c
        BY <4>1, <4>2, <1>14 DEF HasBlocks
      <4> QED BY <4>1, <4>3
    <3> QED BY <3>3, <3>4, <1>14
  <2>2. Grounded(p, U)
    BY DEF Inv
  <2>3. PICK N : N \in DOMAIN p.block
    BY <1>1
  <2>4. DOMAIN q.block \subseteq DOMAIN p.block \cup {N}
    BY <1>14
  <2> QED BY <2>1, <2>2, <2>3, <2>4, GroundedKept
<1>12. ASSUME NEW m \in DOMAIN fs PROVE EndsIn(q.block[fs[m].b], Rem(p, fs[m]))
  <2>1. /\ fs[m].b \in DOMAIN p.block /\ EndsIn(p.block[fs[m].b], Rem(p, fs[m]))
        /\ Rem(p, fs[m]) \in Seq(Nat)
    BY InvFacts
  <2>2. CASE fs[m].b = b
    BY <2>1, <2>2, <1>1, <1>14
  <2>3. CASE fs[m].b # b
    BY <2>1, <2>3, <1>14
  <2> QED BY <2>2, <2>3
<1>13. Edited(p, q, U, fs, X, X)
  <2>1. IsCode(q)
    BY <1>14, <1>9, CodeParts
  <2>2. \A o \in DOMAIN p.op : SameNode(p.op[o], q.op[o])
    BY <1>14 DEF SameNode
  <2>3. \A c \in U : Range(q.block[c]) = Range(p.block[c])
    BY <1>1, <1>14, InvFacts
  <2>4. \A o \in OpsIn(q) \ OpsIn(p) : ~IsSoft(q, o)
    BY <1>7 DEF IsSoft
  <2>5. OpsIn(p) \subseteq OpsIn(q)
    BY <1>6
  <2>6. \A c \in (DOMAIN p.block) \ (U \cup Opening(fs)) :
          p.block[c] # <<>> => q.block[c] # <<>> /\ Last(q.block[c]) = Last(p.block[c])
    BY <1>14
  <2> QED BY <2>1, <2>2, <2>3, <2>4, <2>5, <2>6, <1>14, <1>11, <1>12 DEF Edited
<1> QED BY <1>2, <1>14, <1>13, EditStep

\* The blocks and regions an edit leaves alone, seen from the operations.
LEMMA SameBlock ==
  ASSUME NEW p, NEW q, HasBlocks(p), HasBlocks(q), DOMAIN p.block \subseteq DOMAIN q.block,
         NEW c \in DOMAIN q.block, NEW o \in OpsIn(p), o \in Range(q.block[c]),
         \A a \in DOMAIN p.block : o \in Range(p.block[a]) => o \in Range(q.block[a])
  PROVE  c \in DOMAIN p.block /\ o \in Range(p.block[c])
<1>1. PICK a \in DOMAIN p.block : o \in Range(p.block[a])
  BY CodeFacts
<1>2. o \in Range(q.block[a]) /\ a \in DOMAIN q.block
  BY <1>1
<1>3. a = c
  BY <1>2 DEF HasBlocks
<1> QED BY <1>1, <1>3

\* createGuardedBlock keeps the invariant, and the new block can be nested in.
LEMMA GuardedStep ==
  ASSUME NEW p, NEW U, NEW fs, NEW X, Inv(p, U, fs, X), NEW at, AtVisited(p, U, fs, at),
         NEW v \in Nat
  PROVE  /\ Inv(GuardedBlock(p, at, v), U, fs, X)
         /\ Nestable(GuardedBlock(p, at, v), U, fs, Len(GuardedBlock(p, at, v).op))
         /\ \A o \in DOMAIN p.op : /\ o \in DOMAIN GuardedBlock(p, at, v).op
                                   /\ GuardedBlock(p, at, v).op[o] = p.op[o]
<1> DEFINE N == Len(p.block) + 1
           g == Make("guard", <<N>>, v, FALSE)
<1>1. PICK b \in (DOMAIN p.block) \ U :
        /\ at \in Range(p.block[b])
        /\ \A m \in DOMAIN fs :
             fs[m].b = b => IndexOf(p, at) <= Len(p.block[b]) - Len(Rem(p, fs[m])) + 1
  BY DEF AtVisited
<1>2. PICK r : r = Emit(p, at, <<g>>)
  OBVIOUS
<1>3. PICK q : q = AddEmptyBlock(r)
  OBVIOUS
<1>4. q = GuardedBlock(p, at, v)
  BY <1>2, <1>3 DEF GuardedBlock
<1>5. HasBlocks(p) /\ HasRegions(p) /\ OpsIn(p) \subseteq DOMAIN p.op
  BY InvFacts
<1>6. PICK n : n = Len(p.op)
  OBVIOUS
<1>7. /\ n \in Nat /\ DOMAIN p.op = 1..n /\ Len(p.block) \in Nat
      /\ DOMAIN p.block = 1..Len(p.block)
  BY <1>5, <1>6, CodeFacts
<1>8. g.k = "guard" /\ g.regions = <<N>> /\ IsNode(g)
  BY <1>7 DEF Make, IsNode, Kind
<1> HIDE DEF g
<1>9. IsEmit(p, b, at, <<g>>, r)
  <2>1. PICK ops : ops = <<g>>
    OBVIOUS
  <2>2. /\ ops \in Seq(Range(ops)) /\ \A j \in DOMAIN ops : IsNode(ops[j]) /\ ops[j].k # "end"
    BY <2>1, <1>8 DEF Range
  <2>3. IsEmit(p, b, at, ops, Emit(p, at, ops))
    BY <2>2, <1>1, <1>5, EmitFacts
  <2> QED BY <2>1, <2>3, <1>2
<1>10. /\ HasBlocks(r)
       /\ r.root = p.root /\ DOMAIN r.block = DOMAIN p.block
       /\ Len(r.op) = n + 1
       /\ \A o \in DOMAIN p.op : o \in DOMAIN r.op /\ r.op[o] = p.op[o]
       /\ n + 1 \in DOMAIN r.op /\ r.op[n + 1] = g
       /\ \A c \in DOMAIN p.block : c # b => r.block[c] = p.block[c]
       /\ r.block[b] # <<>> /\ Last(r.block[b]) = Last(p.block[b])
       /\ Range(r.block[b]) = Range(p.block[b]) \cup {n + 1}
       /\ \A t : /\ t \in Seq(Nat)
                 /\ EndsIn(p.block[b], t)
                 /\ IndexOf(p, at) <= Len(p.block[b]) - Len(t) + 1
                 => EndsIn(r.block[b], t)
  <2>1. Len(<<g>>) = 1 /\ DOMAIN <<g>> = {1} /\ <<g>>[1] = g /\ n + 1..n + 1 = {n + 1}
    BY <1>7
  <2> QED BY <2>1, <1>6, <1>9 DEF IsEmit
<1>11. Len(r.block) = Len(p.block)
  <2>1. Len(r.block) \in Nat /\ DOMAIN r.block = 1..Len(r.block)
    BY <1>10, CodeFacts
  <2> QED BY <2>1, <1>7, <1>10
<1>12. IsAddEmpty(r, q)
  BY <1>3, <1>10, AddEmptyFacts
<1>13. /\ HasBlocks(q)
       /\ q.root = p.root /\ DOMAIN q.block = DOMAIN p.block \cup {N} /\ N \notin DOMAIN p.block
       /\ Len(q.op) = n + 2
       /\ \A o \in DOMAIN p.op : o \in DOMAIN q.op /\ q.op[o] = p.op[o]
       /\ q.op[n + 1] = g /\ q.op[n + 2] = End
       /\ \A c \in DOMAIN p.block : c # b => q.block[c] = p.block[c]
       /\ q.block[b] = r.block[b]
       /\ q.block[N] = <<n + 2>>
       /\ OpsIn(q) = OpsIn(r) \cup {n + 2}
  <2>1. n + 1 + 1 = n + 2
    BY <1>7
  <2> QED BY <2>1, <1>1, <1>10, <1>11, <1>12 DEF IsAddEmpty
<1> HIDE DEF N
<1>14. OpsIn(r) = OpsIn(p) \cup {n + 1}
  <2>1. PICK new : new = {n + 1}
    OBVIOUS
  <2>2. OpsIn(r) = OpsIn(p) \cup new
    <3>1. /\ DOMAIN r.block = DOMAIN p.block /\ b \in DOMAIN p.block
          /\ \A c \in DOMAIN p.block : c # b => r.block[c] = p.block[c]
          /\ Range(r.block[b]) = Range(p.block[b]) \cup new
      BY ONLY <2>1, <1>1, <1>10, Zenon
    <3> QED BY ONLY <3>1, OpsOfEdit, SMT
  <2> QED BY <2>1, <2>2
<1>15. /\ n + 1 \notin OpsIn(p) /\ n + 2 \notin OpsIn(p)
       /\ Range(<<n + 2>>) = {n + 2} /\ Range(<<N>>) = {N} /\ Range(<<>>) = {}
       /\ End.regions = <<>> /\ End.k = "end"
  <2>1. n + 1 \notin 1..n /\ n + 2 \notin 1..n
    BY <1>7
  <2> QED BY <2>1, <1>5, <1>7 DEF Range, End, Make
<1>16. /\ \A o \in OpsIn(p) : q.op[o].regions = p.op[o].regions /\ Regions(q, o) = Regions(p, o)
       /\ Regions(q, n + 1) = {N} /\ Regions(q, n + 2) = {}
  BY <1>5, <1>8, <1>13, <1>15 DEF Regions
<1>17. HasRegions(q)
  <2>1. \A o \in OpsIn(q) \ OpsIn(p) :
          \/ q.op[o].regions = <<>>
          \/ /\ o = n + 1
             /\ \E M \in (DOMAIN q.block) \ DOMAIN p.block : q.op[o].regions = <<M>>
    <3> SUFFICES ASSUME NEW o \in OpsIn(q) \ OpsIn(p)
                 PROVE  \/ q.op[o].regions = <<>>
                        \/ /\ o = n + 1
                           /\ \E M \in (DOMAIN q.block) \ DOMAIN p.block : q.op[o].regions = <<M>>
      OBVIOUS
    <3>1. o = n + 1 \/ o = n + 2
      BY <1>13, <1>14
    <3>2. q.op[n + 1].regions = <<N>> /\ N \in (DOMAIN q.block) \ DOMAIN p.block
      BY <1>8, <1>13
    <3>3. q.op[n + 2].regions = <<>>
      BY <1>13, <1>15
    <3> QED BY <3>1, <3>2, <3>3
  <2>2. \A o \in OpsIn(q) \cap OpsIn(p) : q.op[o].regions = p.op[o].regions
    BY <1>16
  <2>3. DOMAIN p.block \subseteq DOMAIN q.block /\ q.root = p.root
    BY <1>13
  <2> QED BY <2>1, <2>2, <2>3, <1>5, RegionsKept
<1>18. \A c \in DOMAIN p.block : Range(p.block[c]) \subseteq Range(q.block[c])
  BY <1>10, <1>13
<1>19. Grounded(q, U)
  <2>1. ASSUME NEW c \in (DOMAIN q.block) \ U, NEW o \in Range(q.block[c]), NEW d \in Regions(q, o),
               d \in (DOMAIN p.block) \ U
        PROVE  c \in DOMAIN p.block /\ \E x \in Range(p.block[c]) : d \in Regions(p, x)
    <3>1. o \in OpsIn(q)
      BY DEF OpsIn
    <3>2. o \in OpsIn(p)
      BY <3>1, <2>1, <1>13, <1>14, <1>16
    <3>3. c \in DOMAIN p.block /\ o \in Range(p.block[c])
      BY <3>2, <1>5, <1>13, <1>18, SameBlock
    <3> QED BY <3>2, <3>3, <1>16
  <2>2. \A o \in Range(q.block[N]) : N \notin Regions(q, o)
    BY <1>13, <1>15, <1>16
  <2>3. Grounded(p, U)
    BY DEF Inv
  <2> QED BY <2>1, <2>2, <2>3, <1>13, GroundedKept
<1>20. ASSUME NEW m \in DOMAIN fs PROVE EndsIn(q.block[fs[m].b], Rem(p, fs[m]))
  <2>1. /\ fs[m].b \in DOMAIN p.block /\ EndsIn(p.block[fs[m].b], Rem(p, fs[m]))
        /\ Rem(p, fs[m]) \in Seq(Nat)
    BY InvFacts
  <2>2. CASE fs[m].b = b
    BY <2>1, <2>2, <1>1, <1>10, <1>13
  <2>3. CASE fs[m].b # b
    BY <2>1, <2>3, <1>13
  <2> QED BY <2>2, <2>3
<1>21. Edited(p, q, U, fs, X, X)
  <2>1. IsCode(q)
    BY <1>13, <1>17, CodeParts
  <2>2. \A o \in DOMAIN p.op : SameNode(p.op[o], q.op[o])
    BY <1>13 DEF SameNode
  <2>3. \A c \in U : Range(q.block[c]) = Range(p.block[c])
    BY <1>1, <1>13, InvFacts
  <2>4. \A o \in OpsIn(q) \ OpsIn(p) : ~IsSoft(q, o)
    BY <1>8, <1>13, <1>14, <1>15 DEF IsSoft
  <2>5. OpsIn(p) \subseteq OpsIn(q)
    BY <1>13, <1>14
  <2>6. \A c \in (DOMAIN p.block) \ (U \cup Opening(fs)) :
          p.block[c] # <<>> => q.block[c] # <<>> /\ Last(q.block[c]) = Last(p.block[c])
    BY <1>10, <1>13
  <2> QED BY <2>1, <2>2, <2>3, <2>4, <2>5, <2>6, <1>13, <1>19, <1>20 DEF Edited
<1>22. Nestable(q, U, fs, Len(q.op))
  <2>1. N \notin U /\ N \notin Opening(fs)
    BY <1>13, InvFacts DEF Opening
  <2>2. <<n + 2>> # <<>> /\ Last(<<n + 2>>) = n + 2
    BY DEF Last
  <2> QED BY <2>1, <2>2, <1>13 DEF Nestable
<1>23. Inv(q, U, fs, X)
  BY <1>21, EditStep
<1> QED BY <1>4, <1>13, <1>22, <1>23

\* Moving the operation at hand into a block of the visitor's keeps the invariant.
LEMMA MoveStep ==
  ASSUME NEW p, NEW U, NEW fs, NEW X, Inv(p, U, fs, X), NEW o \in X, NEW e,
         Nestable(p, U, fs, e)
  PROVE  Inv(MoveBefore(p, o, e), U, fs, X) /\ MoveBefore(p, o, e).op = p.op
<1>1. /\ HasBlocks(p) /\ HasRegions(p) /\ o \in OpsIn(p) /\ p.op[o].k # "end"
      /\ o \notin Todo(fs) /\ \A c \in U : o \notin Range(p.block[c])
      /\ Regions(p, o) \subseteq U /\ U \subseteq DOMAIN p.block
  BY InvFacts DEF Inv, InvSource
<1>2. PICK b \in (DOMAIN p.block) \ (U \cup Opening(fs)) : p.block[b] # <<>> /\ e = Last(p.block[b])
  BY DEF Nestable
<1>3. e \in Range(p.block[b]) /\ o # e
  BY <1>1, <1>2, BlockFacts
<1>4. PICK q : q = MoveBefore(p, o, e)
  OBVIOUS
<1>5. IsMove(p, o, b, q)
  BY <1>1, <1>2, <1>3, <1>4, MoveFacts
<1>6. /\ HasBlocks(q)
      /\ q.op = p.op /\ q.root = p.root /\ DOMAIN q.block = DOMAIN p.block
      /\ OpsIn(q) = OpsIn(p)
      /\ \A c \in DOMAIN p.block :
           /\ Range(q.block[c]) \subseteq Range(p.block[c]) \cup {o}
           /\ c # b => Range(q.block[c]) = Range(p.block[c]) \ {o}
           /\ \A t : t \in Seq(Nat) /\ EndsIn(p.block[c], t) /\ o \notin Range(t) /\ c # b
                => EndsIn(q.block[c], t)
           /\ p.block[c] # <<>> => q.block[c] # <<>> /\ Last(q.block[c]) = Last(p.block[c])
  BY <1>5 DEF IsMove
<1>7. \A x : Regions(q, x) = Regions(p, x)
  BY <1>6 DEF Regions
<1>8. HasRegions(q)
  BY <1>1, <1>6, <1>7 DEF HasRegions
<1>9. Grounded(q, U)
  <2>1. ASSUME NEW c \in (DOMAIN q.block) \ U, NEW x \in Range(q.block[c]), NEW d \in Regions(q, x),
               d \in (DOMAIN p.block) \ U
        PROVE  c \in DOMAIN p.block /\ \E y \in Range(p.block[c]) : d \in Regions(p, y)
    <3>1. x # o
      BY <2>1, <1>1, <1>7
    <3> QED BY <3>1, <1>6, <1>7
  <2>2. DOMAIN q.block \subseteq DOMAIN p.block \cup {b}
    BY <1>6
  <2>3. Grounded(p, U)
    BY DEF Inv
  <2> QED BY <2>1, <2>2, <2>3, <1>2, GroundedKept
<1>10. ASSUME NEW n \in DOMAIN fs PROVE EndsIn(q.block[fs[n].b], Rem(p, fs[n]))
  <2>1. /\ fs[n].b \in DOMAIN p.block /\ EndsIn(p.block[fs[n].b], Rem(p, fs[n]))
        /\ Rem(p, fs[n]) \in Seq(Nat) /\ p.block[fs[n].b] # <<>>
        /\ Range(Rem(p, fs[n])) = Range(fs[n].todo) \cup {Last(p.block[fs[n].b])}
        /\ Range(fs[n].todo) \subseteq Todo(fs)
    BY InvFacts
  <2>2. fs[n].b # b
    BY <1>2 DEF Opening
  <2>3. o # Last(p.block[fs[n].b])
    BY <2>1, <1>1, BlockFacts
  <2> QED BY <2>1, <2>2, <2>3, <1>1, <1>6
<1>11. Edited(p, q, U, fs, X, X)
  <2>1. IsCode(q)
    BY <1>6, <1>8, CodeParts
  <2>2. \A x \in DOMAIN p.op : SameNode(p.op[x], q.op[x])
    BY <1>6 DEF SameNode
  <2>3. \A c \in U : Range(q.block[c]) = Range(p.block[c])
    <3> SUFFICES ASSUME NEW c \in U PROVE Range(q.block[c]) = Range(p.block[c])
      OBVIOUS
    <3>1. c \in DOMAIN p.block /\ c # b /\ o \notin Range(p.block[c])
      BY <1>1, <1>2
    <3>2. Range(q.block[c]) = Range(p.block[c]) \ {o}
      BY <3>1, <1>6
    <3> QED BY <3>1, <3>2
  <2> QED BY <2>1, <2>2, <2>3, <1>6, <1>9, <1>10 DEF Edited
<1> QED BY <1>4, <1>6, <1>11, EditStep

\* Erasing operations that are no longer to be visited keeps the invariant.
LEMMA EraseStep ==
  ASSUME NEW p, NEW U, NEW fs, NEW X, Inv(p, U, fs, X), NEW Y \in SUBSET X, NEW S,
         S \cap Pending(p, U, fs, Y) = {},
         \A n \in 1..Len(fs) - 1 : fs[n].op \notin S,
         \A o \in OpsIn(p) \cap S : p.op[o].k # "end",
         X \ Y \subseteq S, \A o \in X \ Y : Regions(p, o) = {}
  PROVE  Inv(Erase(p, S), U, fs, Y) /\ Erase(p, S).op = p.op
<1>1. HasBlocks(p) /\ HasRegions(p) /\ U \subseteq DOMAIN p.block
  BY InvFacts
<1>2. PICK q : q = Erase(p, S)
  OBVIOUS
<1>3. \A c \in DOMAIN p.block :
        p.block[c] # <<>> => /\ Last(p.block[c]) \in Range(p.block[c])
                             /\ Last(p.block[c]) \notin S
  BY <1>1, BlockFacts DEF OpsIn
<1>4. IsErase(p, S, q)
  BY <1>1, <1>2, <1>3, EraseFacts
<1>5. /\ HasBlocks(q)
      /\ q.op = p.op /\ q.root = p.root /\ DOMAIN q.block = DOMAIN p.block
      /\ OpsIn(q) = OpsIn(p) \ S
      /\ \A c \in DOMAIN p.block :
           /\ Range(q.block[c]) = Range(p.block[c]) \ S
           /\ \A t : t \in Seq(Nat) /\ EndsIn(p.block[c], t) /\ Range(t) \cap S = {}
                => EndsIn(q.block[c], t)
           /\ p.block[c] # <<>> => q.block[c] # <<>> /\ Last(q.block[c]) = Last(p.block[c])
  BY <1>3, <1>4 DEF IsErase
<1>6. \A x : Regions(q, x) = Regions(p, x)
  BY <1>5 DEF Regions
<1>7. HasRegions(q)
  BY <1>1, <1>5, <1>6 DEF HasRegions
<1>8. Grounded(q, U)
  <2>1. \A c \in (DOMAIN q.block) \ U : \A o \in Range(q.block[c]) : \A d \in Regions(q, o) :
          d \in (DOMAIN p.block) \ U =>
            c \in DOMAIN p.block /\ \E x \in Range(p.block[c]) : d \in Regions(p, x)
    BY <1>5, <1>6
  <2>2. DOMAIN q.block \subseteq DOMAIN p.block \cup {p.root} /\ p.root \in DOMAIN p.block
    BY <1>1, <1>5 DEF HasBlocks
  <2>3. Grounded(p, U)
    BY DEF Inv
  <2> QED BY <2>1, <2>2, <2>3, GroundedKept
<1>9. ASSUME NEW n \in DOMAIN fs PROVE EndsIn(q.block[fs[n].b], Rem(p, fs[n]))
  <2>1. /\ fs[n].b \in DOMAIN p.block /\ EndsIn(p.block[fs[n].b], Rem(p, fs[n]))
        /\ Rem(p, fs[n]) \in Seq(Nat) /\ p.block[fs[n].b] # <<>>
        /\ Range(Rem(p, fs[n])) = Range(fs[n].todo) \cup {Last(p.block[fs[n].b])}
        /\ Range(fs[n].todo) \subseteq Todo(fs)
    BY InvFacts
  <2>2. Range(Rem(p, fs[n])) \cap S = {}
    BY <2>1, <1>3 DEF Pending
  <2> QED BY <2>1, <2>2, <1>5
<1>10. Edited(p, q, U, fs, X, Y)
  <2>1. IsCode(q)
    BY <1>5, <1>7, CodeParts
  <2>2. \A x \in DOMAIN p.op : SameNode(p.op[x], q.op[x])
    BY <1>5 DEF SameNode
  <2>3. \A c \in U : Range(q.block[c]) = Range(p.block[c])
    <3> SUFFICES ASSUME NEW c \in U PROVE Range(q.block[c]) = Range(p.block[c])
      OBVIOUS
    <3>1. Range(p.block[c]) \cap S = {}
      BY DEF Pending
    <3> QED BY <3>1, <1>1, <1>5
  <2>4. \A o \in OpsIn(p) \ OpsIn(q) :
          o \notin Pending(p, U, fs, Y) /\ \A n \in 1..Len(fs) - 1 : o # fs[n].op
    BY <1>5
  <2>5. \A o \in X \ Y : Regions(p, o) = {} /\ o \notin OpsIn(q)
    BY <1>5
  <2> QED BY <2>1, <2>2, <2>3, <2>4, <2>5, <1>5, <1>8, <1>9 DEF Edited
<1> QED BY <1>2, <1>5, <1>10, EditStep

\* Other variables for the operations.
LEMMA NodesStep ==
  ASSUME NEW p, NEW U, NEW fs, NEW X, Inv(p, U, fs, X), NEW O, O \in Seq(Range(O)),
         DOMAIN O = DOMAIN p.op,
         \A o \in DOMAIN O : IsNode(O[o]) /\ SameNode(p.op[o], O[o])
  PROVE  Inv([p EXCEPT !.op = O], U, fs, X)
<1>1. HasBlocks(p) /\ HasRegions(p)
  BY InvFacts
<1>2. p = [op |-> p.op, block |-> p.block, root |-> p.root, valued |-> p.valued]
  BY <1>1 DEF HasBlocks
<1>3. PICK q : q = [p EXCEPT !.op = O]
  OBVIOUS
<1>4. /\ q.op = O /\ q.block = p.block /\ q.root = p.root /\ q.valued = p.valued
      /\ DOMAIN q = {"op", "block", "root", "valued"}
  BY <1>2, <1>3
<1>5. q = [x \in {"op", "block", "root", "valued"} |-> q[x]]
  BY <1>3, <1>4, <1>2
<1>6. q = [op |-> q.op, block |-> q.block, root |-> q.root, valued |-> q.valued]
  BY <1>4, <1>5
<1>7. \A o \in DOMAIN p.op : Regions(q, o) = Regions(p, o) /\ q.op[o].k = p.op[o].k
  BY <1>4 DEF Regions, SameNode
<1>8. OpsIn(q) = OpsIn(p) /\ OpsIn(p) \subseteq DOMAIN p.op
  BY <1>1, <1>4, CodeFacts DEF OpsIn
<1>9. ASSUME NEW b \in DOMAIN q.block PROVE IsBlock(q, q.block[b])
  <2>1. IsBlock(p, p.block[b])
    BY <1>1, <1>4 DEF HasBlocks
  <2>2. \A i \in DOMAIN p.block[b] : p.block[b][i] \in DOMAIN p.op
    BY <2>1 DEF IsBlock
  <2> QED BY <2>1, <2>2, <1>4, <1>7, ZenonT(60) DEF IsBlock
<1>10. HasBlocks(q)
  BY <1>1, <1>4, <1>6, <1>9 DEF HasBlocks
<1>11. HasRegions(q)
  BY <1>1, <1>4, <1>7, <1>8 DEF HasRegions, SameNode
<1>12. Grounded(q, U)
  <2>1. \A c \in DOMAIN p.block : \A o \in Range(p.block[c]) : Regions(q, o) = Regions(p, o)
    BY <1>7, <1>8 DEF OpsIn
  <2>2. Grounded(p, U)
    BY DEF Inv
  <2> QED BY <2>1, <2>2, <1>4 DEF Grounded
<1>13. Edited(p, q, U, fs, X, X)
  <2>1. IsCode(q)
    BY <1>10, <1>11, CodeParts
  <2>2. \A n \in DOMAIN fs : EndsIn(q.block[fs[n].b], Rem(p, fs[n]))
    BY <1>4, InvFacts
  <2>3. \A o \in OpsIn(p) : ~(o \notin OpsIn(q))
    BY <1>8
  <2> QED BY <2>1, <2>2, <2>3, <1>4, <1>8, <1>12 DEF Edited
<1> QED BY <1>3, <1>13, EditStep

-----------------------------------------------------------------------------
(* The frames *)

\* The tail of a suffix is a suffix.
LEMMA EndsInTail ==
  ASSUME NEW A, NEW B, NEW s \in Seq(A), NEW t \in Seq(B), EndsIn(s, t), t # <<>>
  PROVE  EndsIn(s, Tail(t))
<1>1. /\ Len(s) \in Nat /\ Len(t) \in Nat /\ Len(t) >= 1 /\ Len(t) <= Len(s)
      /\ Len(Tail(t)) = Len(t) - 1 /\ \A j \in 1..Len(t) - 1 : Tail(t)[j] = t[j + 1]
      /\ \A j \in 1..Len(t) : t[j] = s[Len(s) - Len(t) + j]
  BY DEF EndsIn
<1>2. PICK l, m, u : l = Len(s) /\ m = Len(t) /\ u = Tail(t)
  OBVIOUS
<1>3. ASSUME NEW j \in 1..m - 1 PROVE u[j] = s[l - (m - 1) + j]
  <2>1. u[j] = t[j + 1] /\ j + 1 \in 1..m
    BY <1>1, <1>2
  <2>2. t[j + 1] = s[l - m + (j + 1)] /\ l - m + (j + 1) = l - (m - 1) + j
    BY <2>1, <1>1, <1>2
  <2> QED BY <2>1, <2>2
<1>4. Len(u) = m - 1 /\ m - 1 <= l
  BY <1>1, <1>2
<1> QED BY <1>2, <1>3, <1>4 DEF EndsIn

\* A sequence is its front and its last member.
LEMMA FrontFacts ==
  ASSUME NEW A, NEW s \in Seq(A), s # <<>>
  PROVE  /\ Front(s) \in Seq(A) /\ Append(Front(s), Last(s)) = s /\ EndsIn(s, s)
         /\ Head(s) \in A /\ Last(s) \in A
         /\ Range(s) = Range(Front(s)) \cup {Last(s)}
<1>1. PICK n : n = Len(s)
  OBVIOUS
<1>2. n \in Nat /\ n >= 1 /\ n - 1 \in Nat /\ DOMAIN s = 1..n
  BY <1>1
<1>3. Front(s) \in Seq(A) /\ Len(Front(s)) = n - 1 /\ \A j \in 1..n - 1 : Front(s)[j] = s[j]
  <2>1. Front(s) = SubSeq(s, 1, n - 1)
    BY <1>1 DEF Front
  <2> QED BY <2>1, <1>1, <1>2, SubSeqProperties
<1>4. PICK f : f = Front(s)
  OBVIOUS
<1>5. /\ Len(Append(f, s[n])) = n /\ Append(f, s[n])[n] = s[n]
      /\ \A j \in 1..n - 1 : Append(f, s[n])[j] = f[j]
      /\ Append(f, s[n]) \in Seq(A)
  BY <1>1, <1>2, <1>3, <1>4
<1>6. \A j \in 1..n : j \in 1..n - 1 \/ j = n
  BY <1>2
<1>7. \A j \in 1..n : Append(f, s[n])[j] = s[j]
  BY <1>3, <1>4, <1>5, <1>6
<1>8. Append(f, s[n]) = s
  <2>1. s = [j \in 1..n |-> s[j]]
    BY <1>1
  <2>2. PICK g : g = Append(f, s[n])
    OBVIOUS
  <2>3. g = [j \in 1..n |-> g[j]]
    BY <2>2, <1>5
  <2> QED BY <2>1, <2>2, <2>3, <1>7
<1>9. EndsIn(s, s)
  <2>1. n - n = 0 /\ \A j \in 1..n : 0 + j = j
    BY <1>2
  <2> QED BY <2>1, <1>1, <1>2 DEF EndsIn
<1>10. Range(s) = Range(f) \cup {s[n]}
  <2>1. DOMAIN f = 1..n - 1
    BY <1>2, <1>3, <1>4
  <2>2. \A j \in 1..n - 1 : j \in 1..n /\ f[j] = s[j]
    BY <1>2, <1>3, <1>4
  <2>3. n \in 1..n
    BY <1>2
  <2> QED BY <2>1, <2>2, <2>3, <1>2, <1>6 DEF Range
<1>11. s[n] = Last(s) /\ s[n] \in A /\ Head(s) \in A
  BY <1>1, <1>2 DEF Last
<1> QED BY <1>3, <1>4, <1>8, <1>9, <1>10, <1>11

\* Replacing the innermost call changes no other.
LEMMA TopFacts ==
  ASSUME NEW fs \in Seq(Frame), fs # <<>>, NEW f \in Frame
  PROVE  LET g == [fs EXCEPT ![Len(fs)] = f]
         IN /\ g \in Seq(Frame) /\ g # <<>> /\ Len(g) = Len(fs) /\ g[Len(fs)] = f
            /\ \A n \in 1..Len(fs) : n # Len(fs) => g[n] = fs[n]
BY SMTT(60)

\* What an invariant needs of the frames when one of them changes but none is
\* opened or closed.
SameFrames(fs, g) ==
  /\ g \in Seq(Frame) /\ g # <<>> /\ Len(g) = Len(fs)
  /\ \A n \in 1..Len(fs) : n # Len(fs) => g[n] = fs[n]
  /\ LET f == fs[Len(fs)]
         h == g[Len(fs)]
     IN h.b = f.b /\ h.got = f.got /\ h.saved = f.saved

\* The same calls open the same blocks.
LEMMA SameOpening ==
  ASSUME NEW fs \in Seq(Frame), fs # <<>>, NEW g, SameFrames(fs, g)
  PROVE  /\ Opening(g) = Opening(fs) /\ DOMAIN g = DOMAIN fs /\ DOMAIN fs = 1..Len(fs)
         /\ Len(fs) \in 1..Len(fs)
         /\ \A n \in DOMAIN fs : g[n].b = fs[n].b /\ g[n].got = fs[n].got /\ g[n].saved = fs[n].saved
         /\ \A n \in 1..Len(fs) - 1 : n \in 1..Len(fs) /\ n # Len(fs) /\ g[n] = fs[n]
<1>1. DOMAIN g = DOMAIN fs /\ DOMAIN fs = 1..Len(fs) /\ Len(fs) \in 1..Len(fs)
  BY DEF SameFrames
<1>2. \A n \in DOMAIN fs : g[n].b = fs[n].b /\ g[n].got = fs[n].got /\ g[n].saved = fs[n].saved
  BY <1>1, Zenon DEF SameFrames
<1>3. \A n \in 1..Len(fs) - 1 : n \in 1..Len(fs) /\ n # Len(fs)
  <2>1. PICK L : L = Len(fs)
    OBVIOUS
  <2>2. L \in Nat
    BY <2>1
  <2>3. \A n \in 1..L - 1 : n \in 1..L /\ n # L
    BY <2>2
  <2> QED BY <2>1, <2>3
<1> QED BY <1>1, <1>2, <1>3, ZenonT(60) DEF Opening, SameFrames

\* The frames with the head of the top rest taken out, and with a new info.
TakenFrom(fs, i) == [fs EXCEPT ![Len(fs)].todo = Tail(@), ![Len(fs)].info = i]

\* Taking the next operation changes the innermost call only.
LEMMA TakenFacts ==
  ASSUME NEW fs \in Seq(Frame), fs # <<>>, fs[Len(fs)].todo # <<>>, NEW i \in InfoSet
  PROVE  LET f == fs[Len(fs)]
             h == TakenFrom(fs, i)[Len(fs)]
         IN /\ SameFrames(fs, TakenFrom(fs, i))
            /\ f \in Frame /\ h.todo = Tail(f.todo) /\ h.info = i /\ h.op = f.op /\ h.rest = f.rest
<1>1. PICK L : L = Len(fs)
  OBVIOUS
<1>2. PICK f : f = fs[L]
  OBVIOUS
<1>3. f \in Frame /\ L \in DOMAIN fs
  BY <1>1, <1>2
<1>4. f.todo \in Seq(Nat) /\ f.todo # <<>>
  BY <1>1, <1>2, <1>3 DEF Frame
<1>5. PICK t \in Seq(Nat) : t = Tail(f.todo)
  <2>1. PICK u : u = f.todo
    OBVIOUS
  <2>2. u \in Seq(Nat) /\ u # <<>>
    BY <2>1, <1>4
  <2>3. Tail(u) \in Seq(Nat)
    BY <2>2
  <2> QED BY <2>1, <2>3
<1>6. PICK h : h = [f EXCEPT !.todo = t, !.info = i]
  OBVIOUS
<1>7. /\ h \in Frame /\ h.todo = t /\ h.info = i /\ h.b = f.b /\ h.op = f.op /\ h.rest = f.rest
      /\ h.got = f.got /\ h.saved = f.saved
  BY <1>3, <1>6 DEF Frame
<1>8. TakenFrom(fs, i) = [fs EXCEPT ![L] = h]
  <2>1. TakenFrom(fs, i) = [fs EXCEPT ![L].todo = t, ![L].info = i]
    BY <1>1, <1>2, <1>5 DEF TakenFrom
  <2>2. \A x, y : [fs EXCEPT ![L].todo = x, ![L].info = y]
                    = [fs EXCEPT ![L] = [fs[L] EXCEPT !.todo = x, !.info = y]]
    BY <1>3
  <2> QED BY <2>1, <2>2, <1>2, <1>6
<1>9. PICK g : g = [fs EXCEPT ![L] = h]
  OBVIOUS
<1>10. /\ g \in Seq(Frame) /\ g # <<>> /\ Len(g) = Len(fs) /\ g[L] = h
       /\ \A n \in 1..Len(fs) : n # Len(fs) => g[n] = fs[n]
  BY <1>1, <1>7, <1>9, TopFacts
<1>11. SameFrames(fs, g)
  BY <1>1, <1>2, <1>7, <1>10 DEF SameFrames
<1> QED BY <1>1, <1>2, <1>3, <1>5, <1>7, <1>8, <1>9, <1>10, <1>11

\* Taking the next operation of a block out of its rest keeps the invariant, with
\* that operation as the one at hand.
LEMMA AdvanceStep ==
  ASSUME NEW p, NEW U, NEW fs, Inv(p, U, fs, {}), fs[Len(fs)].todo # <<>>,
         NEW i \in InfoSet,
         IsPoint(p, U, fs, TakenFrom(fs, i)[Len(fs)], i)
  PROVE  Inv(p, U, TakenFrom(fs, i), {Head(fs[Len(fs)].todo)})
<1>1. PICK L : L = Len(fs)
  OBVIOUS
<1>2. PICK g : g = TakenFrom(fs, i)
  OBVIOUS
<1>3. PICK f : f = fs[L]
  OBVIOUS
<1>4. PICK h : h = g[L]
  OBVIOUS
<1>5. PICK o : o = Head(f.todo)
  OBVIOUS
<1>6. /\ HasBlocks(p) /\ HasRegions(p)
      /\ fs \in Seq(Frame) /\ fs # <<>> /\ L \in Nat /\ L >= 1 /\ DOMAIN fs = 1..L
      /\ L \in DOMAIN fs
      /\ U \subseteq (DOMAIN p.block) \ {p.root}
  BY <1>1, InvFacts
<1>7. /\ f \in Frame
      /\ f.b \in (DOMAIN p.block) \ U /\ p.block[f.b] # <<>>
      /\ Rem(p, f) \in Seq(Nat) /\ Rem(p, f) # <<>>
      /\ EndsIn(p.block[f.b], Rem(p, f))
      /\ Range(f.todo) \subseteq Todo(fs)
  BY <1>3, <1>6, InvFacts
<1>8. /\ SameFrames(fs, g) /\ h.todo = Tail(f.todo) /\ h.info = i /\ h.op = f.op /\ h.rest = f.rest
  BY <1>1, <1>2, <1>3, <1>4, <1>6, TakenFacts
<1>9. /\ Opening(g) = Opening(fs) /\ DOMAIN g = DOMAIN fs
      /\ \A n \in DOMAIN fs : g[n].b = fs[n].b /\ g[n].got = fs[n].got /\ g[n].saved = fs[n].saved
      /\ \A n \in 1..L - 1 : n \in DOMAIN fs /\ n # L /\ g[n] = fs[n]
      /\ g \in Seq(Frame) /\ g # <<>> /\ Len(g) = L
  BY <1>1, <1>6, <1>8, SameOpening, Zenon DEF SameFrames
<1>10. /\ f.todo \in Seq(Nat) /\ f.todo # <<>> /\ Tail(f.todo) \in Seq(Nat)
       /\ Range(f.todo) = {o} \cup Range(Tail(f.todo))
       /\ o = f.todo[1] /\ 1 \in DOMAIN f.todo
       /\ \A j \in DOMAIN Tail(f.todo) : /\ j + 1 \in DOMAIN f.todo /\ j + 1 # 1
                                         /\ Tail(f.todo)[j] = f.todo[j + 1]
  <2>1. PICK t : t = f.todo
    OBVIOUS
  <2>2. t \in Seq(Nat) /\ t # <<>>
    BY <2>1, <1>1, <1>3, <1>7 DEF Frame
  <2>3. PICK u : u = Tail(t)
    OBVIOUS
  <2>4. /\ u \in Seq(Nat) /\ Len(u) = Len(t) - 1 /\ \A j \in 1..Len(t) - 1 : u[j] = t[j + 1]
        /\ Len(t) \in Nat /\ Len(t) >= 1 /\ DOMAIN t = 1..Len(t) /\ DOMAIN u = 1..Len(t) - 1
        /\ Head(t) = t[1]
    BY <2>2, <2>3
  <2>5. \A j \in 1..Len(t) - 1 : j + 1 \in 1..Len(t) /\ j + 1 # 1
    BY <2>4
  <2>6. \A j \in 1..Len(t) : j = 1 \/ (j - 1 \in 1..Len(t) - 1 /\ (j - 1) + 1 = j)
    BY <2>4
  <2>7. 1 \in 1..Len(t)
    BY <2>4
  <2>8. Range(t) = {t[1]} \cup Range(u)
    <3>1. \A j \in 1..Len(t) : t[j] = t[1] \/ t[j] \in Range(u)
      <4> TAKE j \in 1..Len(t)
      <4>1. CASE j = 1
        BY <4>1
      <4>2. CASE j - 1 \in 1..Len(t) - 1 /\ (j - 1) + 1 = j
        <5>1. u[j - 1] = t[(j - 1) + 1]
          BY <4>2, <2>4
        <5> QED BY <4>2, <5>1, <2>4 DEF Range
      <4> QED BY <4>1, <4>2, <2>6
    <3>2. \A j \in 1..Len(t) - 1 : u[j] \in Range(t)
      BY <2>4, <2>5 DEF Range
    <3> QED BY <3>1, <3>2, <2>4, <2>7, ZenonT(60) DEF Range
  <2> QED BY <2>1, <2>2, <2>3, <2>4, <2>5, <2>7, <2>8, <1>5
<1>11. /\ o = Head(Rem(p, f)) /\ Len(Rem(p, f)) = Len(f.todo) + 1
       /\ o \in Range(p.block[f.b]) /\ Len(f.todo) >= 1 /\ Len(f.todo) \in Nat
  <2>1. Head(Rem(p, f)) = Head(f.todo) /\ Len(Rem(p, f)) = Len(f.todo) + 1
    BY <1>6, <1>7, <1>10, RemFacts
  <2>2. Head(Rem(p, f)) \in Range(p.block[f.b])
    BY <1>6, <1>7, HeadOfRest
  <2>3. Len(f.todo) >= 1 /\ Len(f.todo) \in Nat
    BY <1>10
  <2> QED BY <2>1, <2>2, <2>3, <1>5
<1>12. p.op[o].k # "end"
  <2>1. IndexOf(p, o) = Len(p.block[f.b]) - Len(Rem(p, f)) + 1
    BY <1>6, <1>7, <1>11, HeadOfRest
  <2>2. Len(p.block[f.b]) \in Nat
    BY <1>6, <1>7, BlockFacts
  <2>3. IndexOf(p, o) # Len(p.block[f.b])
    <3>1. PICK a, l, m, k : /\ a = IndexOf(p, o) /\ l = Len(p.block[f.b])
                            /\ m = Len(Rem(p, f)) /\ k = Len(f.todo)
      OBVIOUS
    <3>2. a = l - m + 1 /\ l \in Nat /\ m = k + 1 /\ k >= 1 /\ k \in Nat
      BY <3>1, <2>1, <2>2, <1>11
    <3>3. a # l
      BY <3>2
    <3> QED BY <3>1, <3>3
  <2>4. Last(p.block[f.b]) = p.block[f.b][Len(p.block[f.b])]
    BY DEF Last
  <2>5. IndexOf(p, Last(p.block[f.b])) = Len(p.block[f.b])
    <3>1. Len(p.block[f.b]) \in 1..Len(p.block[f.b])
      BY <2>2, <1>6, <1>7, BlockFacts
    <3>2. \A j \in 1..Len(p.block[f.b]) : IndexOf(p, p.block[f.b][j]) = j
      BY ONLY <1>6, <1>7, BlockFacts, SMTT(60)
    <3> QED BY <3>1, <3>2, <2>4
  <2>6. o # Last(p.block[f.b])
    BY <2>3, <2>5
  <2> QED BY ONLY <2>6, <1>6, <1>7, <1>11, BlockFacts, SMTT(60)
<1>13. \A n \in DOMAIN fs : Range(fs[n].todo) \subseteq Range(p.block[fs[n].b])
  <2> SUFFICES ASSUME NEW n \in DOMAIN fs PROVE Range(fs[n].todo) \subseteq Range(p.block[fs[n].b])
    OBVIOUS
  <2>1. /\ fs[n].b \in DOMAIN p.block /\ Rem(p, fs[n]) \in Seq(Nat) /\ Rem(p, fs[n]) # <<>>
        /\ EndsIn(p.block[fs[n].b], Rem(p, fs[n]))
        /\ Range(fs[n].todo) \subseteq Range(Rem(p, fs[n]))
    BY InvFacts
  <2> QED BY <2>1, <1>6, HeadOfRest
<1>14. o \notin Range(Tail(f.todo))
  <2>1. PICK t : t = f.todo
    OBVIOUS
  <2>2. \A j, k \in DOMAIN t : t[j] = t[k] => j = k
    <3>1. PICK s, e, m, l : /\ s = p.block[f.b] /\ e = Rem(p, f) /\ m = Len(t) /\ l = Len(s)
      OBVIOUS
    <3>2. IsInjective(s) /\ l \in Nat /\ DOMAIN s = 1..l
      BY <3>1, <1>6, <1>7, BlockFacts
    <3>3. /\ m \in Nat /\ DOMAIN t = 1..m /\ \A j \in 1..m : e[j] = t[j]
      <4>1. t \in Seq(Nat)
        BY <2>1, <1>10
      <4>2. e = Append(t, Last(s))
        BY <2>1, <3>1 DEF Rem
      <4> QED BY <4>1, <4>2, <3>1
    <3>4. m + 1 <= l /\ \A j \in 1..m + 1 : e[j] = s[l - (m + 1) + j]
      BY <3>1, <1>7, <1>11, <2>1 DEF EndsIn
    <3> SUFFICES ASSUME NEW j \in 1..m, NEW k \in 1..m, t[j] = t[k] PROVE j = k
      BY <3>3
    <3>5. j \in 1..m + 1 /\ k \in 1..m + 1
      BY <3>3
    <3>6. l - (m + 1) + j \in 1..l /\ l - (m + 1) + k \in 1..l
      BY <3>2, <3>3, <3>4
    <3>7. s[l - (m + 1) + j] = s[l - (m + 1) + k]
      BY <3>3, <3>4, <3>5
    <3>8. l - (m + 1) + j = l - (m + 1) + k
      BY <3>2, <3>6, <3>7 DEF IsInjective
    <3> QED BY <3>8, <3>2, <3>3
  <2>3. \A j \in DOMAIN Tail(t) : Tail(t)[j] # t[1]
    BY <2>1, <2>2, <1>10
  <2> QED BY <2>1, <2>3, <1>10 DEF Range
<1>15. o \notin Todo(g)
  <2>1. ASSUME NEW n \in DOMAIN fs, n # L PROVE o \notin Range(g[n].todo)
    <3>1. g[n] = fs[n]
      BY <2>1, <1>1, <1>6, <1>8 DEF SameFrames
    <3>2. fs[n].b # f.b
      BY <2>1, <1>3, <1>6 DEF Inv, InvPlaces
    <3>3. fs[n].b \in DOMAIN p.block
      BY InvFacts
    <3>4. Range(p.block[fs[n].b]) \cap Range(p.block[f.b]) = {}
      BY <3>2, <3>3, <1>6, <1>7 DEF HasBlocks
    <3> QED BY <3>1, <3>4, <1>11, <1>13
  <2>2. o \notin Range(g[L].todo)
    BY <1>4, <1>8, <1>14
  <2> QED BY <2>1, <2>2, <1>9 DEF Todo
<1>16. Todo(fs) = Todo(g) \cup {o}
  <2>1. \A n \in DOMAIN fs : n # L => Range(g[n].todo) = Range(fs[n].todo)
    BY <1>1, <1>6, <1>8 DEF SameFrames
  <2>2. Range(fs[L].todo) = Range(g[L].todo) \cup {o}
    BY <1>3, <1>4, <1>8, <1>10
  <2> QED BY ONLY <2>1, <2>2, <1>6, <1>9, SMT DEF Todo
<1>17. Pending(p, U, g, {o}) = Pending(p, U, fs, {})
  BY <1>16 DEF Pending
<1>18. InvFrames(p, g)
  BY <1>9 DEF Inv, InvFrames
<1>19. InvSource(p, U, g, {o})
  <2>1. ASSUME NEW n \in DOMAIN g, NEW j \in DOMAIN g[n].todo
        PROVE  IsSourceNode(p.op[g[n].todo[j]])
    <3>1. CASE n = L
      <4>1. f.todo[j + 1] = g[n].todo[j] /\ j + 1 \in DOMAIN f.todo /\ j + 1 # 1
        BY <3>1, <2>1, <1>4, <1>8, <1>10
      <4> QED BY <4>1, <1>3, <1>6 DEF Inv, InvSource
    <3>2. CASE n # L
      <4>1. g[n] = fs[n] /\ n \in DOMAIN fs
        BY <3>2, <1>1, <1>6, <1>8, <1>9 DEF SameFrames
      <4> QED BY <4>1, <3>2, <2>1, <1>1 DEF Inv, InvSource
    <3> QED BY <3>1, <3>2
  <2>2. \A c \in U : o \notin Range(p.block[c])
    <3>1. \A c \in U : c # f.b /\ c \in DOMAIN p.block
      BY <1>6, <1>7
    <3> QED BY <3>1, <1>6, <1>7, <1>11 DEF HasBlocks
  <2>3. IsSourceNode(p.op[o]) \/ IsAssign(p.op[o])
    BY <1>3, <1>6, <1>10 DEF Inv, InvSource
  <2> QED BY <2>1, <2>2, <2>3, <1>12, <1>15 DEF Inv, InvSource
<1>20. InvActive(p, U, g, {o})
  <2>1. \A n \in 1..L - 1 : n + 1 \in DOMAIN fs /\ g[n + 1].b = fs[n + 1].b
    BY <1>6, <1>9
  <2>2. InvActive(p, U, fs, {})
    BY DEF Inv
  <2>3. \A n \in 1..L - 1 : g[n] = fs[n] /\ g[n + 1].b = fs[n + 1].b
    BY <2>1, <1>9
  <2>4. \A m, n \in 1..L - 1 : fs[m].op = fs[n].op => m = n
    BY <2>2, <1>1 DEF InvActive, AreActive, Nested
  <2>5. ASSUME NEW n \in 1..L - 1
        PROVE  /\ fs[n].op \in OpsIn(p) \ Pending(p, U, fs, {})
               /\ p.op[fs[n].op].k \in {"scope", "branch", "for", "forin"}
               /\ IsInjective(fs[n].rest)
               /\ Range(fs[n].rest) \subseteq U \cap Regions(p, fs[n].op)
               /\ fs[n + 1].b \in Regions(p, fs[n].op)
               /\ IsLoop(p, fs[n].op) => Len(p.op[fs[n].op].regions) = 1
               /\ fs[n].info.et \in {"next", "nested"}
    BY <2>2, <1>1 DEF InvActive, AreActive, Nested
  <2> QED BY <2>3, <2>4, <2>5, <1>9, <1>17 DEF InvActive, AreActive, Nested
<1>21. InvPending(p, U, g, {o})
  BY <1>1, <1>9, <1>17, ZenonT(60) DEF Inv, InvPending, LeadsTo
<1>22. InvPlaces(p, U, g)
  <2>1. \A e : Nestable(p, U, g, e) <=> Nestable(p, U, fs, e)
    BY <1>9 DEF Nestable
  <2>2. ASSUME NEW n \in DOMAIN g, n # L
        PROVE  /\ EndsIn(p.block[g[n].b], Rem(p, g[n]))
               /\ IsPoint(p, U, g, g[n], g[n].info)
    <3>1. g[n] = fs[n] /\ n \in DOMAIN fs
      BY <2>2, <1>1, <1>6, <1>8, <1>9 DEF SameFrames
    <3>2. EndsIn(p.block[fs[n].b], Rem(p, fs[n])) /\ IsPoint(p, U, fs, fs[n], fs[n].info)
      BY <3>1 DEF Inv, InvPlaces
    <3> QED BY <3>1, <3>2, <2>1 DEF IsPoint
  <2>3. EndsIn(p.block[h.b], Rem(p, h)) /\ IsPoint(p, U, g, h, h.info)
    <3>1. h.b = f.b
      BY <1>3, <1>4, <1>6, <1>9
    <3>2. Rem(p, h) = Tail(Rem(p, f))
      <4>1. PICK t \in Seq(Nat) : t = f.todo
        BY <1>10
      <4>2. PICK z : z = Last(p.block[f.b])
        OBVIOUS
      <4>3. z \in Nat
        <5>1. p.block[f.b] \in Seq(Nat)
          BY <1>6, <1>7, BlockFacts
        <5> QED BY <5>1, <4>2, <1>7, FrontFacts
      <4>4. t # <<>> => Append(Tail(t), z) = Tail(Append(t, z))
        BY ONLY <4>1, <4>3, SMTT(60)
      <4> QED BY <4>1, <4>2, <4>4, <3>1, <1>8, <1>10 DEF Rem
    <3>3. EndsIn(p.block[f.b], Tail(Rem(p, f)))
      <4>1. p.block[f.b] \in Seq(Nat)
        BY <1>6, <1>7, BlockFacts
      <4> QED BY <4>1, <1>7, EndsInTail
    <3>4. IsPoint(p, U, fs, h, i)
      BY <1>1, <1>2, <1>4
    <3>5. IsPoint(p, U, g, h, i)
      BY <3>4, <2>1 DEF IsPoint
    <3> QED BY <3>1, <3>2, <3>3, <3>5, <1>8
  <2>4. ASSUME NEW n \in DOMAIN g
        PROVE  /\ g[n].b \in (DOMAIN p.block) \ U /\ p.block[g[n].b] # <<>>
               /\ \A x \in Range(g[n].got) :
                    x.et \in {"next", "nested"} => Nestable(p, U, g, x.ep)
    BY <2>1, <1>9 DEF Inv, InvPlaces
  <2>5. \A m, n \in DOMAIN g : g[m].b = g[n].b => m = n
    BY <1>9 DEF Inv, InvPlaces
  <2>6. ASSUME NEW n \in DOMAIN g
        PROVE  EndsIn(p.block[g[n].b], Rem(p, g[n])) /\ IsPoint(p, U, g, g[n], g[n].info)
    BY <2>2, <2>3, <1>4
  <2> QED BY <2>4, <2>5, <2>6 DEF InvPlaces
<1>23. Inv(p, U, g, {o})
  BY <1>18, <1>19, <1>20, <1>21, <1>22 DEF Inv
<1> QED BY <1>1, <1>2, <1>3, <1>5, <1>23

-----------------------------------------------------------------------------
(* Frames opened and closed *)

\* g is fs with another top frame, of the same block and with the same rest.
Exchanged(p, U, fs, g) ==
  /\ g \in Seq(Frame) /\ g # <<>> /\ Len(g) = Len(fs)
  /\ DOMAIN g = DOMAIN fs /\ DOMAIN fs = 1..Len(fs) /\ Len(fs) \in 1..Len(fs)
  /\ \A n \in 1..Len(fs) - 1 : n \in 1..Len(fs) /\ n # Len(fs) /\ g[n] = fs[n]
  /\ Opening(g) = Opening(fs) /\ Todo(g) = Todo(fs)
  /\ \A n \in 1..Len(fs) : g[n].b = fs[n].b /\ g[n].todo = fs[n].todo
  /\ \A X : Pending(p, U, g, X) = Pending(p, U, fs, X)
  /\ \A e : Nestable(p, U, g, e) <=> Nestable(p, U, fs, e)
  /\ \A X : InvSource(p, U, fs, X) => InvSource(p, U, g, X)
  /\ Nested(p, fs) => Nested(p, g)

\* A change of the innermost call that keeps its block and rest is one that
\* Exchanged allows.
LEMMA TopKept ==
  ASSUME NEW p, NEW U, NEW fs \in Seq(Frame), fs # <<>>, NEW h \in Frame,
         h.b = fs[Len(fs)].b, h.todo = fs[Len(fs)].todo,
         NEW g, g = [fs EXCEPT ![Len(fs)] = h]
  PROVE  Exchanged(p, U, fs, g) /\ g[Len(fs)] = h
<1>1. PICK L : L = Len(fs)
  OBVIOUS
<1>2. /\ g \in Seq(Frame) /\ g # <<>> /\ Len(g) = L /\ g[L] = h
      /\ \A n \in 1..L : n # L => g[n] = fs[n]
      /\ L \in Nat /\ L >= 1 /\ DOMAIN fs = 1..L /\ DOMAIN g = 1..L
  BY <1>1, TopFacts
<1>3. \A n \in 1..L : g[n].b = fs[n].b /\ g[n].todo = fs[n].todo
  BY <1>1, <1>2
<1>4. L \in 1..L /\ \A n \in 1..L - 1 : n \in 1..L /\ n # L /\ n + 1 \in 1..L
  BY <1>2
<1>5. Opening(g) = Opening(fs)
  BY <1>2, <1>3 DEF Opening
<1>6. Todo(g) = Todo(fs)
  BY <1>2, <1>3 DEF Todo
<1>7. \A X : Pending(p, U, g, X) = Pending(p, U, fs, X)
  BY <1>6 DEF Pending
<1>8. \A e : Nestable(p, U, g, e) <=> Nestable(p, U, fs, e)
  BY <1>5 DEF Nestable
<1>9. ASSUME NEW X, InvSource(p, U, fs, X) PROVE InvSource(p, U, g, X)
  <2>1. \A n \in DOMAIN g : n \in DOMAIN fs /\ g[n].todo = fs[n].todo
    BY <1>2, <1>3
  <2>2. Len(g) = Len(fs)
    BY <1>1, <1>2
  <2> QED BY <2>1, <2>2, <1>6, <1>9 DEF InvSource
<1>10. Nested(p, fs) => Nested(p, g)
  BY <1>1, <1>2, <1>3, <1>4 DEF Nested
<1> QED BY <1>1, <1>2, <1>3, <1>4, <1>5, <1>6, <1>7, <1>8, <1>9, <1>10 DEF Exchanged

\* Such a change leaves the calls well formed,
LEMMA FramesKept ==
  ASSUME NEW p, NEW U, NEW fs, NEW g, Exchanged(p, U, fs, g), InvFrames(p, fs),
         AreVariables(p, g[Len(fs)].saved)
  PROVE  InvFrames(p, g)
<1>1. PICK L : L = Len(fs)
  OBVIOUS
<1>2. fs \in Seq(Frame) /\ fs # <<>> /\ \A n \in DOMAIN fs : AreVariables(p, fs[n].saved)
  BY Zenon DEF InvFrames
<1>3. /\ g \in Seq(Frame) /\ g # <<>> /\ DOMAIN g = 1..L /\ DOMAIN fs = 1..L
      /\ \A n \in 1..L - 1 : g[n] = fs[n]
  BY <1>1 DEF Exchanged
<1>4. L \in Nat /\ \A n \in 1..L : n \in 1..L - 1 \/ n = L
  BY <1>1, <1>2
<1>5. \A n \in 1..L : AreVariables(p, g[n].saved)
  BY <1>1, <1>2, <1>3, <1>4
<1> QED BY <1>3, <1>5 DEF InvFrames

\* and leaves their insertion points where code may be put, if the new one is.
LEMMA PlacesKept ==
  ASSUME NEW p, NEW U, NEW fs, NEW g, Exchanged(p, U, fs, g), fs \in Seq(Frame),
         InvPlaces(p, U, fs),
         IsPoint(p, U, fs, fs[Len(fs)], g[Len(fs)].info),
         \A x \in Range(g[Len(fs)].got) : x.et \in {"next", "nested"} => Nestable(p, U, fs, x.ep)
  PROVE  InvPlaces(p, U, g)
<1>1. PICK L : L = Len(fs)
  BY Zenon
<1>2. /\ DOMAIN g = 1..L /\ DOMAIN fs = 1..L
      /\ \A n \in 1..L - 1 : g[n] = fs[n]
      /\ \A n \in 1..L : g[n].b = fs[n].b /\ g[n].todo = fs[n].todo
      /\ \A e : Nestable(p, U, g, e) <=> Nestable(p, U, fs, e)
  BY <1>1, Zenon DEF Exchanged
<1>3. L \in Nat /\ \A n \in 1..L : n \in 1..L - 1 \/ n = L
  BY <1>1
<1>4. \A n \in 1..L : Rem(p, g[n]) = Rem(p, fs[n])
  BY <1>2 DEF Rem
<1>5. ASSUME NEW n \in DOMAIN g
      PROVE  /\ g[n].b \in (DOMAIN p.block) \ U
             /\ p.block[g[n].b] # <<>>
             /\ EndsIn(p.block[g[n].b], Rem(p, g[n]))
             /\ IsPoint(p, U, g, g[n], g[n].info)
             /\ \A x \in Range(g[n].got) :
                  x.et \in {"next", "nested"} => Nestable(p, U, g, x.ep)
  <2>1. /\ g[n].b \in (DOMAIN p.block) \ U
        /\ p.block[g[n].b] # <<>>
        /\ EndsIn(p.block[g[n].b], Rem(p, g[n]))
    BY <1>2, <1>4 DEF InvPlaces
  <2>2. IsPoint(p, U, fs, fs[n], g[n].info)
    <3>1. CASE n = L
      BY <3>1, <1>1
    <3>2. CASE n # L
      BY <3>2, <1>2, <1>3 DEF InvPlaces
    <3> QED BY <3>1, <3>2
  <2>3. IsPoint(p, U, g, g[n], g[n].info)
    BY <2>2, <1>2, <1>4 DEF IsPoint, AtRest
  <2>4. \A x \in Range(g[n].got) : x.et \in {"next", "nested"} => Nestable(p, U, g, x.ep)
    <3>1. CASE n = L
      BY <3>1, <1>1, <1>2
    <3>2. CASE n # L
      BY <3>2, <1>2, <1>3 DEF InvPlaces
    <3> QED BY <3>1, <3>2
  <2> QED BY <2>1, <2>3, <2>4
<1>6. \A m, n \in DOMAIN g : g[m].b = g[n].b => m = n
  BY <1>2 DEF InvPlaces
<1> QED BY <1>5, <1>6 DEF InvPlaces

\* The info of the top frame is another.
LEMMA InfoStep ==
  ASSUME NEW p, NEW U, NEW fs, NEW X, Inv(p, U, fs, X), NEW i \in InfoSet,
         IsPoint(p, U, fs, fs[Len(fs)], i)
  PROVE  Inv(p, U, [fs EXCEPT ![Len(fs)].info = i], X)
<1>1. PICK L : L = Len(fs)
  OBVIOUS
<1>2. fs \in Seq(Frame) /\ fs # <<>> /\ L \in DOMAIN fs
  BY <1>1, InvFacts
<1>3. PICK h : h = [fs[L] EXCEPT !.info = i]
  OBVIOUS
<1>4. fs[L] \in Frame
  BY <1>2
<1>5. /\ h \in Frame /\ h.b = fs[L].b /\ h.todo = fs[L].todo /\ h.got = fs[L].got /\ h.info = i
      /\ h.saved = fs[L].saved
  BY <1>3, <1>4 DEF Frame
<1>6. PICK g : g = [fs EXCEPT ![L] = h]
  OBVIOUS
<1>7. g = [fs EXCEPT ![Len(fs)].info = i]
  BY <1>1, <1>2, <1>3, <1>6
<1>8. /\ InvFrames(p, fs) /\ AreVariables(p, h.saved) /\ InvPlaces(p, U, fs)
      /\ \A x \in Range(h.got) : x.et \in {"next", "nested"} => Nestable(p, U, fs, x.ep)
  BY <1>2, <1>5, Zenon DEF Inv, InvFrames, InvPlaces
<1>9. /\ InvFrames(p, g) /\ InvPlaces(p, U, g) /\ InvSource(p, U, g, X) /\ Nested(p, g)
      /\ Len(g) = L /\ \A n \in 1..L - 1 : g[n] = fs[n]
      /\ Pending(p, U, g, X) = Pending(p, U, fs, X)
  <2>1. InvSource(p, U, fs, X) /\ Nested(p, fs)
    BY DEF Inv, InvActive
  <2>2. Exchanged(p, U, fs, g) /\ g[Len(fs)] = h
    BY <1>1, <1>2, <1>5, <1>6, TopKept
  <2>3. InvFrames(p, g)
    BY <2>2, <1>8, FramesKept
  <2>4. InvPlaces(p, U, g)
    BY <2>2, <1>2, <1>5, <1>8, PlacesKept
  <2> QED BY <2>1, <2>2, <2>3, <2>4, <1>1, Zenon DEF Exchanged
<1>10. InvActive(p, U, g, X)
  <2>1. AreActive(p, U, fs, X, L - 1)
    BY <1>1 DEF Inv, InvActive
  <2>2. AreActive(p, U, g, X, L - 1)
    BY <2>1, <1>9, ZenonT(60) DEF AreActive
  <2> QED BY <2>2, <1>9 DEF InvActive
<1>11. InvPending(p, U, g, X)
  <2>1. LeadsTo(p, U, fs, X, L - 1)
    BY <1>1 DEF Inv, InvPending
  <2>2. LeadsTo(p, U, g, X, L - 1)
    BY <2>1, <1>9 DEF LeadsTo
  <2> QED BY <2>2, <1>9 DEF InvPending
<1> QED BY <1>7, <1>9, <1>10, <1>11 DEF Inv

\* A frame for a block of at least a terminator.
IsNewFrame(p, b, f) ==
  /\ f \in Frame
  /\ f.b = b /\ f.todo = Front(p.block[b]) /\ f.todo \in Seq(Nat) /\ f.rest = <<>> /\ f.got = <<>> /\ f.op = 0
  /\ f.saved = NoGuards
  /\ Range(f.todo) \subseteq Range(p.block[b])
  /\ Range(p.block[b]) = Range(f.todo) \cup {Last(p.block[b])}
  /\ f.info \in InfoSet /\ f.info.et = "next" /\ f.info.ep = Head(p.block[b])
  /\ Rem(p, f) = p.block[b] /\ EndsIn(p.block[b], Rem(p, f))
  /\ AtRest(p, f, f.info.ep)

\* A call of visitBlock starts with all of the block and a point at its head.
LEMMA NewFrameFacts ==
  ASSUME NEW p, HasBlocks(p), NEW b \in DOMAIN p.block, p.block[b] # <<>>
  PROVE  IsNewFrame(p, b, NewFrame(p, b))
<1>1. PICK s : s = p.block[b]
  OBVIOUS
<1>2. s \in Seq(Nat) /\ s # <<>> /\ b \in Nat
  <2>1. p.block[b] \in Seq(Nat)
    BY BlockFacts
  <2>2. b \in 1..Len(p.block) /\ Len(p.block) \in Nat
    BY CodeFacts
  <2> QED BY <1>1, <2>1, <2>2
<1>3. /\ Front(s) \in Seq(Nat) /\ Append(Front(s), Last(s)) = s /\ EndsIn(s, s)
      /\ Head(s) \in Nat /\ Last(s) \in Nat
      /\ Range(s) = Range(Front(s)) \cup {Last(s)}
  BY <1>2, FrontFacts
<1>4. PICK t : t = Front(s)
  OBVIOUS
<1>5. PICK i : i = Info({}, "next", Head(s))
  OBVIOUS
<1>6. i \in InfoSet /\ i.et = "next" /\ i.ep = Head(s)
  BY <1>3, <1>5 DEF Info, InfoSet
<1>7. PICK f : f = [b |-> b, todo |-> t, info |-> i, op |-> 0, rest |-> <<>>, got |-> <<>>,
                    saved |-> NoGuards]
  OBVIOUS
<1>8. f = NewFrame(p, b)
  BY <1>1, <1>4, <1>5, <1>7 DEF NewFrame
<1>9. NoGuards \in GuardSet
  BY DEF NoGuards, GuardSet, NoVar
<1>10. f \in Frame
  BY <1>2, <1>3, <1>4, <1>6, <1>7, <1>9 DEF Frame
<1>11. /\ f.b = b /\ f.todo = t /\ f.rest = <<>> /\ f.got = <<>> /\ f.info = i /\ f.op = 0
       /\ f.saved = NoGuards
  BY <1>7
<1>12. Rem(p, f) = s
  BY <1>1, <1>3, <1>4, <1>11 DEF Rem
<1> QED BY <1>1, <1>3, <1>4, <1>6, <1>8, <1>10, <1>11, <1>12 DEF IsNewFrame, AtRest

\* The operation taken out becomes the one whose regions are visited.
LEMMA BetweenOpen ==
  ASSUME NEW p, NEW U, NEW fs, NEW o, Inv(p, U, fs, {o}), NEW h \in Frame,
         h.b = fs[Len(fs)].b, h.todo = fs[Len(fs)].todo,
         h.info.et \in {"next", "nested"}, IsPoint(p, U, fs, fs[Len(fs)], h.info),
         h.op = o, h.rest = p.op[o].regions, h.got = <<>>, AreVariables(p, h.saved),
         p.op[o].k \in {"scope", "branch", "for", "forin"},
         IsLoop(p, o) => Len(p.op[o].regions) = 1,
         NEW g, g = [fs EXCEPT ![Len(fs)] = h]
  PROVE  Between(p, U, g)
<1>1. PICK L : L = Len(fs)
  OBVIOUS
<1>2. /\ HasBlocks(p) /\ HasRegions(p)
      /\ fs \in Seq(Frame) /\ fs # <<>> /\ L \in Nat /\ L >= 1 /\ DOMAIN fs = 1..L
      /\ o \in OpsIn(p) /\ Regions(p, o) \subseteq U
  BY <1>1, InvFacts
<1>3. Exchanged(p, U, fs, g) /\ g[L] = h
  <2>1. fs \in Seq(Frame) /\ fs # <<>>
    BY <1>2
  <2>2. Exchanged(p, U, fs, g) /\ g[Len(fs)] = h
    BY <2>1, TopKept
  <2> QED BY <2>2, <1>1
<1>4. /\ Len(g) = L /\ DOMAIN g = 1..L
      /\ \A n \in 1..L - 1 : g[n] = fs[n]
      /\ \A n \in 1..L : g[n].b = fs[n].b /\ g[n].todo = fs[n].todo
      /\ \A X : Pending(p, U, g, X) = Pending(p, U, fs, X)
  BY <1>1, <1>2, <1>3 DEF Exchanged
<1>5. /\ IsCode(p) /\ InvFrames(p, fs) /\ InvSource(p, U, fs, {o}) /\ InvActive(p, U, fs, {o})
      /\ InvPending(p, U, fs, {o}) /\ InvPlaces(p, U, fs) /\ Grounded(p, U)
  BY DEF Inv
<1>6. /\ Pending(p, U, fs, {o}) = Pending(p, U, fs, {}) \cup {o}
      /\ o \notin Pending(p, U, fs, {})
  BY <1>5 DEF Pending, InvSource
<1>7. InvFrames(p, g)
  BY <1>1, <1>3, <1>5, FramesKept
<1>8. \A n \in DOMAIN fs : \A i \in DOMAIN fs[n].todo : IsSourceNode(p.op[fs[n].todo[i]])
  BY <1>5 DEF InvSource
<1>9. InvSource(p, U, g, {})
  BY <1>2, <1>4, <1>5, <1>8 DEF InvSource
<1>10. \A i \in DOMAIN g[L].todo : IsSourceNode(p.op[g[L].todo[i]])
  BY <1>2, <1>4, <1>8
<1>11. \A n \in 1..L : n \in 1..L - 1 \/ n = L
  BY <1>2
<1>12. ASSUME NEW n \in 1..L - 1
       PROVE  /\ fs[n].op \in OpsIn(p) \ Pending(p, U, fs, {o})
              /\ p.op[fs[n].op].k \in {"scope", "branch", "for", "forin"}
              /\ IsInjective(fs[n].rest)
              /\ Range(fs[n].rest) \subseteq U \cap Regions(p, fs[n].op)
              /\ IsLoop(p, fs[n].op) => Len(p.op[fs[n].op].regions) = 1
              /\ fs[n].info.et \in {"next", "nested"}
  BY <1>1, <1>5 DEF InvActive, AreActive
<1>13. AreActive(p, U, g, {}, L)
  <2>1. ASSUME NEW n \in 1..L
        PROVE  /\ g[n].op \in OpsIn(p) \ Pending(p, U, g, {})
               /\ p.op[g[n].op].k \in {"scope", "branch", "for", "forin"}
               /\ IsInjective(g[n].rest)
               /\ Range(g[n].rest) \subseteq U \cap Regions(p, g[n].op)
               /\ IsLoop(p, g[n].op) => Len(p.op[g[n].op].regions) = 1
               /\ g[n].info.et \in {"next", "nested"}
    <3>1. CASE n \in 1..L - 1
      BY <3>1, <1>4, <1>6, <1>12, ZenonT(60)
    <3>2. CASE n = L
      <4>1. IsInjective(h.rest) /\ Range(h.rest) = Regions(p, o)
        BY <1>2 DEF HasRegions, Regions
      <4>2. g[n] = h /\ o \in OpsIn(p) \ Pending(p, U, g, {})
        BY <3>2, <1>2, <1>3, <1>4, <1>6
      <4>3. Range(h.rest) \subseteq U \cap Regions(p, o)
        BY <4>1, <1>2
      <4> QED BY <4>1, <4>2, <4>3
    <3> QED BY <3>1, <3>2, <1>11
  <2>2. ASSUME NEW m \in 1..L, NEW n \in 1..L, g[m].op = g[n].op PROVE m = n
    <3>1. ASSUME NEW k \in 1..L - 1 PROVE g[k].op # o
      <4>1. fs[k].op \notin Pending(p, U, fs, {o})
        BY <1>12
      <4>2. o \in Pending(p, U, fs, {o})
        BY <1>6
      <4>3. g[k] = fs[k]
        BY <1>4
      <4> QED BY <4>1, <4>2, <4>3
    <3>2. \A j, k \in 1..L - 1 : fs[j].op = fs[k].op => j = k
      BY <1>1, <1>5 DEF InvActive, AreActive
    <3> QED BY <3>1, <3>2, <2>2, <1>3, <1>4, <1>11
  <2> QED BY <2>1, <2>2 DEF AreActive
<1>14. Nested(p, g)
  BY <1>3, <1>5 DEF Exchanged, InvActive
<1>15. LeadsTo(p, U, g, {}, L)
  <2>1. LeadsTo(p, U, fs, {o}, L - 1)
    BY <1>1, <1>5 DEF InvPending
  <2>2. ASSUME NEW b \in U
        PROVE  /\ p.block[b] # <<>>
               /\ \E x \in OpsIn(p) :
                    /\ b \in Regions(p, x)
                    /\ \/ x \in Pending(p, U, g, {})
                       \/ \E n \in 1..L : x = g[n].op /\ b \in Range(g[n].rest)
    <3>1. p.block[b] # <<>>
      BY <2>1 DEF LeadsTo
    <3>2. PICK x \in OpsIn(p) :
            /\ b \in Regions(p, x)
            /\ \/ x \in Pending(p, U, fs, {o})
               \/ \E n \in 1..L - 1 : x = fs[n].op /\ b \in Range(fs[n].rest)
      BY <2>1 DEF LeadsTo
    <3>3. CASE x = o
      <4>1. L \in 1..L /\ x = g[L].op /\ b \in Range(g[L].rest)
        BY <3>2, <3>3, <1>2, <1>3 DEF Regions
      <4> QED BY <4>1, <3>1, <3>2
    <3>4. CASE x \in Pending(p, U, fs, {})
      BY <3>1, <3>2, <3>4, <1>4, ZenonT(60)
    <3>5. CASE \E n \in 1..L - 1 : x = fs[n].op /\ b \in Range(fs[n].rest)
      <4>1. PICK n \in 1..L - 1 : x = fs[n].op /\ b \in Range(fs[n].rest)
        BY <3>5
      <4>2. n \in 1..L /\ x = g[n].op /\ b \in Range(g[n].rest)
        BY <4>1, <1>2, <1>4
      <4> QED BY <4>2, <3>1, <3>2
    <3> QED BY <3>2, <3>3, <3>4, <3>5, <1>6
  <2>3. ASSUME NEW x \in OpsIn(p), IsSoft(p, x) PROVE x \in Pending(p, U, g, {})
    <3>1. x \in Pending(p, U, fs, {o})
      BY <2>1, <2>3 DEF LeadsTo
    <3>2. x # o
      BY <2>3 DEF IsSoft
    <3> QED BY <3>1, <3>2, <1>4, <1>6
  <2>4. Pending(p, U, g, {}) \subseteq Pending(p, U, fs, {o})
    BY <1>4, <1>6
  <2> QED BY <2>1, <2>2, <2>3, <2>4 DEF LeadsTo
<1>16. InvPlaces(p, U, g)
  <2>1. Range(<<>>) = {}
    BY DEF Range
  <2>2. \A x \in Range(g[L].got) : x.et \in {"next", "nested"} => Nestable(p, U, fs, x.ep)
    BY <2>1, <1>3, SMTT(60)
  <2> QED BY <2>2, <1>1, <1>2, <1>3, <1>5, PlacesKept
<1> QED BY <1>4, <1>5, <1>7, <1>9, <1>10, <1>13, <1>14, <1>15, <1>16 DEF Between

\* The first of the regions still to visit is opened.
LEMMA Push ==
  ASSUME NEW p, NEW U, NEW fs, Between(p, U, fs), NEW b, NEW h \in Frame,
         fs[Len(fs)].rest # <<>>, b = Head(fs[Len(fs)].rest),
         h.b = fs[Len(fs)].b, h.todo = fs[Len(fs)].todo, h.info = fs[Len(fs)].info,
         h.op = fs[Len(fs)].op, h.rest = Tail(fs[Len(fs)].rest), AreVariables(p, h.saved),
         \A x \in Range(h.got) : x.et \in {"next", "nested"} => Nestable(p, U, fs, x.ep),
         NEW g, g = [fs EXCEPT ![Len(fs)] = h]
  PROVE  Inv(p, U \ {b}, Append(g, NewFrame(p, b)), {})
<1>1. PICK L, f : L = Len(fs) /\ f = fs[L]
  OBVIOUS
<1>2. PICK V, G : V = U \ {b} /\ G = Append(g, NewFrame(p, b))
  OBVIOUS
<1>3. /\ IsCode(p) /\ InvFrames(p, fs) /\ InvSource(p, U, fs, {})
      /\ \A i \in DOMAIN fs[L].todo : IsSourceNode(p.op[fs[L].todo[i]])
      /\ AreActive(p, U, fs, {}, L) /\ Nested(p, fs) /\ LeadsTo(p, U, fs, {}, L)
      /\ InvPlaces(p, U, fs) /\ Grounded(p, U)
  BY <1>1 DEF Between
<1>4. HasBlocks(p) /\ HasRegions(p)
  BY <1>3, CodeParts
<1>5. fs \in Seq(Frame) /\ fs # <<>>
  BY <1>3 DEF InvFrames
<1>6. L \in Nat /\ L >= 1 /\ DOMAIN fs = 1..L /\ L \in 1..L
  BY <1>1, <1>5
<1>7. Exchanged(p, U, fs, g) /\ g[L] = h
  <2>1. Exchanged(p, U, fs, g) /\ g[Len(fs)] = h
    BY <1>5, TopKept
  <2> QED BY <2>1, <1>1
<1>8. /\ Len(g) = L /\ DOMAIN g = 1..L /\ g \in Seq(Frame)
      /\ \A n \in 1..L - 1 : g[n] = fs[n]
      /\ \A n \in 1..L : g[n].b = fs[n].b /\ g[n].todo = fs[n].todo
      /\ Opening(g) = Opening(fs) /\ Nested(p, g)
  BY <1>1, <1>3, <1>6, <1>7 DEF Exchanged
<1>9. \A n \in 1..L : g[n].op = fs[n].op
  BY <1>1, <1>6, <1>7, <1>8
<1>10. \A n \in 1..L : n \in 1..L - 1 \/ n = L
  BY <1>6
\* The region and the operation it is of.
<1>11. /\ f \in Frame /\ f.rest \in Seq(Nat) /\ f.rest # <<>> /\ b = Head(f.rest)
       /\ h.rest = Tail(f.rest)
       /\ IsInjective(f.rest) /\ Range(f.rest) \subseteq U \cap Regions(p, f.op)
       /\ f.op \in OpsIn(p) \ Pending(p, U, fs, {})
  <2>1. f \in Frame
    BY <1>1, <1>5, <1>6
  <2>2. f.rest \in Seq(Nat)
    BY <2>1 DEF Frame
  <2> QED BY <2>1, <2>2, <1>1, <1>3, <1>6 DEF AreActive
<1>12. /\ b \in Range(f.rest) /\ IsInjective(Tail(f.rest))
       /\ Range(Tail(f.rest)) = Range(f.rest) \ {b}
  <2>1. PICK s : s = f.rest
    OBVIOUS
  <2>2. s \in Seq(Nat) /\ s # <<>> /\ b = Head(s) /\ IsInjective(s)
    BY <2>1, <1>11
  <2>3. PICK u : u = Tail(s)
    OBVIOUS
  <2>4. /\ u \in Seq(Nat) /\ Len(u) = Len(s) - 1 /\ \A j \in 1..Len(s) - 1 : u[j] = s[j + 1]
        /\ Len(s) \in Nat /\ Len(s) >= 1 /\ DOMAIN s = 1..Len(s) /\ DOMAIN u = 1..Len(s) - 1
        /\ b = s[1]
    BY <2>2, <2>3
  <2>5. PICK m : m = Len(s)
    OBVIOUS
  <2>6. /\ m \in Nat /\ m >= 1 /\ DOMAIN s = 1..m /\ DOMAIN u = 1..m - 1
        /\ \A j \in 1..m - 1 : u[j] = s[j + 1]
    BY <2>4, <2>5
  <2>7. \A j \in 1..m - 1 : j + 1 \in 1..m /\ j + 1 # 1
    BY <2>6
  <2>8. \A j \in 1..m : j = 1 \/ (j - 1 \in 1..m - 1 /\ (j - 1) + 1 = j)
    BY <2>6
  <2>9. 1 \in 1..m
    BY <2>6
  <2>10. \A i, j \in 1..m : s[i] = s[j] => i = j
    BY <2>2, <2>6 DEF IsInjective
  <2>11. IsInjective(u)
    <3>1. \A i, j \in 1..m - 1 : u[i] = u[j] => i + 1 = j + 1
      BY <2>6, <2>7, <2>10
    <3>2. \A i, j \in 1..m - 1 : i + 1 = j + 1 => i = j
      BY <2>6
    <3> QED BY <3>1, <3>2, <2>6 DEF IsInjective
  <2>12. \A j \in 1..m - 1 : u[j] \in Range(s) \ {b}
    BY <2>4, <2>6, <2>7, <2>9, <2>10, ZenonT(60) DEF Range
  <2>13. \A j \in 1..m : s[j] # b => s[j] \in Range(u)
    <3> SUFFICES ASSUME NEW j \in 1..m, s[j] # b PROVE s[j] \in Range(u)
      OBVIOUS
    <3>1. j - 1 \in 1..m - 1 /\ (j - 1) + 1 = j
      BY <2>4, <2>8
    <3>2. u[j - 1] = s[j]
      BY <3>1, <2>6
    <3> QED BY <3>1, <3>2, <2>6 DEF Range
  <2>14. b \in Range(s)
    BY <2>4, <2>6, <2>9 DEF Range
  <2>15. Range(u) = Range(s) \ {b}
    BY <2>12, <2>13, <2>6, ZenonT(60) DEF Range
  <2> QED BY <2>1, <2>3, <2>11, <2>14, <2>15
<1>13. /\ b \in U /\ b \in Regions(p, f.op) /\ b \in (DOMAIN p.block) \ {p.root}
       /\ p.block[b] # <<>>
       /\ b \in Nat
  <2>1. b \in U /\ b \in Regions(p, f.op)
    BY <1>11, <1>12
  <2>2. b \in (DOMAIN p.block) \ {p.root} /\ p.block[b] # <<>>
    BY <2>1, <1>3 DEF LeadsTo
  <2>3. b \in 1..Len(p.block) /\ Len(p.block) \in Nat
    BY <2>2, <1>4, CodeFacts
  <2> QED BY <2>1, <2>2, <2>3
<1>14. PICK e : e = NewFrame(p, b)
  OBVIOUS
<1>15. IsNewFrame(p, b, e)
  BY <1>4, <1>13, <1>14, NewFrameFacts, SMTT(60)
<1>16. /\ e \in Frame /\ e.b = b /\ e.rest = <<>> /\ e.got = <<>> /\ e.saved = NoGuards
       /\ e.todo \in Seq(Nat)
       /\ Range(p.block[b]) = Range(e.todo) \cup {Last(p.block[b])}
       /\ e.info.et = "next"
       /\ EndsIn(p.block[b], Rem(p, e))
       /\ AtRest(p, e, e.info.ep)
  BY <1>15, ZenonT(60) DEF IsNewFrame
\* The frames.
<1>17. /\ G \in Seq(Frame) /\ G # <<>> /\ Len(G) = L + 1 /\ DOMAIN G = 1..L + 1
       /\ G[L + 1] = e /\ \A n \in 1..L : G[n] = g[n]
  <2>1. G = Append(g, e)
    BY <1>2, <1>14
  <2> QED BY <2>1, <1>8, <1>16
<1>18. /\ \A n \in 1..L + 1 : n \in 1..L \/ n = L + 1
       /\ \A n \in 1..L : n \in 1..L + 1
       /\ L + 1 \in 1..L + 1 /\ (L + 1) - 1 = L
  BY <1>6
<1>19. InvFrames(p, G)
  <2>1. InvFrames(p, g)
    BY <1>1, <1>3, <1>7, FramesKept
  <2>2. AreVariables(p, e.saved)
    BY <1>16 DEF AreVariables, NoGuards
  <2> QED BY <2>1, <2>2, <1>8, <1>17, <1>18 DEF InvFrames
<1>20. Opening(G) = Opening(fs) \cup {b}
  <2>1. \A n \in 1..L : G[n].b = fs[n].b
    BY ONLY <1>8, <1>17, Zenon
  <2>2. DOMAIN fs = 1..L /\ G[L + 1].b = b
    BY ONLY <1>6, <1>8, <1>16, <1>17, Zenon
  <2> QED BY ONLY <2>1, <2>2, <1>17, <1>18, ZenonT(60) DEF Opening
<1>21. Todo(G) = Todo(fs) \cup Range(e.todo)
  BY ONLY <1>6, <1>8, <1>17, <1>18, SMTT(60) DEF Todo
\* The terminator is no longer pending; there is nothing behind it.
<1>22. PICK z : z = Last(p.block[b])
  OBVIOUS
<1>23. Regions(p, z) = {} /\ ~IsSoft(p, z)
  <2>1. z \in Range(p.block[b]) /\ p.op[z].k = "end"
    BY <1>4, <1>13, <1>22, BlockFacts
  <2>2. IsSourceNode(p.op[z])
    BY <2>1, <1>3, <1>13 DEF InvSource
  <2>3. p.op[z].regions = <<>>
    BY <2>1, <2>2, Zenon DEF IsSourceNode
  <2> QED BY <2>1, <2>3, SMTT(60) DEF Regions, Range, IsSoft
<1>24. /\ Pending(p, V, G, {}) \subseteq Pending(p, U, fs, {})
       /\ Pending(p, U, fs, {}) \subseteq Pending(p, V, G, {}) \cup {z}
  <2>1. PICK A : A = UNION {Range(p.block[c]) : c \in V}
    OBVIOUS
  <2>2. UNION {Range(p.block[c]) : c \in U} = A \cup Range(p.block[b])
    BY <2>1, <1>2, <1>13
  <2>3. Pending(p, U, fs, {}) = (A \cup Range(p.block[b])) \cup Todo(fs)
    BY <2>2 DEF Pending
  <2>4. Pending(p, V, G, {}) = A \cup (Todo(fs) \cup Range(e.todo))
    BY <2>1, <1>21 DEF Pending
  <2> QED BY <2>3, <2>4, <1>16, <1>22
<1>25. InvSource(p, V, G, {})
  <2>1. ASSUME NEW n \in 1..L, NEW i \in DOMAIN fs[n].todo PROVE IsSourceNode(p.op[fs[n].todo[i]])
    <3>1. CASE n = L
      BY <3>1, <2>1, <1>3
    <3>2. CASE n # L
      BY <3>2, <2>1, <1>1, <1>3, <1>6 DEF InvSource
    <3> QED BY <3>1, <3>2
  <2>2. ASSUME NEW i \in DOMAIN e.todo PROVE IsSourceNode(p.op[e.todo[i]])
    <3>1. e.todo[i] \in Range(p.block[b])
      BY <1>16, Zenon DEF Range
    <3> QED BY <3>1, <1>3, <1>13, Zenon DEF InvSource
  <2>3. ASSUME NEW n \in DOMAIN G, NEW i \in DOMAIN G[n].todo PROVE IsSourceNode(p.op[G[n].todo[i]])
    BY <2>1, <2>2, <1>8, <1>17, <1>18
  <2>4. \A c \in V : \A o \in Range(p.block[c]) :
          IsSourceNode(p.op[o]) /\ \A r \in Regions(p, o) : r < c
    BY <1>2, <1>3 DEF InvSource
  <2> QED BY <2>3, <2>4 DEF InvSource
<1>26. ASSUME NEW n \in 1..L
       PROVE  /\ fs[n].op \in OpsIn(p) \ Pending(p, U, fs, {})
              /\ p.op[fs[n].op].k \in {"scope", "branch", "for", "forin"}
              /\ IsInjective(fs[n].rest)
              /\ Range(fs[n].rest) \subseteq U \cap Regions(p, fs[n].op)
              /\ IsLoop(p, fs[n].op) => Len(p.op[fs[n].op].regions) = 1
              /\ fs[n].info.et \in {"next", "nested"}
              /\ \A m \in 1..L : fs[m].op = fs[n].op => m = n
  BY <1>3 DEF AreActive
<1>27. \A o \in OpsIn(p) : b \in Regions(p, o) => o = f.op
  BY <1>4, <1>11, <1>13 DEF HasRegions
<1>28. ASSUME NEW n \in 1..L
       PROVE  IsInjective(g[n].rest) /\ Range(g[n].rest) = Range(fs[n].rest) \ {b}
  <2>1. CASE n = L
    BY <2>1, <1>1, <1>7, <1>11, <1>12
  <2>2. CASE n # L
    <3>1. g[n] = fs[n]
      BY <2>2, <1>8, <1>10
    <3>2. fs[n].op # f.op
      BY <2>2, <1>1, <1>6, <1>26
    <3>3. b \notin Range(fs[n].rest)
      BY <3>2, <1>26, <1>27
    <3> QED BY <3>1, <3>3, <1>26
  <2> QED BY <2>1, <2>2
<1>29. AreActive(p, V, G, {}, L)
  <2>1. ASSUME NEW n \in 1..L
        PROVE  /\ G[n].op \in OpsIn(p) \ Pending(p, V, G, {})
               /\ p.op[G[n].op].k \in {"scope", "branch", "for", "forin"}
               /\ IsInjective(G[n].rest)
               /\ Range(G[n].rest) \subseteq V \cap Regions(p, G[n].op)
               /\ IsLoop(p, G[n].op) => Len(p.op[G[n].op].regions) = 1
               /\ G[n].info.et \in {"next", "nested"}
    <3>1. G[n].op = fs[n].op /\ G[n].rest = g[n].rest
      BY <1>9, <1>17
    <3>2. G[n].info = fs[n].info
      BY <1>1, <1>7, <1>8, <1>10, <1>17
    <3>3. Range(g[n].rest) \subseteq V \cap Regions(p, fs[n].op)
      BY <1>2, <1>26, <1>28, ZenonT(60)
    <3>4. fs[n].op \in OpsIn(p) \ Pending(p, V, G, {})
      BY <1>24, <1>26
    <3>5. PICK a : a = fs[n].op
      OBVIOUS
    <3>6. /\ p.op[a].k \in {"scope", "branch", "for", "forin"}
          /\ IsLoop(p, a) => Len(p.op[a].regions) = 1
          /\ fs[n].info.et \in {"next", "nested"}
      BY <3>5, <1>26
    <3> QED BY <3>1, <3>2, <3>3, <3>4, <3>5, <3>6, <1>28
  <2>2. \A m, n \in 1..L : G[m].op = G[n].op => m = n
    BY <1>9, <1>17, <1>26
  <2> QED BY <2>1, <2>2 DEF AreActive
<1>30. Nested(p, G)
  <2>1. ASSUME NEW n \in 1..L PROVE G[n + 1].b \in Regions(p, G[n].op)
    <3>1. CASE n = L
      BY <3>1, <1>1, <1>9, <1>13, <1>16, <1>17
    <3>2. CASE n \in 1..L - 1
      <4>1. n + 1 \in 1..L
        BY <3>2, <1>6
      <4>2. g[n + 1].b \in Regions(p, g[n].op)
        BY <3>2, <1>8 DEF Nested
      <4> QED BY <4>1, <4>2, <1>17
    <3> QED BY <3>1, <3>2, <1>10
  <2> QED BY <2>1, <1>17, <1>18 DEF Nested
<1>31. LeadsTo(p, V, G, {}, L)
  <2>1. V \subseteq (DOMAIN p.block) \ {p.root}
    BY <1>2, <1>3 DEF LeadsTo
  <2>2. Pending(p, V, G, {}) \subseteq OpsIn(p)
    BY <1>3, <1>24 DEF LeadsTo
  <2>3. ASSUME NEW o \in Pending(p, V, G, {}) PROVE Regions(p, o) \subseteq V
    <3>1. o \in Pending(p, U, fs, {}) /\ o \in OpsIn(p) /\ Regions(p, o) \subseteq U
      BY <1>3, <1>24 DEF LeadsTo
    <3>2. o # f.op
      BY <3>1, <1>11
    <3> QED BY <3>1, <3>2, <1>2, <1>27
  <2>4. ASSUME NEW c \in V
        PROVE  /\ p.block[c] # <<>>
               /\ \E x \in OpsIn(p) :
                    /\ c \in Regions(p, x)
                    /\ \/ x \in Pending(p, V, G, {})
                       \/ \E n \in 1..L : x = G[n].op /\ c \in Range(G[n].rest)
    <3>1. c \in U /\ c # b
      BY <1>2
    <3>2. p.block[c] # <<>>
      BY <3>1, <1>3 DEF LeadsTo
    <3>3. PICK x \in OpsIn(p) :
            /\ c \in Regions(p, x)
            /\ \/ x \in Pending(p, U, fs, {})
               \/ \E n \in 1..L : x = fs[n].op /\ c \in Range(fs[n].rest)
      BY <3>1, <1>3 DEF LeadsTo
    <3>4. CASE x \in Pending(p, U, fs, {})
      BY <3>2, <3>3, <3>4, <1>23, <1>24
    <3>5. CASE \E n \in 1..L : x = fs[n].op /\ c \in Range(fs[n].rest)
      <4>1. PICK n \in 1..L : x = fs[n].op /\ c \in Range(fs[n].rest)
        BY <3>5
      <4>2. x = G[n].op /\ c \in Range(G[n].rest)
        BY <4>1, <3>1, <1>9, <1>17, <1>28
      <4> QED BY <4>2, <3>2, <3>3
    <3> QED BY <3>3, <3>4, <3>5
  <2>5. ASSUME NEW o \in OpsIn(p), IsSoft(p, o) PROVE o \in Pending(p, V, G, {})
    <3>1. o \in Pending(p, U, fs, {})
      BY <2>5, <1>3 DEF LeadsTo
    <3> QED BY <3>1, <2>5, <1>23, <1>24
  <2> QED BY <2>1, <2>2, <2>3, <2>4, <2>5 DEF LeadsTo
<1>32. InvPlaces(p, V, G)
  <2>1. ASSUME NEW x, Nestable(p, U, fs, x) PROVE Nestable(p, V, G, x)
    BY <2>1, <1>2, <1>13, <1>20 DEF Nestable
  <2>2. InvPlaces(p, U, g)
    <3>1. IsPoint(p, U, fs, fs[Len(fs)], g[Len(fs)].info)
      BY <1>1, <1>3, <1>6, <1>7 DEF InvPlaces
    <3>2. \A x \in Range(g[Len(fs)].got) : x.et \in {"next", "nested"} => Nestable(p, U, fs, x.ep)
      BY <1>1, <1>7
    <3> QED BY <3>1, <3>2, <1>3, <1>5, <1>7, PlacesKept
  <2>3. \A x : Nestable(p, U, g, x) => Nestable(p, V, G, x)
    <3>1. \A x : Nestable(p, U, g, x) => Nestable(p, U, fs, x)
      BY <1>7 DEF Exchanged
    <3> QED BY <3>1, <2>1
  <2>4. ASSUME NEW n \in DOMAIN G
        PROVE  /\ G[n].b \in (DOMAIN p.block) \ V
               /\ p.block[G[n].b] # <<>>
               /\ EndsIn(p.block[G[n].b], Rem(p, G[n]))
               /\ IsPoint(p, V, G, G[n], G[n].info)
               /\ \A x \in Range(G[n].got) :
                    x.et \in {"next", "nested"} => Nestable(p, V, G, x.ep)
    <3>1. CASE n \in 1..L
      <4>1. /\ g[n].b \in (DOMAIN p.block) \ U
            /\ p.block[g[n].b] # <<>>
            /\ EndsIn(p.block[g[n].b], Rem(p, g[n]))
            /\ IsPoint(p, U, g, g[n], g[n].info)
            /\ \A x \in Range(g[n].got) :
                 x.et \in {"next", "nested"} => Nestable(p, U, g, x.ep)
        BY <3>1, <2>2, <1>8 DEF InvPlaces
      <4>2. IsPoint(p, V, G, g[n], g[n].info)
        BY <4>1, <2>3 DEF IsPoint
      <4>3. G[n] = g[n]
        BY <3>1, <1>17, SMTT(60)
      <4> QED BY <4>1, <4>2, <4>3, <2>3, <1>2
    <3>2. CASE n = L + 1
      <4>1. G[n] = e
        BY <3>2, <1>17
      <4>2. IsPoint(p, V, G, e, e.info)
        BY <1>16, Zenon DEF IsPoint
      <4>3. \A x \in Range(e.got) : FALSE
        BY <1>16 DEF Range
      <4>4. b \in (DOMAIN p.block) \ V
        BY <1>2, <1>13
      <4> QED BY <4>1, <4>2, <4>3, <4>4, <1>13, <1>16
    <3> QED BY <3>1, <3>2, <1>17, <1>18, Zenon
  <2>5. ASSUME NEW m \in DOMAIN G, NEW n \in DOMAIN G, G[m].b = G[n].b PROVE m = n
    <3>1. \A k \in 1..L : G[k].b = fs[k].b /\ G[k].b # b
      BY <1>3, <1>6, <1>8, <1>13, <1>17, SMTT(60) DEF InvPlaces
    <3>2. \A j, k \in 1..L : fs[j].b = fs[k].b => j = k
      BY <1>3, <1>6 DEF InvPlaces
    <3> QED BY <3>1, <3>2, <2>5, <1>16, <1>17, <1>18
  <2> QED BY <2>4, <2>5 DEF InvPlaces
<1>33. Grounded(p, V)
  <2> SUFFICES ASSUME NEW S \in SUBSET ((DOMAIN p.block) \ V), S # {}
               PROVE  \E a \in S : \A c \in S : \A o \in Range(p.block[c]) : a \notin Regions(p, o)
    BY DEF Grounded
  <2>1. CASE S \subseteq {b}
    <3>1. S = {b}
      BY <2>1
    <3>2. \A o \in Range(p.block[b]) : \A r \in Regions(p, o) : r < b
      BY <1>3, <1>13 DEF InvSource
    <3>3. ~(b < b)
      BY <1>13
    <3> QED BY <3>1, <3>2, <3>3
  <2>2. CASE ~(S \subseteq {b})
    <3>1. S \ {b} \in SUBSET ((DOMAIN p.block) \ U) /\ S \ {b} # {}
      BY <2>2, <1>2
    <3>2. PICK a \in S \ {b} : \A c \in S \ {b} : \A o \in Range(p.block[c]) : a \notin Regions(p, o)
      BY <3>1, <1>3 DEF Grounded
    <3>3. \A o \in Range(p.block[b]) : o \in Pending(p, U, fs, {})
      BY <1>13 DEF Pending
    <3>4. \A o \in Range(p.block[b]) : Regions(p, o) \subseteq U
      BY <3>3, <1>3 DEF LeadsTo
    <3>5. a \notin U
      BY <3>1
    <3> QED BY <3>2, <3>4, <3>5
  <2> QED BY <2>1, <2>2
<1> QED
  <2>1. InvActive(p, V, G, {})
    BY <1>17, <1>18, <1>29, <1>30 DEF InvActive
  <2>2. InvPending(p, V, G, {})
    BY <1>17, <1>18, <1>31 DEF InvPending
  <2> QED BY <2>1, <2>2, <1>2, <1>3, <1>19, <1>25, <1>32, <1>33 DEF Inv

\* The calls below the top one are the same.
LEMMA CallsKept ==
  ASSUME NEW p, NEW U, NEW fs, NEW g, NEW X, NEW l, \A n \in 1..l : g[n] = fs[n],
         Pending(p, U, g, X) = Pending(p, U, fs, X)
  PROVE  /\ AreActive(p, U, fs, X, l) => AreActive(p, U, g, X, l)
         /\ LeadsTo(p, U, fs, X, l) => LeadsTo(p, U, g, X, l)
<1>1. ASSUME AreActive(p, U, fs, X, l) PROVE AreActive(p, U, g, X, l)
  BY <1>1 DEF AreActive
<1>2. ASSUME LeadsTo(p, U, fs, X, l) PROVE LeadsTo(p, U, g, X, l)
  BY <1>2 DEF LeadsTo
<1> QED BY <1>1, <1>2

\* The top frame is closed: its caller is between two regions.
LEMMA BetweenPop ==
  ASSUME NEW p, NEW U, NEW fs, Inv(p, U, fs, {}), Len(fs) > 1, fs[Len(fs)].todo = <<>>,
         NEW G, G = SubSeq(fs, 1, Len(fs) - 1)
  PROVE  /\ Between(p, U, G)
         /\ fs[Len(fs)].info.et \in {"next", "nested"} => Nestable(p, U, G, fs[Len(fs)].info.ep)
<1>1. PICK L : L = Len(fs)
  OBVIOUS
<1>2. /\ HasBlocks(p) /\ HasRegions(p)
      /\ fs \in Seq(Frame) /\ fs # <<>> /\ L \in Nat /\ L > 1 /\ DOMAIN fs = 1..L
      /\ U \subseteq (DOMAIN p.block) \ {p.root}
  BY <1>1, InvFacts
<1>3. /\ IsCode(p) /\ InvFrames(p, fs) /\ InvSource(p, U, fs, {})
      /\ AreActive(p, U, fs, {}, L - 1) /\ Nested(p, fs) /\ LeadsTo(p, U, fs, {}, L - 1)
      /\ InvPlaces(p, U, fs) /\ Grounded(p, U)
  BY <1>1 DEF Inv, InvActive, InvPending
<1>4. /\ G \in Seq(Frame) /\ Len(G) = L - 1 /\ DOMAIN G = 1..L - 1
      /\ \A n \in 1..L - 1 : G[n] = fs[n]
  BY <1>1, <1>2, SubSeqProperties
<1>5. /\ \A n \in 1..L : n \in 1..L - 1 \/ n = L
      /\ \A n \in 1..L - 1 : n \in 1..L /\ n # L
      /\ L - 1 \in 1..L - 1 /\ L \in 1..L
  BY <1>2
<1>6. G # <<>>
  BY <1>4, <1>5
<1>7. Todo(G) = Todo(fs)
  <2>1. Range(fs[L].todo) = {}
    BY <1>1 DEF Range
  <2>2. \A n \in 1..L - 1 : Range(G[n].todo) = Range(fs[n].todo)
    BY <1>4
  <2>3. \A x : x \in Todo(fs) => \E n \in 1..L - 1 : x \in Range(fs[n].todo)
    BY <2>1, <1>2, <1>5 DEF Todo
  <2>4. \A x : x \in Todo(G) <=> \E n \in 1..L - 1 : x \in Range(fs[n].todo)
    BY <2>2, <1>4 DEF Todo
  <2>5. \A n \in 1..L - 1 : Range(fs[n].todo) \subseteq Todo(fs)
    BY <1>2, <1>5 DEF Todo
  <2> QED BY <2>3, <2>4, <2>5
<1>8. Pending(p, U, G, {}) = Pending(p, U, fs, {})
  BY <1>7 DEF Pending
<1>9. \A c : c \in Opening(G) => c \in Opening(fs)
  BY <1>2, <1>4, <1>5 DEF Opening
<1>10. \A x : Nestable(p, U, fs, x) => Nestable(p, U, G, x)
  <2> SUFFICES ASSUME NEW x, Nestable(p, U, fs, x) PROVE Nestable(p, U, G, x)
    OBVIOUS
  <2>1. PICK c \in (DOMAIN p.block) \ (U \cup Opening(fs)) : p.block[c] # <<>> /\ x = Last(p.block[c])
    BY DEF Nestable
  <2> QED BY <2>1, <1>9 DEF Nestable
<1>11. InvFrames(p, G)
  BY <1>2, <1>3, <1>4, <1>5, <1>6 DEF InvFrames
<1>12. \A n \in 1..L - 1 : \A i \in DOMAIN G[n].todo : IsSourceNode(p.op[G[n].todo[i]])
  BY <1>1, <1>2, <1>3, <1>4, <1>5 DEF InvSource
<1>13. InvSource(p, U, G, {})
  BY <1>3, <1>4, <1>12 DEF InvSource
<1>14. AreActive(p, U, G, {}, L - 1)
  BY <1>3, <1>4, <1>8 DEF AreActive
<1>15. Nested(p, G)
  <2>1. \A n \in 1..(L - 1) - 1 : n \in 1..L - 1 /\ n + 1 \in 1..L - 1
    BY <1>2
  <2> QED BY <2>1, <1>1, <1>3, <1>4 DEF Nested
<1>16. LeadsTo(p, U, G, {}, L - 1)
  BY <1>3, <1>4, <1>8 DEF LeadsTo
<1>17. InvPlaces(p, U, G)
  <2>1. ASSUME NEW n \in DOMAIN G
        PROVE  /\ G[n].b \in (DOMAIN p.block) \ U
               /\ p.block[G[n].b] # <<>>
               /\ EndsIn(p.block[G[n].b], Rem(p, G[n]))
               /\ IsPoint(p, U, G, G[n], G[n].info)
               /\ \A x \in Range(G[n].got) :
                    x.et \in {"next", "nested"} => Nestable(p, U, G, x.ep)
    <3>1. G[n] = fs[n] /\ n \in DOMAIN fs
      BY <1>2, <1>4, <1>5
    <3>2. /\ fs[n].b \in (DOMAIN p.block) \ U
          /\ p.block[fs[n].b] # <<>>
          /\ EndsIn(p.block[fs[n].b], Rem(p, fs[n]))
          /\ IsPoint(p, U, fs, fs[n], fs[n].info)
          /\ \A x \in Range(fs[n].got) :
               x.et \in {"next", "nested"} => Nestable(p, U, fs, x.ep)
      BY <3>1, <1>3 DEF InvPlaces
    <3>3. IsPoint(p, U, G, fs[n], fs[n].info)
      BY <3>2, <1>10 DEF IsPoint
    <3> QED BY <3>1, <3>2, <3>3, <1>10
  <2>2. \A m, n \in DOMAIN G : G[m].b = G[n].b => m = n
    BY <1>2, <1>3, <1>4, <1>5 DEF InvPlaces
  <2> QED BY <2>1, <2>2 DEF InvPlaces
<1>18. ASSUME fs[L].info.et \in {"next", "nested"} PROVE Nestable(p, U, G, fs[L].info.ep)
  <2>1. /\ fs[L] \in Frame /\ fs[L].b \in (DOMAIN p.block) \ U
        /\ p.block[fs[L].b] # <<>>
        /\ IsPoint(p, U, fs, fs[L], fs[L].info)
    BY <1>2, <1>3, <1>5 DEF InvPlaces
  <2>2. CASE fs[L].info.et = "next"
    <3>1. fs[L].info.ep = Head(Rem(p, fs[L]))
      BY <2>1, <2>2 DEF IsPoint, AtRest
    <3>2. Head(Rem(p, fs[L])) = Last(p.block[fs[L].b])
      BY <2>1, <1>1, <1>2, RemFacts
    <3>3. fs[L].b \notin Opening(G)
      <4>1. \A n \in 1..L - 1 : fs[n].b # fs[L].b
        BY <1>2, <1>3, <1>5 DEF InvPlaces
      <4> QED BY <4>1, <1>4 DEF Opening
    <3> QED BY <3>1, <3>2, <3>3, <2>1 DEF Nestable
  <2>3. CASE fs[L].info.et = "nested"
    BY <2>1, <2>3, <1>10 DEF IsPoint
  <2> QED BY <2>2, <2>3, <1>18
<1> QED BY <1>1, <1>3, <1>4, <1>11, <1>12, <1>13, <1>14, <1>15, <1>16, <1>17, <1>18, <1>5 DEF Between

\* All regions have been visited.
LEMMA BetweenClose ==
  ASSUME NEW p, NEW U, NEW fs, Between(p, U, fs), fs[Len(fs)].rest = <<>>, NEW h \in Frame,
         h.b = fs[Len(fs)].b, h.todo = fs[Len(fs)].todo, AreVariables(p, h.saved),
         IsPoint(p, U, fs, fs[Len(fs)], h.info),
         \A x \in Range(h.got) : x.et \in {"next", "nested"} => Nestable(p, U, fs, x.ep),
         NEW g, g = [fs EXCEPT ![Len(fs)] = h]
  PROVE  Inv(p, U, g, {})
<1>1. PICK L : L = Len(fs)
  OBVIOUS
<1>2. /\ IsCode(p) /\ InvFrames(p, fs) /\ InvSource(p, U, fs, {})
      /\ AreActive(p, U, fs, {}, L) /\ Nested(p, fs) /\ LeadsTo(p, U, fs, {}, L)
      /\ InvPlaces(p, U, fs) /\ Grounded(p, U)
  BY <1>1 DEF Between
<1>3. fs \in Seq(Frame) /\ fs # <<>>
  BY <1>2 DEF InvFrames
<1>4. /\ L \in Nat /\ L >= 1 /\ \A n \in 1..L - 1 : n \in 1..L
      /\ \A n \in 1..L : n \in 1..L - 1 \/ n = L
  BY <1>1, <1>3
<1>5. Exchanged(p, U, fs, g) /\ g[L] = h
  <2>1. Exchanged(p, U, fs, g) /\ g[Len(fs)] = h
    BY <1>3, TopKept
  <2> QED BY <2>1, <1>1
<1>6. /\ Len(g) = L /\ \A n \in 1..L - 1 : g[n] = fs[n]
      /\ \A X : Pending(p, U, g, X) = Pending(p, U, fs, X)
      /\ InvSource(p, U, g, {}) /\ Nested(p, g)
  BY <1>1, <1>2, <1>5 DEF Exchanged
<1>7. InvFrames(p, g)
  BY <1>1, <1>2, <1>5, FramesKept
<1>8. InvPlaces(p, U, g)
  BY <1>1, <1>2, <1>3, <1>5, PlacesKept
<1>9. AreActive(p, U, g, {}, L - 1)
  <2>1. AreActive(p, U, fs, {}, L)
    BY <1>2
  <2>2. AreActive(p, U, fs, {}, L - 1)
    BY <2>1, <1>4 DEF AreActive
  <2>3. Pending(p, U, g, {}) = Pending(p, U, fs, {})
    BY <1>6
  <2> QED BY <2>2, <2>3, <1>6, CallsKept
<1>10. LeadsTo(p, U, g, {}, L - 1)
  <2>1. ASSUME NEW b \in U
        PROVE  /\ p.block[b] # <<>>
               /\ \E x \in OpsIn(p) :
                    /\ b \in Regions(p, x)
                    /\ \/ x \in Pending(p, U, fs, {})
                       \/ \E n \in 1..L - 1 : x = fs[n].op /\ b \in Range(fs[n].rest)
    <3>1. p.block[b] # <<>>
      BY <1>2 DEF LeadsTo
    <3>2. PICK x \in OpsIn(p) :
            /\ b \in Regions(p, x)
            /\ \/ x \in Pending(p, U, fs, {})
               \/ \E n \in 1..L : x = fs[n].op /\ b \in Range(fs[n].rest)
      BY <1>2 DEF LeadsTo
    <3>3. b \notin Range(fs[L].rest)
      BY <1>1 DEF Range
    <3> QED BY <3>1, <3>2, <3>3, <1>4
  <2>2. LeadsTo(p, U, fs, {}, L - 1)
    BY <2>1, <1>2 DEF LeadsTo
  <2>3. Pending(p, U, g, {}) = Pending(p, U, fs, {})
    BY <1>6
  <2> QED BY <2>2, <2>3, <1>6, CallsKept
<1> QED BY <1>2, <1>6, <1>7, <1>8, <1>9, <1>10 DEF Inv, InvActive, InvPending

-----------------------------------------------------------------------------
(* A region for a missing else or default *)

WithRegion(p, o, N) ==
  [p EXCEPT !.op[o].val = TRUE, !.op[o].regions = Append(@, N)]

\* q is r with another region N for o.
IsWithRegion(r, o, N, q) ==
  /\ HasBlocks(q) /\ q.block = r.block /\ q.root = r.root /\ DOMAIN q.op = DOMAIN r.op
  /\ \A x \in DOMAIN r.op : x # o => q.op[x] = r.op[x]
  /\ q.op[o].k = r.op[o].k /\ q.op[o].val = TRUE
  /\ q.op[o].regions = Append(r.op[o].regions, N)

\* A branch given one more region is what it was otherwise.
LEMMA WithRegionFacts ==
  ASSUME NEW r, HasBlocks(r), NEW o \in DOMAIN r.op, NEW N \in Nat
  PROVE  IsWithRegion(r, o, N, WithRegion(r, o, N))
<1>1. /\ r = [op |-> r.op, block |-> r.block, root |-> r.root, valued |-> r.valued]
      /\ r.op \in Seq(Range(r.op)) /\ IsNode(r.op[o])
  BY DEF HasBlocks
<1>2. PICK m : m = r.op[o]
  OBVIOUS
<1>3. m = [k |-> m.k, regions |-> m.regions, var |-> m.var, val |-> m.val]
  BY <1>1, <1>2 DEF IsNode, Make
<1>4. PICK e : e = [m EXCEPT !.val = TRUE, !.regions = Append(@, N)]
  OBVIOUS
<1>5. PICK O : O = [r.op EXCEPT ![o] = e]
  OBVIOUS
<1>6. PICK q : q = [r EXCEPT !.op = O]
  OBVIOUS
<1>7. q = WithRegion(r, o, N)
  <2>1. PICK s : s = r.op
    OBVIOUS
  <2>2. [s EXCEPT ![o].val = TRUE, ![o].regions = Append(@, N)]
          = [s EXCEPT ![o] = [s[o] EXCEPT !.val = TRUE, !.regions = Append(@, N)]]
    BY <2>1
  <2>3. WithRegion(r, o, N) = [r EXCEPT !.op = [r.op EXCEPT ![o].val = TRUE, ![o].regions = Append(@, N)]]
    BY <1>1 DEF WithRegion
  <2> QED BY <2>1, <2>2, <2>3, <1>2, <1>4, <1>5, <1>6
<1>8. /\ q.op = O /\ q.block = r.block /\ q.root = r.root /\ q.valued = r.valued
      /\ DOMAIN q = {"op", "block", "root", "valued"}
  BY <1>1, <1>6
<1>9. q = [op |-> q.op, block |-> q.block, root |-> q.root, valued |-> q.valued]
  <2>1. q = [x \in {"op", "block", "root", "valued"} |-> q[x]]
    BY <1>6, <1>8, <1>1
  <2> QED BY <2>1, <1>8
<1>10. /\ e = [k |-> m.k, regions |-> Append(m.regions, N), var |-> m.var, val |-> TRUE]
  BY <1>3, <1>4
<1>11. /\ e.k = m.k /\ e.val = TRUE /\ e.regions = Append(m.regions, N) /\ e.var = m.var
  BY <1>10
<1>12. IsNode(e)
  <2>1. m.regions \in Seq(Nat) /\ m.var \in Nat /\ m.k \in Kind
    BY <1>1, <1>2 DEF IsNode
  <2>2. Append(m.regions, N) \in Seq(Nat)
    BY <2>1
  <2> QED BY <2>1, <2>2, <1>10, <1>11 DEF IsNode, Make
<1>13. /\ DOMAIN O = DOMAIN r.op /\ O[o] = e /\ \A x \in DOMAIN r.op : x # o => O[x] = r.op[x]
       /\ O \in Seq(Range(r.op) \cup {e})
  <2>1. PICK w, A : w = r.op /\ A = Range(r.op) \cup {e}
    OBVIOUS
  <2>2. w \in Seq(A) /\ o \in DOMAIN w /\ e \in A
    <3>1. w \in Seq(Range(w)) /\ Range(w) \subseteq A
      BY ONLY <1>1, <2>1, Zenon
    <3>2. w \in Seq(A)
      BY ONLY <3>1, SeqWiden
    <3> QED BY <3>2, <2>1, Zenon
  <2>3. /\ DOMAIN [w EXCEPT ![o] = e] = DOMAIN w /\ [w EXCEPT ![o] = e][o] = e
        /\ \A x \in DOMAIN w : x # o => [w EXCEPT ![o] = e][x] = w[x]
        /\ [w EXCEPT ![o] = e] \in Seq(A)
    BY ONLY <2>2, SMT
  <2> QED BY ONLY <2>1, <2>3, <1>5, Zenon
<1>14. O \in Seq(Range(O))
  <2>1. Len(O) \in Nat /\ DOMAIN O = 1..Len(O)
    BY <1>13
  <2>2. \A x \in DOMAIN O : O[x] \in Range(O)
    BY DEF Range
  <2>3. O = [x \in 1..Len(O) |-> O[x]]
    BY <2>1, <1>13
  <2> QED BY <2>1, <2>2, <2>3
<1>15. \A x \in DOMAIN O : IsNode(O[x]) /\ O[x].k = r.op[x].k
  BY <1>2, <1>11, <1>12, <1>13 DEF HasBlocks
<1>16. ASSUME NEW b \in DOMAIN q.block PROVE IsBlock(q, q.block[b])
  <2>1. PICK s : s = r.block[b]
    OBVIOUS
  <2>2. /\ s \in Seq(DOMAIN r.op) /\ IsInjective(s)
        /\ \A i \in DOMAIN s : r.op[s[i]].k = "end" <=> i = Len(s)
    BY <2>1, <1>8, <1>16 DEF HasBlocks, IsBlock
  <2>3. \A i \in DOMAIN s : s[i] \in DOMAIN r.op
    BY <2>2
  <2>4. \A i \in DOMAIN s : q.op[s[i]].k = "end" <=> i = Len(s)
    BY <2>2, <2>3, <1>8, <1>13, <1>15
  <2>5. s \in Seq(DOMAIN q.op) /\ q.block[b] = s
    BY <2>1, <2>2, <1>8, <1>13
  <2> QED BY <2>2, <2>4, <2>5 DEF IsBlock
<1>17. HasBlocks(q)
  BY <1>8, <1>9, <1>13, <1>14, <1>15, <1>16, Zenon DEF HasBlocks
<1> QED BY <1>2, <1>7, <1>8, <1>11, <1>13, <1>17 DEF IsWithRegion

\* q is p with a last region N for o.
IsCompleted(p, U, fs, o, N, q) ==
  /\ Inv(q, U \cup {N}, fs, {o})
  /\ N \in Nat /\ q.op[o].k = "branch" /\ q.op[o].regions # <<>>
  /\ DOMAIN p.op \subseteq DOMAIN q.op

\* Adding the else region or default case that a branch lacks keeps the
\* invariant: the new block is one more to open.
LEMMA MissingStep ==
  ASSUME NEW p, NEW U, NEW fs, NEW o, Inv(p, U, fs, {o}), p.op[o].k = "branch",
         NEW N, N = Len(p.block) + 1,
         NEW q, q = WithRegion(AddEmptyBlock(p), o, N)
  PROVE  IsCompleted(p, U, fs, o, N, q)
<1>1. /\ HasBlocks(p) /\ HasRegions(p) /\ o \in OpsIn(p) /\ OpsIn(p) \subseteq DOMAIN p.op
      /\ U \subseteq (DOMAIN p.block) \ {p.root}
      /\ fs \in Seq(Frame) /\ Len(fs) \in Nat /\ DOMAIN fs = 1..Len(fs)
  BY InvFacts
<1>2. PICK r : r = AddEmptyBlock(p)
  OBVIOUS
<1>3. IsAddEmpty(p, r)
  BY <1>1, <1>2, AddEmptyFacts
<1>4. PICK n : n = Len(p.op)
  OBVIOUS
<1>5. /\ HasBlocks(r) /\ r.root = p.root /\ DOMAIN r.block = DOMAIN p.block \cup {N}
      /\ N \notin DOMAIN p.block
      /\ \A x \in DOMAIN p.op : x \in DOMAIN r.op /\ r.op[x] = p.op[x]
      /\ n + 1 \notin DOMAIN p.op /\ n + 1 \in DOMAIN r.op /\ r.op[n + 1] = End
      /\ \A c \in DOMAIN p.block : r.block[c] = p.block[c]
      /\ r.block[N] = <<n + 1>>
      /\ OpsIn(r) = OpsIn(p) \cup {n + 1}
  BY <1>3, <1>4 DEF IsAddEmpty
<1>6. N \in Nat
  <2>1. Len(p.block) \in Nat
    BY <1>1, CodeFacts
  <2> QED BY <2>1
<1>7. o \in DOMAIN p.op /\ o \in DOMAIN r.op /\ o # n + 1 /\ r.op[o] = p.op[o]
  BY <1>1, <1>5
<1>8. IsWithRegion(r, o, N, q)
  BY <1>2, <1>5, <1>6, <1>7, WithRegionFacts, Zenon
<1>9. /\ HasBlocks(q) /\ q.block = r.block /\ q.root = p.root /\ DOMAIN q.op = DOMAIN r.op
      /\ \A x \in DOMAIN r.op : x # o => q.op[x] = r.op[x]
      /\ q.op[o].k = "branch" /\ q.op[o].val = TRUE
      /\ q.op[o].regions = Append(p.op[o].regions, N)
  BY <1>5, <1>7, <1>8, ZenonT(60) DEF IsWithRegion
<1>10. p.op[o].regions \in Seq(Nat) /\ IsInjective(p.op[o].regions) /\ N \notin Regions(p, o)
  <2>1. IsNode(p.op[o])
    BY <1>1, <1>7, SMTT(60) DEF HasBlocks
  <2> QED BY <2>1, <1>1, <1>5 DEF IsNode, HasRegions
<1>11. /\ q.op[o].regions # <<>> /\ IsInjective(q.op[o].regions)
       /\ Regions(q, o) = Regions(p, o) \cup {N}
  <2>1. PICK s \in Seq(Nat) : s = p.op[o].regions
    BY <1>10
  <2>2. PICK u : u = Append(s, N)
    OBVIOUS
  <2>3. PICK l : l = Len(s)
    OBVIOUS
  <2>4. /\ l \in Nat /\ DOMAIN s = 1..l /\ DOMAIN u = 1..l + 1 /\ u[l + 1] = N
        /\ \A i \in 1..l : u[i] = s[i]
    BY <2>1, <2>2, <2>3, <1>6
  <2>5. /\ \A i \in 1..l + 1 : i \in 1..l \/ i = l + 1
        /\ \A i \in 1..l : i \in 1..l + 1
        /\ l + 1 \in 1..l + 1
    BY <2>4
  <2>6. Range(u) = Range(s) \cup {N}
    BY <2>4, <2>5 DEF Range
  <2>7. \A i \in 1..l : s[i] # N
    BY <2>1, <2>4, <1>10 DEF Regions, Range
  <2>8. IsInjective(u)
    BY <2>1, <2>4, <2>5, <2>7, <1>10 DEF IsInjective
  <2>9. u # <<>>
    BY <2>4, <2>5
  <2> QED BY <2>1, <2>2, <2>6, <2>8, <2>9, <1>9, Zenon DEF Regions
<1>12. /\ DOMAIN q.block = DOMAIN p.block \cup {N}
       /\ \A c \in DOMAIN p.block : q.block[c] = p.block[c]
       /\ q.block[N] = <<n + 1>> /\ Range(q.block[N]) = {n + 1}
       /\ q.block[N] # <<>>
       /\ OpsIn(q) = OpsIn(p) \cup {n + 1} /\ n + 1 \notin OpsIn(p)
  <2>1. OpsIn(q) = OpsIn(r)
    BY <1>9 DEF OpsIn
  <2>2. n + 1 \notin OpsIn(p)
    BY <1>1, <1>5
  <2>3. Range(<<n + 1>>) = {n + 1} /\ <<n + 1>> # <<>>
    BY ONLY SMTT(60) DEF Range
  <2> QED BY <2>1, <2>2, <2>3, <1>5, <1>9, ZenonT(60)
<1>13. /\ \A x \in DOMAIN p.op : x \in DOMAIN q.op /\ x # n + 1 /\ (x # o => q.op[x] = p.op[x])
       /\ q.op[n + 1] = End
  BY <1>5, <1>7, <1>9
<1>14. /\ End.k = "end" /\ End.regions = <<>> /\ Range(<<>>) = {} /\ IsInjective(<<>>)
       /\ IsSourceNode(End)
  BY DEF End, Make, Range, IsInjective, IsSourceNode
<1>15. /\ \A x \in DOMAIN p.op : x # o => Regions(q, x) = Regions(p, x)
       /\ Regions(q, n + 1) = {}
  BY <1>13, <1>14 DEF Regions
<1>16. HasRegions(q)
  <2>1. ASSUME NEW x \in OpsIn(q)
        PROVE  /\ IsInjective(q.op[x].regions)
               /\ Regions(q, x) \subseteq (DOMAIN q.block) \ {q.root}
    <3>1. CASE x = n + 1
      BY <3>1, <1>13, <1>14, <1>15, Zenon
    <3>2. CASE x = o
      <4>1. Regions(p, o) \subseteq (DOMAIN p.block) \ {p.root}
        BY <1>1 DEF HasRegions
      <4>2. N # p.root
        BY <1>1, <1>5, Zenon DEF HasBlocks
      <4> QED BY <3>2, <4>1, <4>2, <1>9, <1>11, <1>12
    <3>3. CASE x # o /\ x # n + 1
      <4>1. x \in OpsIn(p) /\ x \in DOMAIN p.op
        BY <3>3, <2>1, <1>1, <1>12
      <4>2. IsInjective(p.op[x].regions) /\ Regions(p, x) \subseteq (DOMAIN p.block) \ {p.root}
        BY <4>1, <1>1 DEF HasRegions
      <4> QED BY <3>3, <4>1, <4>2, <1>9, <1>12, <1>13, <1>15
    <3> QED BY <3>1, <3>2, <3>3
  <2>2. ASSUME NEW x \in OpsIn(q), NEW y \in OpsIn(q), x # y
        PROVE  Regions(q, x) \cap Regions(q, y) = {}
    <3>1. \A z \in OpsIn(p) : z \in DOMAIN p.op /\ Regions(p, z) \subseteq DOMAIN p.block
      BY <1>1 DEF HasRegions
    <3>2. \A z \in OpsIn(q) : z = n + 1 \/ z = o \/ (z \in OpsIn(p) /\ z # o)
      BY <1>12
    <3>3. x \in OpsIn(p) /\ y \in OpsIn(p) => Regions(p, x) \cap Regions(p, y) = {}
      BY <2>2, <1>1 DEF HasRegions
    <3> QED BY <2>2, <3>1, <3>2, <3>3, <1>1, <1>5, <1>11, <1>15
  <2> QED BY <2>1, <2>2 DEF HasRegions
<1>17. PICK V : V = U \cup {N}
  OBVIOUS
<1>18. /\ InvFrames(p, fs) /\ InvSource(p, U, fs, {o}) /\ InvActive(p, U, fs, {o})
       /\ InvPending(p, U, fs, {o}) /\ InvPlaces(p, U, fs) /\ Grounded(p, U)
  BY DEF Inv
<1>19. /\ Pending(q, V, fs, {o}) = Pending(p, U, fs, {o}) \cup {n + 1}
       /\ Pending(p, U, fs, {o}) \subseteq OpsIn(p) /\ o \in Pending(p, U, fs, {o})
  <2>1. UNION {Range(q.block[c]) : c \in V} = (UNION {Range(p.block[c]) : c \in U}) \cup {n + 1}
    BY <1>1, <1>12, <1>17
  <2> QED BY <2>1, InvFacts, ZenonT(60) DEF Pending
<1>20. InvFrames(q, fs)
  BY <1>13, <1>18, SMTT(60) DEF InvFrames, AreVariables
<1>21. InvSource(q, V, fs, {o})
  <2>1. IsSourceNode(q.op[o])
    BY <1>9, <1>11 DEF IsSourceNode
  <2>2. \A x \in DOMAIN p.op : IsSourceNode(p.op[x]) => IsSourceNode(q.op[x])
    BY <2>1, <1>13
  <2>3. ASSUME NEW c \in V, NEW x \in Range(q.block[c])
        PROVE  IsSourceNode(q.op[x]) /\ \A s \in Regions(q, x) : s < c
    <3>1. CASE c = N
      BY <3>1, <2>3, <1>12, <1>13, <1>14, <1>15
    <3>2. CASE c # N
      <4>1. c \in U /\ x \in Range(p.block[c])
        BY <3>2, <2>3, <1>1, <1>12, <1>17
      <4>2. x \in DOMAIN p.op /\ x # o
        <5>1. x \in OpsIn(p)
          BY <4>1, <1>1, CodeFacts
        <5> QED BY <4>1, <5>1, <1>1, <1>18 DEF InvSource
      <4> QED BY <4>1, <4>2, <2>2, <1>15, <1>18 DEF InvSource
    <3> QED BY <3>1, <3>2
  <2>4. ASSUME NEW m \in DOMAIN fs, NEW i \in DOMAIN fs[m].todo PROVE IsSourceNode(q.op[fs[m].todo[i]])
    <3>1. IsSourceNode(p.op[fs[m].todo[i]])
      BY <1>18 DEF InvSource
    <3>2. fs[m].todo[i] \in Pending(p, U, fs, {o})
      BY DEF Pending, Todo, Range
    <3> QED BY <3>1, <3>2, <2>2, <1>1, <1>19
  <2>5. o \notin Todo(fs) /\ \A c \in V : o \notin Range(q.block[c])
    BY <1>1, <1>7, <1>12, <1>17, <1>18 DEF InvSource
  <2> QED BY <2>1, <2>3, <2>4, <2>5, <1>9, Zenon DEF InvSource
<1>22. PICK l : l = Len(fs) - 1
  OBVIOUS
<1>23. ASSUME NEW m \in 1..l
       PROVE  /\ fs[m].op \in OpsIn(p) \ Pending(p, U, fs, {o})
              /\ p.op[fs[m].op].k \in {"scope", "branch", "for", "forin"}
              /\ IsInjective(fs[m].rest)
              /\ Range(fs[m].rest) \subseteq U \cap Regions(p, fs[m].op)
              /\ IsLoop(p, fs[m].op) => Len(p.op[fs[m].op].regions) = 1
              /\ fs[m].info.et \in {"next", "nested"}
              /\ fs[m].op # o /\ fs[m].op # n + 1
              /\ q.op[fs[m].op] = p.op[fs[m].op] /\ Regions(q, fs[m].op) = Regions(p, fs[m].op)
              /\ fs[m + 1].b \in Regions(p, fs[m].op)
  <2>1. /\ fs[m].op \in OpsIn(p) \ Pending(p, U, fs, {o})
        /\ p.op[fs[m].op].k \in {"scope", "branch", "for", "forin"}
        /\ IsInjective(fs[m].rest)
        /\ Range(fs[m].rest) \subseteq U \cap Regions(p, fs[m].op)
        /\ IsLoop(p, fs[m].op) => Len(p.op[fs[m].op].regions) = 1
        /\ fs[m].info.et \in {"next", "nested"}
        /\ fs[m + 1].b \in Regions(p, fs[m].op)
    BY <1>18, <1>22 DEF InvActive, AreActive, Nested
  <2>2. fs[m].op # o /\ fs[m].op # n + 1 /\ fs[m].op \in DOMAIN p.op
    BY <2>1, <1>1, <1>12, <1>19
  <2> QED BY <2>1, <2>2, <1>13, <1>15
<1>24. InvActive(q, V, fs, {o})
  <2>1. ASSUME NEW m \in 1..l
        PROVE  /\ fs[m].op \in OpsIn(q) \ Pending(q, V, fs, {o})
               /\ q.op[fs[m].op].k \in {"scope", "branch", "for", "forin"}
               /\ IsInjective(fs[m].rest)
               /\ Range(fs[m].rest) \subseteq V \cap Regions(q, fs[m].op)
               /\ IsLoop(q, fs[m].op) => Len(q.op[fs[m].op].regions) = 1
               /\ fs[m].info.et \in {"next", "nested"}
    <3>1. fs[m].op \in OpsIn(q) \ Pending(q, V, fs, {o})
      BY <1>12, <1>19, <1>23
    <3>2. q.op[fs[m].op] = p.op[fs[m].op]
      BY <1>23
    <3>3. Range(fs[m].rest) \subseteq V \cap Regions(q, fs[m].op)
      BY <1>17, <1>23
    <3>4. IsLoop(q, fs[m].op) <=> IsLoop(p, fs[m].op)
      BY <3>2 DEF IsLoop
    <3> QED BY <3>1, <3>2, <3>3, <3>4, <1>23
  <2>2. \A j, k \in 1..l : fs[j].op = fs[k].op => j = k
    BY <1>18, <1>22 DEF InvActive, AreActive
  <2>3. \A m \in 1..l : fs[m + 1].b \in Regions(q, fs[m].op)
    BY <1>23
  <2>4. AreActive(q, V, fs, {o}, l)
    BY <2>1, <2>2 DEF AreActive
  <2> QED BY <2>3, <2>4, <1>22, SMTT(60) DEF InvActive, Nested
<1>25. InvPending(q, V, fs, {o})
  <2>1. LeadsTo(p, U, fs, {o}, l)
    BY <1>18, <1>22, SMTT(60) DEF InvPending
  <2>2. V \subseteq (DOMAIN q.block) \ {q.root}
    <3>1. N # p.root
      BY <1>1, <1>5 DEF HasBlocks
    <3> QED BY <3>1, <1>1, <1>9, <1>12, <1>17
  <2>3. Pending(q, V, fs, {o}) \subseteq OpsIn(q)
    BY <1>12, <1>19
  <2>4. ASSUME NEW x \in Pending(q, V, fs, {o}) PROVE Regions(q, x) \subseteq V
    <3>1. x = n + 1 \/ x \in Pending(p, U, fs, {o})
      BY <1>19
    <3>2. x \in Pending(p, U, fs, {o}) => Regions(p, x) \subseteq U /\ x \in DOMAIN p.op
      BY <2>1, <1>1, <1>19 DEF LeadsTo
    <3> QED BY <3>1, <3>2, <1>11, <1>15, <1>17
  <2>5. ASSUME NEW b \in V
        PROVE  /\ q.block[b] # <<>>
               /\ \E x \in OpsIn(q) :
                    /\ b \in Regions(q, x)
                    /\ \/ x \in Pending(q, V, fs, {o})
                       \/ \E m \in 1..l : x = fs[m].op /\ b \in Range(fs[m].rest)
    <3>1. CASE b = N
      BY <3>1, <1>1, <1>11, <1>12, <1>19
    <3>2. CASE b \in U
      <4>1. q.block[b] # <<>>
        BY <3>2, <2>1, <1>1, <1>12 DEF LeadsTo
      <4>2. PICK x \in OpsIn(p) :
              /\ b \in Regions(p, x)
              /\ \/ x \in Pending(p, U, fs, {o})
                 \/ \E m \in 1..l : x = fs[m].op /\ b \in Range(fs[m].rest)
        BY <3>2, <2>1 DEF LeadsTo
      <4>3. b \in Regions(q, x) /\ x \in OpsIn(q)
        BY <4>2, <1>1, <1>11, <1>12, <1>15
      <4> QED BY <4>1, <4>2, <4>3, <1>19
    <3> QED BY <3>1, <3>2, <1>17
  <2>6. ASSUME NEW x \in OpsIn(q), IsSoft(q, x) PROVE x \in Pending(q, V, fs, {o})
    <3>1. x # n + 1
      BY <2>6, <1>13, <1>14 DEF IsSoft
    <3>2. x # o
      BY <2>6, <1>9 DEF IsSoft
    <3>3. x \in OpsIn(p) /\ IsSoft(p, x)
      BY <2>6, <3>1, <3>2, <1>1, <1>12, <1>13 DEF IsSoft
    <3> QED BY <3>3, <2>1, <1>19 DEF LeadsTo
  <2> QED BY <2>2, <2>3, <2>4, <2>5, <2>6, <1>22, ZenonT(60) DEF InvPending, LeadsTo
<1>26. InvPlaces(q, V, fs)
  <2>1. \A c \in Opening(fs) : c \in DOMAIN p.block
    BY <1>18 DEF Opening, InvPlaces
  <2>2. ASSUME NEW x, Nestable(p, U, fs, x) PROVE Nestable(q, V, fs, x)
    <3>1. PICK c \in (DOMAIN p.block) \ (U \cup Opening(fs)) : p.block[c] # <<>> /\ x = Last(p.block[c])
      BY <2>2 DEF Nestable
    <3>2. c \in (DOMAIN q.block) \ (V \cup Opening(fs)) /\ q.block[c] = p.block[c]
      BY <3>1, <1>5, <1>12, <1>17
    <3> QED BY <3>1, <3>2 DEF Nestable
  <2>3. ASSUME NEW m \in DOMAIN fs
        PROVE  /\ fs[m].b \in (DOMAIN q.block) \ V
               /\ q.block[fs[m].b] # <<>>
               /\ EndsIn(q.block[fs[m].b], Rem(q, fs[m]))
               /\ IsPoint(q, V, fs, fs[m], fs[m].info)
               /\ \A g \in Range(fs[m].got) :
                    g.et \in {"next", "nested"} => Nestable(q, V, fs, g.ep)
    <3>1. /\ fs[m].b \in (DOMAIN p.block) \ U
          /\ p.block[fs[m].b] # <<>>
          /\ EndsIn(p.block[fs[m].b], Rem(p, fs[m]))
          /\ IsPoint(p, U, fs, fs[m], fs[m].info)
          /\ \A g \in Range(fs[m].got) :
               g.et \in {"next", "nested"} => Nestable(p, U, fs, g.ep)
      BY <1>18 DEF InvPlaces
    <3>2. q.block[fs[m].b] = p.block[fs[m].b] /\ fs[m].b \in (DOMAIN q.block) \ V
      BY <3>1, <1>5, <1>12, <1>17
    <3>3. Rem(q, fs[m]) = Rem(p, fs[m])
      BY <3>2 DEF Rem
    <3>4. IsPoint(q, V, fs, fs[m], fs[m].info)
      BY <3>1, <3>3, <2>2 DEF IsPoint, AtRest
    <3> QED BY <3>1, <3>2, <3>3, <3>4, <2>2
  <2>4. \A j, k \in DOMAIN fs : fs[j].b = fs[k].b => j = k
    BY <1>18 DEF InvPlaces
  <2> QED BY <2>3, <2>4 DEF InvPlaces
<1>27. Grounded(q, V)
  <2> SUFFICES ASSUME NEW S \in SUBSET ((DOMAIN q.block) \ V), S # {}
               PROVE  \E b \in S : \A c \in S : \A x \in Range(q.block[c]) : b \notin Regions(q, x)
    BY DEF Grounded
  <2>1. S \in SUBSET ((DOMAIN p.block) \ U)
    BY <1>12, <1>17
  <2>2. PICK b \in S : \A c \in S : \A x \in Range(p.block[c]) : b \notin Regions(p, x)
    BY <2>1, <1>18 DEF Grounded
  <2>3. ASSUME NEW c \in S, NEW x \in Range(q.block[c]) PROVE b \notin Regions(q, x)
    <3>1. c \in DOMAIN p.block /\ x \in Range(p.block[c])
      BY <2>1, <2>3, <1>12
    <3>2. x \in OpsIn(p)
      BY <3>1, <1>1, CodeFacts
    <3>3. CASE x = o
      BY <3>3, <3>1, <2>1, <2>2, <1>5, <1>11
    <3>4. CASE x # o
      BY <3>1, <3>2, <3>4, <2>2, <1>1, <1>15, SMTT(60)
    <3> QED BY <3>3, <3>4
  <2> QED BY <2>3
<1>28. IsCode(q)
  BY <1>9, <1>16, CodeParts
<1>29. Inv(q, V, fs, {o})
  BY <1>20, <1>21, <1>24, <1>25, <1>26, <1>27, <1>28 DEF Inv
<1> QED BY <1>6, <1>9, <1>11, <1>13, <1>17, <1>29 DEF IsCompleted

-----------------------------------------------------------------------------
(* An assignment in front of a block just opened *)

IsPrepended(p, U, q, g) ==
  /\ Inv(q, U, g, {})
  /\ \A o \in DOMAIN p.op : o \in DOMAIN q.op /\ q.op[o] = p.op[o]

\* Starting an iteration by an assignment to a guard keeps the invariant: the
\* assignment becomes the first operation to visit.
LEMMA PrependStep ==
  ASSUME NEW p, NEW U, NEW fs, Inv(p, U, fs, {}), NEW b, fs[Len(fs)] = NewFrame(p, b),
         \A i \in DOMAIN fs[Len(fs)].todo : IsSourceNode(p.op[fs[Len(fs)].todo[i]]),
         NEW a, IsNode(a), IsAssign(a),
         NEW q, q = Emit(p, Head(p.block[b]), <<a>>),
         NEW g, g = [fs EXCEPT ![Len(fs)] = NewFrame(q, b)]
  PROVE  IsPrepended(p, U, q, g)
<1>1. PICK L : L = Len(fs)
  OBVIOUS
<1>2. /\ HasBlocks(p) /\ fs \in Seq(Frame) /\ fs # <<>> /\ L \in Nat /\ L >= 1
      /\ DOMAIN fs = 1..L /\ L \in 1..L
      /\ fs[L].b \in (DOMAIN p.block) \ U /\ p.block[fs[L].b] # <<>>
      /\ OpsIn(p) \subseteq DOMAIN p.op
  BY <1>1, InvFacts
<1>3. fs[L].b = b
  BY <1>1 DEF NewFrame
<1>4. PICK f : f = fs[L]
  OBVIOUS
<1>5. IsNewFrame(p, b, f)
  BY <1>1, <1>2, <1>3, <1>4, NewFrameFacts
<1>6. PICK at : at = Head(p.block[b])
  OBVIOUS
<1>7. AtVisited(p, U, fs, at)
  <2>1. AtRest(p, fs[L], at)
    BY <1>4, <1>5, <1>6 DEF IsNewFrame
  <2> QED BY <2>1, <1>2, RestPlace
\* The edit, with the frames as they are.
<1>8. PICK ops : ops = <<a>>
  OBVIOUS
<1>9. /\ ops \in Seq(Range(ops)) /\ DOMAIN ops = {1} /\ Len(ops) = 1 /\ ops[1] = a
      /\ \A j \in DOMAIN ops : IsNode(ops[j]) /\ ops[j].k \in {"assign", "retval"}
                               /\ ops[j].regions = <<>>
      /\ \A j \in DOMAIN ops : IsNode(ops[j]) /\ ops[j].k # "end"
  BY <1>8 DEF Range, IsAssign
<1>10. q = Emit(p, at, ops)
  BY <1>6, <1>8
<1>11. /\ Inv(q, U, fs, {})
       /\ \A o \in DOMAIN p.op : o \in DOMAIN q.op /\ q.op[o] = p.op[o]
  BY <1>7, <1>9, <1>10, EmitStep
<1>12. PICK n : n = Len(p.op)
  OBVIOUS
<1>13. at \in Range(p.block[b])
  <2>1. p.block[b] \in Seq(Nat)
    BY <1>2, <1>3, BlockFacts
  <2> QED BY <2>1, <1>2, <1>3, <1>6, RangeFacts
<1>14. IsEmit(p, b, at, ops, q)
  BY ONLY <1>2, <1>3, <1>9, <1>10, <1>13, EmitFacts, Zenon
<1>15. /\ n \in Nat /\ DOMAIN p.op = 1..n
       /\ DOMAIN q.block = DOMAIN p.block /\ q.root = p.root
       /\ n + 1 \in DOMAIN q.op /\ q.op[n + 1] = a
       /\ q.block[b] # <<>>
       /\ Range(q.block[b]) = Range(p.block[b]) \cup {n + 1}
  <2>1. n \in Nat /\ DOMAIN p.op = 1..n
    BY <1>2, <1>12, CodeFacts
  <2>2. n + 1..n + 1 = {n + 1}
    BY <2>1
  <2> QED BY <2>1, <2>2, <1>9, <1>12, <1>14 DEF IsEmit
<1>16. PICK s, t : s = p.block[b] /\ t = q.block[b]
  BY Zenon
<1>17. /\ t \in Seq(Nat) /\ Len(t) = Len(s) + 1 /\ t[1] = n + 1
       /\ \A j \in 1..Len(s) : t[j + 1] = s[j]
       /\ s \in Seq(Nat) /\ s # <<>>
  <2>1. p.block[b] # <<>> /\ b \in DOMAIN p.block
    BY <1>2, <1>3
  <2>2. /\ Emit(p, Head(p.block[b]), <<a>>).block[b] \in Seq(Nat)
        /\ Len(Emit(p, Head(p.block[b]), <<a>>).block[b]) = Len(p.block[b]) + 1
        /\ Emit(p, Head(p.block[b]), <<a>>).block[b][1] = Len(p.op) + 1
        /\ \A j \in 1..Len(p.block[b]) :
             Emit(p, Head(p.block[b]), <<a>>).block[b][j + 1] = p.block[b][j]
    BY <2>1, <1>2, EmitAtHead, SMTT(60)
  <2>3. p.block[b] \in Seq(Nat)
    BY <2>1, <1>2, BlockFacts
  <2> QED BY <2>1, <2>2, <2>3, <1>12, <1>16
\* The rest of the new frame.
<1>18. PICK l : l = Len(s)
  OBVIOUS
<1>19. /\ l \in Nat /\ l >= 1 /\ 1 \in 1..l
       /\ \A j \in 1..l - 1 : Front(s)[j] = s[j]
       /\ \A j \in 1..l : Front(t)[j] = t[j]
       /\ DOMAIN Front(s) = 1..l - 1 /\ DOMAIN Front(t) = 1..l
  <2>1. l \in Nat /\ l >= 1 /\ Len(t) = l + 1 /\ (l + 1) - 1 = l
    BY <1>17, <1>18
  <2>2. \A i \in 1..l - 1 : s[i] \in Nat
    <3>1. \A i \in 1..l : s[i] \in Nat
      BY <1>17, <1>18, SMTT(60)
    <3>2. \A i \in 1..l - 1 : i \in 1..l
      BY <2>1
    <3> QED BY <3>1, <3>2
  <2>3. \A i \in 1..l : t[i] \in Nat
    BY ONLY <2>1, <1>17, SMTT(60)
  <2>4. Front(s) = SubSeq(s, 1, l - 1) /\ Front(t) = SubSeq(t, 1, l)
    BY <2>1, <1>18 DEF Front
  <2>5. /\ DOMAIN SubSeq(s, 1, l - 1) = 1..l - 1
        /\ \A j \in 1..l - 1 : SubSeq(s, 1, l - 1)[j] = s[j]
    BY <2>1, <2>2
  <2>6. DOMAIN SubSeq(t, 1, l) = 1..l /\ \A j \in 1..l : SubSeq(t, 1, l)[j] = t[j]
    BY <2>1, <2>3
  <2> QED BY <2>1, <2>4, <2>5, <2>6
<1>20. PICK u, v : u = Front(s) /\ v = Front(t)
  OBVIOUS
<1>21. /\ DOMAIN v = 1..l /\ DOMAIN u = 1..l - 1 /\ v[1] = n + 1 /\ 1 \in 1..l
       /\ \A j \in 1..l : j # 1 => j - 1 \in 1..l - 1 /\ v[j] = u[j - 1]
       /\ Range(v) = Range(u) \cup {n + 1}
  <2>1. 1 \in 1..l /\ v[1] = n + 1 /\ DOMAIN v = 1..l /\ DOMAIN u = 1..l - 1
    <3>1. Front(t)[1] = t[1]
      BY <1>19
    <3> QED BY <3>1, <1>17, <1>19, <1>20
  <2>2. ASSUME NEW j \in 1..l, j # 1 PROVE j - 1 \in 1..l - 1 /\ v[j] = u[j - 1]
    <3>1. j - 1 \in 1..l - 1 /\ j - 1 \in 1..l /\ (j - 1) + 1 = j
      BY <2>2, <1>19
    <3>2. t[(j - 1) + 1] = s[j - 1]
      BY <3>1, <1>17, <1>18
    <3> QED BY <3>1, <3>2, <1>19, <1>20
  <2>3. ASSUME NEW j \in 1..l - 1 PROVE j + 1 \in 1..l /\ v[j + 1] = u[j]
    <3>1. j + 1 \in 1..l /\ j + 1 # 1 /\ (j + 1) - 1 = j
      BY <1>19
    <3> QED BY <3>1, <2>2
  <2>4. \A x \in Range(v) : x \in Range(u) \cup {n + 1}
    BY <2>1, <2>2 DEF Range
  <2>5. \A x \in Range(u) : x \in Range(v)
    BY <2>1, <2>3 DEF Range
  <2>6. n + 1 \in Range(v)
    BY <2>1 DEF Range
  <2> QED BY <2>1, <2>2, <2>4, <2>5, <2>6
<1>22. PICK h : h = NewFrame(q, b)
  OBVIOUS
<1>23. HasBlocks(q) /\ HasRegions(q)
  BY <1>11, InvFacts, SMTT(60)
<1>24. IsNewFrame(q, b, h)
  BY <1>2, <1>3, <1>15, <1>22, <1>23, NewFrameFacts, SMTT(60)
<1>25. /\ h \in Frame /\ h.b = b /\ h.rest = <<>> /\ h.got = <<>> /\ h.saved = NoGuards
       /\ h.todo = v /\ h.info.et = "next" /\ EndsIn(q.block[b], Rem(q, h))
       /\ AtRest(q, h, h.info.ep)
       /\ f.todo = u
  BY <1>5, <1>16, <1>20, <1>24, Zenon DEF IsNewFrame
\* The frames.
<1>26. /\ g \in Seq(Frame) /\ g # <<>> /\ Len(g) = L /\ g[L] = h /\ DOMAIN g = 1..L
       /\ \A m \in 1..L : m # L => g[m] = fs[m]
  <2>1. g = [fs EXCEPT ![Len(fs)] = h]
    BY <1>22
  <2>2. /\ g \in Seq(Frame) /\ g # <<>> /\ Len(g) = Len(fs) /\ g[Len(fs)] = h
        /\ \A m \in 1..Len(fs) : m # Len(fs) => g[m] = fs[m]
    BY <2>1, <1>2, <1>25, TopFacts
  <2> QED BY <2>2, <1>1, <1>2
<1>27. /\ \A m \in 1..L : g[m].b = fs[m].b
       /\ \A m \in 1..L - 1 : m \in 1..L /\ m # L /\ m + 1 \in 1..L /\ g[m] = fs[m]
  <2>1. \A m \in 1..L - 1 : m \in 1..L /\ m # L /\ m + 1 \in 1..L
    BY <1>2, SMT
  <2> QED BY <2>1, <1>3, <1>25, <1>26
<1>28. /\ InvFrames(q, fs) /\ InvSource(q, U, fs, {}) /\ InvActive(q, U, fs, {})
       /\ InvPending(q, U, fs, {}) /\ InvPlaces(q, U, fs) /\ Grounded(q, U) /\ IsCode(q)
  BY <1>11 DEF Inv
<1>29. Opening(g) = Opening(fs)
  BY <1>2, <1>26, <1>27 DEF Opening
<1>30. Todo(g) = Todo(fs) \cup {n + 1}
  <2>1. Range(g[L].todo) = Range(fs[L].todo) \cup {n + 1}
    BY <1>4, <1>21, <1>25, <1>26
  <2> QED BY <2>1, <1>2, <1>26 DEF Todo
<1>31. Pending(q, U, g, {}) = Pending(q, U, fs, {}) \cup {n + 1}
  BY <1>30 DEF Pending
<1>32. InvFrames(q, g)
  <2>1. AreVariables(q, h.saved)
    BY <1>25, SMTT(60) DEF AreVariables, NoGuards
  <2> QED BY <2>1, <1>2, <1>26, <1>28 DEF InvFrames
<1>33. InvSource(q, U, g, {})
  <2>1. \A m \in DOMAIN g : m # L =>
          \A i \in DOMAIN g[m].todo : IsSourceNode(q.op[g[m].todo[i]])
    <3>1. ASSUME NEW m \in DOMAIN fs, m # L, NEW i \in DOMAIN fs[m].todo
          PROVE  IsSourceNode(q.op[fs[m].todo[i]])
      BY ONLY <1>1, <1>2, <1>28, <3>1, Zenon DEF InvSource
    <3>2. \A m \in DOMAIN g : m # L => m \in DOMAIN fs /\ g[m] = fs[m]
      BY ONLY <1>2, <1>26, Zenon
    <3> QED BY ONLY <3>1, <3>2, Zenon
  <2>2. \A i \in 1..l - 1 : IsSourceNode(q.op[u[i]])
    <3> SUFFICES ASSUME NEW i \in 1..l - 1 PROVE IsSourceNode(q.op[u[i]])
      OBVIOUS
    <3>1. IsSourceNode(p.op[u[i]])
      BY <1>1, <1>4, <1>21, <1>25
    <3>2. u[i] \in Range(p.block[b])
      BY <1>5, <1>21, <1>25 DEF IsNewFrame, Range
    <3>3. u[i] \in DOMAIN p.op
      BY <3>2, <1>2, <1>3, CodeFacts
    <3> QED BY <3>1, <3>3, <1>11
  <2>3. ASSUME NEW i \in DOMAIN h.todo
        PROVE  IsSourceNode(q.op[h.todo[i]]) \/ (i = 1 /\ IsAssign(q.op[h.todo[i]]))
    <3>1. i \in 1..l /\ h.todo[i] = v[i]
      BY ONLY <2>3, <1>21, <1>25, Zenon
    <3>2. CASE i = 1
      <4>1. q.op[h.todo[i]] = a
        BY ONLY <3>1, <3>2, <1>15, <1>21, Zenon
      <4> QED BY <3>2, <4>1, Zenon
    <3>3. CASE i # 1
      BY ONLY <3>1, <3>3, <2>2, <1>21, Zenon
    <3> QED BY ONLY <3>2, <3>3, Zenon
  <2>4. ASSUME NEW m \in DOMAIN g, NEW i \in DOMAIN g[m].todo
        PROVE  \/ IsSourceNode(q.op[g[m].todo[i]])
               \/ i = 1 /\ m = Len(g) /\ {} = {} /\ IsAssign(q.op[g[m].todo[i]])
    BY ONLY <2>1, <2>3, <1>26, <2>4, Zenon
  <2>5. \A c \in U : \A o \in Range(q.block[c]) :
          IsSourceNode(q.op[o]) /\ \A r \in Regions(q, o) : r < c
    BY <1>28 DEF InvSource
  <2> QED BY <2>4, <2>5, ZenonT(60) DEF InvSource
<1>34. n + 1 \in OpsIn(q) /\ Regions(q, n + 1) = {}
  <2>1. n + 1 \in OpsIn(q)
    BY <1>2, <1>3, <1>15, SMT DEF OpsIn
  <2>2. q.op[n + 1].regions = <<>>
    BY <1>15, SMTT(60) DEF IsAssign
  <2>3. Range(q.op[n + 1].regions) = {}
    BY <2>2 DEF Range
  <2> QED BY <2>1, <2>3, SMTT(60) DEF Regions
<1>35. InvActive(q, U, g, {})
  <2>1. \A m \in 1..L - 1 : fs[m].op \in OpsIn(p)
    BY <1>1 DEF Inv, InvActive, AreActive
  <2>2. \A m \in 1..L - 1 : fs[m].op # n + 1
    <3>1. n + 1 \notin 1..n
      BY <1>15
    <3> QED BY <3>1, <2>1, <1>2, <1>15
  <2>3. AreActive(q, U, fs, {}, L - 1) /\ Nested(q, fs)
    BY <1>1, <1>28, SMTT(60) DEF InvActive
  <2>4. AreActive(q, U, g, {}, L - 1)
    BY <2>2, <2>3, <1>27, <1>31, ZenonT(60) DEF AreActive
  <2>5. Nested(q, g)
    BY <2>3, <1>1, <1>26, <1>27 DEF Nested
  <2> QED BY <2>4, <2>5, <1>26 DEF InvActive
<1>36. InvPending(q, U, g, {})
  <2>1. LeadsTo(q, U, fs, {}, L - 1)
    BY <1>1, <1>28 DEF InvPending
  <2>2. PICK P, Q : P = Pending(q, U, fs, {}) /\ Q = Pending(q, U, g, {})
    OBVIOUS
  <2>3. Q = P \cup {n + 1}
    BY <2>2, <1>31
  <2>4. /\ U \subseteq (DOMAIN q.block) \ {q.root}
        /\ P \subseteq OpsIn(q)
        /\ \A o \in P : Regions(q, o) \subseteq U
        /\ \A o \in OpsIn(q) : IsSoft(q, o) => o \in P
    BY <2>1, <2>2, SMTT(60) DEF LeadsTo
  <2>5. \A c \in U :
          /\ q.block[c] # <<>>
          /\ \E o \in OpsIn(q) :
               /\ c \in Regions(q, o)
               /\ o \in P \/ \E m \in 1..L - 1 : o = fs[m].op /\ c \in Range(fs[m].rest)
    BY <2>1, <2>2 DEF LeadsTo
  <2>6. \A c \in U :
          /\ q.block[c] # <<>>
          /\ \E o \in OpsIn(q) :
               /\ c \in Regions(q, o)
               /\ \/ o \in Q
                  \/ \E m \in 1..L - 1 : o = g[m].op /\ c \in Range(g[m].rest)
    BY <2>3, <2>5, <1>27
  <2>7. /\ Q \subseteq OpsIn(q)
        /\ \A o \in Q : Regions(q, o) \subseteq U
        /\ \A o \in OpsIn(q) : IsSoft(q, o) => o \in Q
    BY <2>3, <2>4, <1>34, SMTT(60)
  <2>8. LeadsTo(q, U, g, {}, L - 1)
    BY <2>2, <2>4, <2>6, <2>7, ZenonT(60) DEF LeadsTo
  <2> QED BY <2>8, <1>26 DEF InvPending
<1>37. InvPlaces(q, U, g)
  <2>1. \A e : Nestable(q, U, g, e) <=> Nestable(q, U, fs, e)
    BY <1>29, SMTT(60) DEF Nestable
  <2>2. ASSUME NEW m \in DOMAIN g
        PROVE  /\ g[m].b \in (DOMAIN q.block) \ U
               /\ q.block[g[m].b] # <<>>
               /\ EndsIn(q.block[g[m].b], Rem(q, g[m]))
               /\ IsPoint(q, U, g, g[m], g[m].info)
               /\ \A x \in Range(g[m].got) :
                    x.et \in {"next", "nested"} => Nestable(q, U, g, x.ep)
    <3>1. CASE m = L
      <4>1. IsPoint(q, U, g, h, h.info)
        BY <1>25 DEF IsPoint
      <4>2. \A x \in Range(h.got) : FALSE
        BY <1>25, SMTT(60) DEF Range
      <4> QED BY <4>1, <4>2, <3>1, <1>2, <1>3, <1>15, <1>25, <1>26, Zenon
    <3>2. CASE m # L
      <4>1. g[m] = fs[m] /\ m \in DOMAIN fs
        BY <3>2, <1>2, <1>26, Zenon
      <4>2. /\ fs[m].b \in (DOMAIN q.block) \ U
            /\ q.block[fs[m].b] # <<>>
            /\ EndsIn(q.block[fs[m].b], Rem(q, fs[m]))
            /\ IsPoint(q, U, fs, fs[m], fs[m].info)
            /\ \A x \in Range(fs[m].got) :
                 x.et \in {"next", "nested"} => Nestable(q, U, fs, x.ep)
        BY <4>1, <1>28, Zenon DEF InvPlaces
      <4>3. IsPoint(q, U, g, fs[m], fs[m].info)
        BY <4>2, <2>1 DEF IsPoint
      <4> QED BY <4>1, <4>2, <4>3, <2>1, Zenon
    <3> QED BY <3>1, <3>2, ZenonT(60)
  <2>3. \A j, k \in DOMAIN g : g[j].b = g[k].b => j = k
    BY ONLY <1>2, <1>26, <1>27, <1>28, SMT DEF InvPlaces
  <2> QED BY <2>2, <2>3, Zenon DEF InvPlaces
<1>38. Inv(q, U, g, {})
  BY <1>28, <1>32, <1>33, <1>35, <1>36, <1>37 DEF Inv
<1> QED BY <1>11, <1>38 DEF IsPrepended

-----------------------------------------------------------------------------
(* The visit of an operation *)

\* The rest of a block once its first operation has been taken out.
LEMMA RestTail ==
  ASSUME NEW p, HasBlocks(p), NEW f \in Frame, NEW h \in Frame,
         f.b \in DOMAIN p.block, p.block[f.b] # <<>>,
         h.b = f.b, h.todo = Tail(f.todo), f.todo # <<>>
  PROVE  Len(Rem(p, f)) >= 2 /\ Head(Rem(p, h)) = Rem(p, f)[2]
<1>1. PICK t, z : t = f.todo /\ z = Last(p.block[f.b])
  OBVIOUS
<1>2. z \in Nat /\ t \in Seq(Nat) /\ t # <<>>
  <2>1. p.block[f.b] \in Seq(Nat)
    BY BlockFacts
  <2>2. z \in Nat
    BY <2>1, <1>1, RangeFacts
  <2>3. t \in Seq(Nat)
    BY <1>1 DEF Frame
  <2> QED BY <2>2, <2>3, <1>1
<1>3. /\ Len(t) \in Nat /\ Len(t) >= 1 /\ Len(Append(t, z)) = Len(t) + 1
      /\ \A i \in 1..Len(t) : Append(t, z)[i] = t[i]
      /\ Append(t, z)[Len(t) + 1] = z
  BY <1>2
<1>4. PICK u : u = Tail(t)
  OBVIOUS
<1>5. /\ u \in Seq(Nat) /\ Len(u) = Len(t) - 1
      /\ \A j \in 1..Len(t) - 1 : u[j] = t[j + 1]
  BY <1>2, <1>4
<1>6. Head(Append(u, z)) = Append(u, z)[1]
  OBVIOUS
<1>7. Append(u, z)[1] = Append(t, z)[2]
  <2>1. CASE Len(t) = 1
    <3>1. Len(u) = 0 /\ Append(u, z)[Len(u) + 1] = z
      BY <2>1, <1>2, <1>5
    <3>2. Append(t, z)[2] = z
      BY <2>1, <1>3
    <3> QED BY <3>1, <3>2
  <2>2. CASE Len(t) >= 2
    <3>1. 1 \in 1..Len(u) /\ 1 \in 1..Len(t) - 1 /\ 2 \in 1..Len(t) /\ 1 + 1 = 2
      BY <2>2, <1>3, <1>5
    <3>2. Append(u, z)[1] = u[1]
      BY <3>1, <1>2, <1>5
    <3> QED BY <3>1, <3>2, <1>3, <1>5
  <2>3. Len(t) = 1 \/ Len(t) >= 2
    <3>1. \A l \in Nat : l >= 1 => l = 1 \/ l >= 2
      OBVIOUS
    <3> QED BY <3>1, <1>3
  <2> QED BY <2>1, <2>2, <2>3
<1>8. Rem(p, f) = Append(t, z) /\ Rem(p, h) = Append(u, z)
  BY <1>1, <1>4 DEF Rem
<1> QED BY <1>3, <1>6, <1>7, <1>8

\* Execution comes next to what follows in the block.
LEMMA NextPoint ==
  ASSUME NEW p, NEW U, NEW fs, NEW X, Inv(p, U, fs, X), NEW n \in DOMAIN fs,
         fs[n].todo # <<>>, NEW h \in Frame, h.b = fs[n].b, h.todo = Tail(fs[n].todo)
  PROVE  AtRest(p, h, NextNode(p, Head(Rem(p, fs[n])))) /\ NextNode(p, Head(Rem(p, fs[n]))) \in Nat
<1>1. PICK f : f = fs[n]
  OBVIOUS
<1>2. PICK t : t = Rem(p, f)
  OBVIOUS
<1>3. PICK b : b = f.b
  OBVIOUS
<1>4. PICK s : s = p.block[b]
  OBVIOUS
<1>5. /\ HasBlocks(p) /\ f \in Frame /\ b \in DOMAIN p.block /\ s # <<>>
      /\ t \in Seq(Nat) /\ t # <<>> /\ EndsIn(s, t)
  BY <1>1, <1>2, <1>3, <1>4, InvFacts
<1>6. Len(t) >= 2 /\ Head(Rem(p, h)) = t[2]
  BY <1>1, <1>2, <1>3, <1>4, <1>5, RestTail
<1>7. s \in Seq(Nat) /\ Len(s) \in Nat
  BY <1>4, <1>5, BlockFacts
<1>8. /\ Head(t) \in Range(s) /\ IndexOf(p, Head(t)) = Len(s) - Len(t) + 1
  BY <1>4, <1>5, HeadOfRest
<1>9. BlockOf(p, Head(t)) = b
  BY <1>4, <1>5, <1>8, CodeFacts
<1>10. Len(t) <= Len(s) /\ \A j \in 1..Len(t) : t[j] = s[Len(s) - Len(t) + j]
  BY <1>5 DEF EndsIn
<1>11. NextNode(p, Head(t)) = s[(Len(s) - Len(t) + 1) + 1]
  BY <1>4, <1>8, <1>9 DEF NextNode
<1>12. t[2] = s[(Len(s) - Len(t) + 1) + 1] /\ t[2] \in Nat
  <2>1. Len(t) \in Nat /\ 2 \in 1..Len(t)
    BY <1>5, <1>6
  <2>2. t[2] = s[Len(s) - Len(t) + 2] /\ t[2] \in Nat
    BY ONLY <2>1, <1>5, <1>10, SMTT(60)
  <2>3. Len(s) - Len(t) + 2 = (Len(s) - Len(t) + 1) + 1
    BY <2>1, <1>7
  <2> QED BY <2>2, <2>3
<1> QED BY <1>1, <1>2, <1>6, <1>11, <1>12 DEF AtRest

\* Opening the first region of an operation keeps the invariant: its block leaves
\* U, and the operation becomes the one the call is busy with.
LEMMA OpenStep ==
  ASSUME NEW p, NEW U, NEW fs, NEW o, Inv(p, U, fs, {o}),
         fs[Len(fs)].info.et \in {"next", "nested"},
         p.op[o].k \in {"scope", "branch", "for", "forin"},
         NEW bs, bs = p.op[o].regions, bs # <<>>, NEW v \in GuardSet, AreVariables(p, v),
         NEW g, g = [fs EXCEPT ![Len(fs)].op = o, ![Len(fs)].rest = Tail(bs),
                               ![Len(fs)].got = <<>>, ![Len(fs)].saved = v]
  PROVE  /\ Inv(p, U \ {Head(bs)}, g \o <<NewFrame(p, Head(bs))>>, {})
         /\ g \in Seq(Frame)
<1>1. PICK L : L = Len(fs)
  OBVIOUS
<1>2. PICK f : f = fs[L]
  OBVIOUS
<1>3. /\ HasBlocks(p) /\ fs \in Seq(Frame) /\ fs # <<>> /\ L \in Nat /\ L >= 1
      /\ DOMAIN fs = 1..L /\ L \in DOMAIN fs /\ f \in Frame /\ {o} \subseteq OpsIn(p)
      /\ OpsIn(p) \subseteq DOMAIN p.op
  <2>1. /\ HasBlocks(p) /\ fs \in Seq(Frame) /\ fs # <<>> /\ L \in Nat /\ L >= 1
        /\ DOMAIN fs = 1..L /\ {o} \subseteq OpsIn(p)
        /\ OpsIn(p) \subseteq DOMAIN p.op
    BY <1>1, InvFacts
  <2>2. L \in DOMAIN fs
    BY <2>1
  <2> QED BY <2>1, <2>2, <1>2
<1>4. o \in Nat /\ IsNode(p.op[o]) /\ bs \in Seq(Nat)
  <2>1. o \in DOMAIN p.op
    BY <1>3
  <2>2. o \in Nat
    BY ONLY <2>1, <1>3, CodeFacts, SMT
  <2>3. IsNode(p.op[o])
    BY <2>1, <1>3 DEF HasBlocks
  <2> QED BY <2>2, <2>3 DEF IsNode
<1>5. IsLoop(p, o) => Len(p.op[o].regions) = 1
  <2>1. IsSourceNode(p.op[o]) \/ IsAssign(p.op[o])
    BY DEF Inv, InvSource
  <2> QED BY <2>1 DEF IsSourceNode, IsAssign, IsLoop
<1>6. PICK bt : bt = Tail(bs)
  OBVIOUS
<1>7. bt \in Seq(Nat)
  BY <1>4, <1>6
\* The call is waiting for its first region.
<1>8. PICK h : h = [f EXCEPT !.op = o, !.rest = bs, !.got = <<>>, !.saved = v]
  OBVIOUS
<1>9. /\ h \in Frame /\ h.b = f.b /\ h.todo = f.todo /\ h.info = f.info
      /\ h.op = o /\ h.rest = bs /\ h.got = <<>> /\ h.saved = v
  <2>1. <<>> \in Seq(InfoSet)
    OBVIOUS
  <2> QED BY <2>1, <1>3, <1>4, <1>8 DEF Frame
<1>10. PICK k : k = [fs EXCEPT ![Len(fs)] = h]
  OBVIOUS
<1>11. IsPoint(p, U, fs, f, f.info)
  BY <1>2, <1>3 DEF Inv, InvPlaces
<1>12. Between(p, U, k)
  BY <1>1, <1>2, <1>4, <1>5, <1>9, <1>10, <1>11, BetweenOpen, ZenonT(60)
\* It makes its first call.
<1>13. k[L] = h /\ Len(k) = L /\ k \in Seq(Frame)
  BY <1>1, <1>3, <1>9, <1>10, TopFacts
<1>14. PICK h2 : h2 = [h EXCEPT !.rest = bt]
  OBVIOUS
<1>15. /\ h2 \in Frame /\ h2.b = h.b /\ h2.todo = h.todo /\ h2.info = h.info
       /\ h2.op = h.op /\ h2.rest = bt /\ h2.got = <<>> /\ h2.saved = v
  BY <1>7, <1>9, <1>14 DEF Frame
<1>16. PICK k2 : k2 = [k EXCEPT ![Len(k)] = h2]
  OBVIOUS
<1>17. Inv(p, U \ {Head(bs)}, Append(k2, NewFrame(p, Head(bs))), {})
  <2>1. \A x \in Range(h2.got) : FALSE
    BY <1>15 DEF Range
  <2>2. PICK b : b = Head(bs)
    OBVIOUS
  <2>3. /\ k[Len(k)].rest # <<>> /\ b = Head(k[Len(k)].rest)
        /\ h2.b = k[Len(k)].b /\ h2.todo = k[Len(k)].todo /\ h2.info = k[Len(k)].info
        /\ h2.op = k[Len(k)].op /\ h2.rest = Tail(k[Len(k)].rest)
    BY <2>2, <1>6, <1>9, <1>13, <1>15
  <2>4. Inv(p, U \ {b}, Append(k2, NewFrame(p, b)), {})
    BY <2>1, <2>3, <1>12, <1>15, <1>16, Push
  <2> QED BY <2>2, <2>4
<1>18. g = k2
  <2>1. h2 = [f EXCEPT !.op = o, !.rest = bt, !.got = <<>>, !.saved = v]
    BY <1>3, <1>8, <1>14 DEF Frame
  <2>2. k2 = [fs EXCEPT ![L] = h2]
    BY <1>1, <1>3, <1>10, <1>13, <1>16
  <2>3. \A F, w, x : L \in DOMAIN F =>
          /\ [F EXCEPT ![L].op = w, ![L].rest = x]
               = [F EXCEPT ![L] = [F[L] EXCEPT !.op = w, !.rest = x]]
          /\ [F EXCEPT ![L].got = w, ![L].saved = x]
               = [F EXCEPT ![L] = [F[L] EXCEPT !.got = w, !.saved = x]]
    BY ZenonT(60)
  <2>4. PICK A : A = [fs EXCEPT ![L].op = o, ![L].rest = bt]
    OBVIOUS
  <2>5. PICK a : a = [f EXCEPT !.op = o, !.rest = bt]
    BY SMTT(60)
  <2>6. A = [fs EXCEPT ![L] = a]
    BY <2>3, <2>4, <2>5, <1>2, <1>3
  <2>7. L \in DOMAIN A /\ A[L] = a
    BY <2>6, <1>3
  <2>8. g = [A EXCEPT ![L].got = <<>>, ![L].saved = v]
    BY <2>4, <1>1, <1>6, Zenon
  <2>9. g = [A EXCEPT ![L] = [a EXCEPT !.got = <<>>, !.saved = v]]
    BY <2>3, <2>7, <2>8
  <2>10. h2 = [a EXCEPT !.got = <<>>, !.saved = v]
    BY <2>1, <2>5
  <2>11. [A EXCEPT ![L] = h2] = [fs EXCEPT ![L] = h2]
    BY <2>6, <1>3
  <2> QED BY <2>2, <2>9, <2>10, <2>11
<1>19. k2 \in Seq(Frame)
  BY <1>10, <1>13, <1>15, <1>16
<1>20. k2 \o <<NewFrame(p, Head(bs))>> = Append(k2, NewFrame(p, Head(bs)))
  <2>1. \A x : k2 \o <<x>> = Append(k2, x)
    BY <1>19
  <2> QED BY <2>1
<1> QED BY <1>17, <1>18, <1>19, <1>20
-----------------------------------------------------------------------------
(* The actions that visit an operation with no regions *)

\* The operation has been put where execution continues; it is not in the rest
\* of its block any more.
LEMMA PlacedStep ==
  ASSUME NEW U, Inv(ir, U, frames, {}), guards \in GuardSet, NEW o, Turn(o),
         Top.info.et # "none", NEW q, q = Placed(o).ir, NEW i, i = Placed(o).info
  PROVE  /\ i \in InfoSet /\ i.et \in {"next", "nested"}
         /\ Inv(q, U, TakenFrom(frames, i), {o})
         /\ \A x \in DOMAIN ir.op : x \in DOMAIN q.op /\ q.op[x] = ir.op[x]
<1>1. PICK L : L = Len(frames)
  OBVIOUS
<1>2. PICK f : f = frames[L]
  OBVIOUS
<1>3. PICK e : e = f.info.ep
  OBVIOUS
<1>4. /\ HasBlocks(ir) /\ frames \in Seq(Frame) /\ frames # <<>> /\ L \in Nat /\ L >= 1
      /\ DOMAIN frames = 1..L /\ L \in DOMAIN frames /\ f \in Frame
      /\ f.b \in DOMAIN ir.block /\ ir.block[f.b] # <<>>
  <2>1. /\ HasBlocks(ir) /\ frames \in Seq(Frame) /\ frames # <<>> /\ L \in Nat /\ L >= 1
        /\ DOMAIN frames = 1..L
    BY <1>1, InvFacts
  <2>2. L \in DOMAIN frames
    BY <2>1
  <2>3. frames[L] \in Frame /\ frames[L].b \in DOMAIN ir.block /\ ir.block[frames[L].b] # <<>>
    BY <2>2, InvFacts
  <2> QED BY <2>1, <2>2, <2>3, <1>2
<1>5. Top = f /\ f.todo # <<>> /\ o = Head(f.todo)
  BY <1>1, <1>2 DEF Turn, Top, Last
<1>6. f.info \in InfoSet /\ f.info.et \in {"next", "nested", "multiple"} /\ e \in Nat
  BY <1>3, <1>4, <1>5 DEF Frame, InfoSet
<1>7. IsPoint(ir, U, frames, f, f.info)
  BY <1>2, <1>4 DEF Inv, InvPlaces
<1>8. \A j \in InfoSet :
        LET h == TakenFrom(frames, j)[Len(frames)]
        IN /\ h.todo = Tail(f.todo) /\ h.info = j
           /\ h \in Frame /\ h.b = f.b
           /\ Opening(TakenFrom(frames, j)) = Opening(frames)
  <2> SUFFICES ASSUME NEW j \in InfoSet
               PROVE  LET h == TakenFrom(frames, j)[Len(frames)]
                      IN /\ h.todo = Tail(f.todo) /\ h.info = j
                         /\ h \in Frame /\ h.b = f.b
                         /\ Opening(TakenFrom(frames, j)) = Opening(frames)
    OBVIOUS
  <2>1. PICK g : g = TakenFrom(frames, j)
    OBVIOUS
  <2>2. SameFrames(frames, g) /\ g[L].todo = Tail(f.todo) /\ g[L].info = j
    BY <2>1, <1>1, <1>2, <1>4, <1>5, TakenFacts
  <2>3. Opening(g) = Opening(frames) /\ g[L].b = f.b /\ g \in Seq(Frame) /\ Len(g) = L
    BY <2>2, <1>1, <1>2, <1>4, SameOpening DEF SameFrames
  <2>4. g[L] \in Frame
    BY <2>3, <1>4
  <2> QED BY <2>1, <2>2, <2>3, <2>4, <1>1
<1>9. CASE f.info.et = "next"
  <2>1. q = ir /\ i = Info(f.info.cf, "next", NextNode(ir, e))
    BY <1>3, <1>5, <1>9 DEF Placed
  <2>2. e = Head(Rem(ir, f))
    BY <1>3, <1>7, <1>9 DEF IsPoint, AtRest
  <2>3. \A h \in Frame : h.b = f.b /\ h.todo = Tail(f.todo) =>
          AtRest(ir, h, NextNode(ir, e)) /\ NextNode(ir, e) \in Nat
    BY <2>2, <1>2, <1>4, <1>5, NextPoint
  <2>4. [f EXCEPT !.todo = Tail(f.todo)] \in Frame
    <3>1. PICK t : t = f.todo
      OBVIOUS
    <3>2. t \in Seq(Nat) /\ t # <<>>
      BY <3>1, <1>4, <1>5 DEF Frame
    <3>3. Tail(t) \in Seq(Nat)
      BY <3>2
    <3> QED BY <3>1, <3>3, <1>4 DEF Frame
  <2>5. NextNode(ir, e) \in Nat
    BY <2>3, <2>4, <1>4 DEF Frame
  <2>6. i \in InfoSet /\ i.et = "next" /\ i.ep = NextNode(ir, e)
    BY <2>1, <2>5, <1>6 DEF Info, InfoSet
  <2>7. IsPoint(ir, U, frames, TakenFrom(frames, i)[Len(frames)], i)
    BY <2>3, <2>6, <1>8 DEF IsPoint
  <2>8. Inv(ir, U, TakenFrom(frames, i), {o})
    BY <2>6, <2>7, <1>1, <1>2, <1>5, AdvanceStep
  <2> QED BY <2>1, <2>6, <2>8
<1>10. CASE f.info.et = "nested"
  <2>1. q = MoveBefore(ir, o, e) /\ i = f.info
    BY <1>3, <1>5, <1>10 DEF Placed
  <2>2. Nestable(ir, U, frames, e)
    BY <1>3, <1>7, <1>10 DEF IsPoint
  <2>3. IsPoint(ir, U, frames, TakenFrom(frames, i)[Len(frames)], i)
    BY <2>1, <2>2, <1>3, <1>10 DEF IsPoint
  <2>4. Inv(ir, U, TakenFrom(frames, i), {o})
    BY <2>1, <2>3, <1>1, <1>2, <1>5, <1>6, AdvanceStep
  <2>5. Nestable(ir, U, TakenFrom(frames, i), e)
    BY <2>1, <2>2, <1>6, <1>8 DEF Nestable
  <2>6. Inv(q, U, TakenFrom(frames, i), {o}) /\ q.op = ir.op
    BY <2>1, <2>4, <2>5, MoveStep
  <2> QED BY <2>1, <2>6, <1>6, <1>10
<1>11. CASE f.info.et = "multiple"
  <2>1. PICK v : v = IF IsInLoop THEN guards.cnt ELSE guards.ret
    OBVIOUS
  <2>2. v \in Nat
    BY <2>1 DEF GuardSet
  <2>3. PICK r : r = GuardedBlock(ir, e, v)
    OBVIOUS
  <2>4. PICK n : n = Len(r.op)
    OBVIOUS
  <2>5. q = MoveBefore(r, o, n) /\ i = Info(f.info.cf, "nested", n)
    BY <2>1, <2>3, <2>4, <1>3, <1>5, <1>11 DEF Placed
  <2>6. AtVisited(ir, U, frames, e)
    <3>1. AtRest(ir, f, e) \/ Nestable(ir, U, frames, e)
      BY <1>3, <1>7, <1>11 DEF IsPoint
    <3>2. CASE AtRest(ir, f, e)
      BY <3>2, <1>2, <1>4, RestPlace
    <3>3. CASE Nestable(ir, U, frames, e)
      BY <3>3, <1>4, NestedPlace
    <3> QED BY <3>1, <3>2, <3>3
  <2>7. /\ Inv(r, U, frames, {}) /\ Nestable(r, U, frames, n)
        /\ \A x \in DOMAIN ir.op : x \in DOMAIN r.op /\ r.op[x] = ir.op[x]
    BY <2>2, <2>3, <2>4, <2>6, GuardedStep
  <2>8. n \in Nat
    BY <2>4, <2>7, InvFacts, CodeFacts
  <2>9. i \in InfoSet /\ i.et = "nested" /\ i.ep = n
    BY <2>5, <2>8, <1>6 DEF Info, InfoSet
  <2>10. IsPoint(r, U, frames, TakenFrom(frames, i)[Len(frames)], i)
    BY <2>7, <2>9, SMTT(60) DEF IsPoint
  <2>11. Inv(r, U, TakenFrom(frames, i), {o})
    BY <2>7, <2>9, <2>10, <1>1, <1>2, <1>5, AdvanceStep
  <2>12. Nestable(r, U, TakenFrom(frames, i), n)
    BY <2>7, <2>9, <1>8 DEF Nestable
  <2>13. Inv(q, U, TakenFrom(frames, i), {o}) /\ q.op = r.op
    BY <2>5, <2>11, <2>12, MoveStep
  <2> QED BY <2>7, <2>9, <2>13
<1> QED BY <1>6, <1>9, <1>10, <1>11

\* An operation with no regions is done with.
LEMMA DropStep ==
  ASSUME NEW p, NEW U, NEW fs, NEW X, Inv(p, U, fs, X),
         \A o \in X : Regions(p, o) = {} /\ ~IsSoft(p, o)
  PROVE  Inv(p, U, fs, {})
<1>1. HasBlocks(p) /\ OpsIn(p) \subseteq DOMAIN p.op
  BY InvFacts
<1>2. \A o \in DOMAIN p.op : SameNode(p.op[o], p.op[o])
  BY <1>1 DEF HasBlocks, SameNode
<1>3. \A n \in DOMAIN fs : EndsIn(p.block[fs[n].b], Rem(p, fs[n]))
  BY InvFacts
<1>4. IsCode(p) /\ Grounded(p, U)
  BY DEF Inv
<1>5. Edited(p, p, U, fs, X, {})
  BY <1>2, <1>3, <1>4 DEF Edited
<1> QED BY <1>5, EditStep
\* The info of frames that have been taken from, changed.
LEMMA Retaken ==
  ASSUME NEW fs \in Seq(Frame), fs # <<>>, NEW i, NEW j
  PROVE  [TakenFrom(fs, i) EXCEPT ![Len(fs)].info = j] = TakenFrom(fs, j)
<1>1. PICK L : L = Len(fs)
  OBVIOUS
<1>2. PICK f : f = fs[L]
  OBVIOUS
<1>3. L \in DOMAIN fs /\ f \in Frame
  BY <1>1, <1>2
<1>4. \A F, x, y : L \in DOMAIN F =>
        /\ [F EXCEPT ![L].todo = x, ![L].info = y]
             = [F EXCEPT ![L] = [F[L] EXCEPT !.todo = x, !.info = y]]
        /\ [F EXCEPT ![L].info = y] = [F EXCEPT ![L] = [F[L] EXCEPT !.info = y]]
  OBVIOUS
<1>5. PICK t : t = Tail(f.todo)
  OBVIOUS
<1>6. PICK u, v : u = [f EXCEPT !.todo = t, !.info = i] /\ v = [f EXCEPT !.todo = t, !.info = j]
  OBVIOUS
<1>7. v = [u EXCEPT !.info = j]
  BY <1>3, <1>6 DEF Frame
<1>8. /\ TakenFrom(fs, i) = [fs EXCEPT ![L].todo = t, ![L].info = i]
      /\ TakenFrom(fs, j) = [fs EXCEPT ![L].todo = t, ![L].info = j]
  BY <1>1, <1>2, <1>5 DEF TakenFrom
<1>9. TakenFrom(fs, i) = [fs EXCEPT ![L] = u] /\ TakenFrom(fs, j) = [fs EXCEPT ![L] = v]
  BY <1>2, <1>3, <1>4, <1>6, <1>8
<1>10. PICK T : T = [fs EXCEPT ![L] = u]
  OBVIOUS
<1>11. L \in DOMAIN T /\ T[L] = u
  BY <1>3, <1>10
<1>12. [T EXCEPT ![L].info = j] = [T EXCEPT ![L] = [T[L] EXCEPT !.info = j]]
  BY <1>4, <1>11
<1>13. [T EXCEPT ![L] = v] = [fs EXCEPT ![L] = v]
  BY <1>3, <1>10
<1> QED BY <1>1, <1>7, <1>9, <1>10, <1>11, <1>12, <1>13

\* What the invariant of the system says while the visitor is at work,
LEMMA VisitFacts ==
  ASSUME IInv, phase = "visit"
  PROVE  /\ \E U \in SUBSET Nat : Inv(ir, U, frames, {})
         /\ guards \in GuardSet /\ AreVariables(ir, guards)
BY DEF IInv, InvPhase, TypeOK, AreVariables

\* and what it takes for it to hold after a step of the visitor.
LEMMA VisitGoesOn ==
  ASSUME NEW U, Inv(ir', U, frames', {}), phase' = "visit", guards' \in GuardSet,
         AreVariables(ir', guards'), Last(frames').op = 0
  PROVE  IInv'
<1>1. IsCode(ir') /\ U \subseteq DOMAIN ir'.block /\ HasBlocks(ir')
  <2>1. IsCode(ir')
    BY DEF Inv
  <2> QED BY <2>1, InvFacts
<1>2. U \in SUBSET Nat
  <2>1. DOMAIN ir'.block \subseteq Nat
    BY <1>1, CodeFacts
  <2> QED BY <2>1, <1>1
<1>3. TypeOK'
  BY <1>1 DEF TypeOK, AreVariables
<1>4. InvPhase'
  BY <1>2 DEF InvPhase
<1> QED BY <1>3, <1>4 DEF IInv

\* The frames after the operation at the head of the rest has been taken.
LEMMA TakenTop ==
  ASSUME NEW U, Inv(ir, U, frames, {}), NEW o, Turn(o), NEW i \in InfoSet
  PROVE  /\ Advanced(i) = TakenFrom(frames, i)
         /\ Last(TakenFrom(frames, i)).op = 0
         /\ TakenFrom(frames, i) \in Seq(Frame) /\ TakenFrom(frames, i) # <<>>
         /\ Len(TakenFrom(frames, i)) = Len(frames)
         /\ Last(TakenFrom(frames, i)).info = i
<1>1. /\ frames \in Seq(Frame) /\ frames # <<>>
      /\ frames[Len(frames)].todo # <<>> /\ frames[Len(frames)].op = 0
  BY InvFacts DEF Turn, Top, Last
<1>2. PICK g : g = TakenFrom(frames, i)
  OBVIOUS
<1>3. SameFrames(frames, g) /\ g[Len(frames)].info = i /\ g[Len(frames)].op = 0
  BY <1>1, <1>2, TakenFacts
<1>4. g \in Seq(Frame) /\ g # <<>> /\ Len(g) = Len(frames)
  BY <1>3 DEF SameFrames
<1>5. Last(g).op = 0 /\ Last(g).info = i
  BY <1>3, <1>4 DEF Last
<1>6. Advanced(i) = g
  BY <1>2 DEF Advanced, TakenFrom
<1> QED BY <1>2, <1>4, <1>5, <1>6

\* visitOp on an operation without soft control flow keeps the invariant.
LEMMA VisitPlainStep ==
  ASSUME IInv, NEW o \in DOMAIN ir.op, VisitPlain(o)
  PROVE  IInv'
<1>1. PICK U \in SUBSET Nat : Inv(ir, U, frames, {})
  BY VisitFacts DEF VisitPlain, Turn
<1>2. Turn(o) /\ Top.info.et # "none" /\ ir.op[o].k \in {"op", "assign"}
  BY DEF VisitPlain
<1>3. guards \in GuardSet /\ AreVariables(ir, guards) /\ phase = "visit"
  BY <1>2, VisitFacts DEF Turn
<1>4. PICK q, i : q = Placed(o).ir /\ i = Placed(o).info
  OBVIOUS
<1>5. /\ i \in InfoSet
      /\ Inv(q, U, TakenFrom(frames, i), {o})
      /\ \A x \in DOMAIN ir.op : x \in DOMAIN q.op /\ q.op[x] = ir.op[x]
  BY <1>1, <1>2, <1>3, <1>4, PlacedStep
<1>6. Regions(q, o) = {} /\ ~IsSoft(q, o)
  <2>1. q.op[o].k \in {"op", "assign"}
    BY <1>2, <1>5
  <2>2. IsSourceNode(q.op[o]) \/ IsAssign(q.op[o])
    BY <1>5 DEF Inv, InvSource
  <2>3. q.op[o].regions = <<>>
    BY <2>1, <2>2 DEF IsSourceNode, IsAssign
  <2>4. Range(q.op[o].regions) = {}
    BY <2>3 DEF Range
  <2> QED BY <2>1, <2>4 DEF Regions, IsSoft
<1>7. Inv(q, U, TakenFrom(frames, i), {})
  BY <1>5, <1>6, DropStep
<1>8. ir' = q /\ frames' = TakenFrom(frames, i) /\ Last(TakenFrom(frames, i)).op = 0
  BY <1>1, <1>2, <1>4, <1>5, TakenTop DEF VisitPlain
<1>9. phase' = "visit" /\ guards' = guards
  BY <1>3 DEF VisitPlain
<1>10. AreVariables(q, guards)
  BY <1>3, <1>5 DEF AreVariables
<1> QED BY <1>3, <1>7, <1>8, <1>9, <1>10, VisitGoesOn

\* What a soft control flow operation leaves in its place.
LEMMA ClearsFacts ==
  ASSUME guards \in GuardSet, NEW k \in {"ret", "brk", "cnt"}
  PROVE  Clears(k) \in Seq(Nat)
BY DEF Clears, GuardSet

\* visitOp on a return, break or continue keeps it: guards are cleared at a point
\* that exists, the operation is erased.
LEMMA VisitSoftStep ==
  ASSUME IInv, NEW o \in DOMAIN ir.op, VisitSoft(o)
  PROVE  IInv'
<1>1. PICK U \in SUBSET Nat : Inv(ir, U, frames, {})
  BY VisitFacts DEF VisitSoft, Turn
<1>2. Turn(o) /\ Top.info.et # "none" /\ IsSoft(ir, o)
  BY DEF VisitSoft
<1>3. guards \in GuardSet /\ AreVariables(ir, guards) /\ phase = "visit"
  BY <1>2, VisitFacts DEF Turn
<1>4. PICK q, i : q = Placed(o).ir /\ i = Placed(o).info
  OBVIOUS
<1>5. PICK T : T = TakenFrom(frames, i)
  OBVIOUS
<1>6. /\ i \in InfoSet
      /\ Inv(q, U, T, {o})
      /\ \A x \in DOMAIN ir.op : x \in DOMAIN q.op /\ q.op[x] = ir.op[x]
  BY <1>1, <1>2, <1>3, <1>4, <1>5, PlacedStep
\* The assignments in front of it.
<1>7. PICK k : k = ir.op[o].k
  OBVIOUS
<1>8. k \in {"ret", "brk", "cnt"} /\ o \in Nat
  <2>1. DOMAIN ir.op \subseteq Nat
    BY <1>1, InvFacts, CodeFacts
  <2> QED BY <2>1, <1>2, <1>7 DEF IsSoft
<1>9. PICK C : C = Clears(k)
  OBVIOUS
<1>10. C \in Seq(Nat) /\ Len(C) \in Nat /\ DOMAIN C = 1..Len(C)
  BY <1>3, <1>8, <1>9, ClearsFacts
<1>11. PICK N : N = {Assign(v, FALSE) : v \in Nat} \cup {Make("retval", <<>>, NoVar, o)}
  OBVIOUS
<1>12. \A n \in N : IsNode(n) /\ n.k \in {"assign", "retval"} /\ n.regions = <<>>
  <2>1. \A v \in Nat : /\ IsNode(Assign(v, FALSE)) /\ Assign(v, FALSE).k = "assign"
                       /\ Assign(v, FALSE).regions = <<>>
    BY DEF Assign, Make, IsNode, Kind
  <2>2. LET n == Make("retval", <<>>, NoVar, o)
        IN IsNode(n) /\ n.k = "retval" /\ n.regions = <<>>
    BY DEF Make, IsNode, Kind, NoVar
  <2> QED BY <2>1, <2>2, <1>11
<1>13. PICK clears : clears = [j \in DOMAIN C |-> Assign(C[j], FALSE)]
  OBVIOUS
<1>14. clears \in Seq(N)
  <2>1. \A j \in 1..Len(C) : C[j] \in Nat
    BY <1>10
  <2>2. \A v \in Nat : Assign(v, FALSE) \in N
    BY <1>11
  <2>3. \A j \in 1..Len(C) : Assign(C[j], FALSE) \in N
    BY <2>1, <2>2
  <2>4. clears = [j \in 1..Len(C) |-> Assign(C[j], FALSE)]
    BY <1>10, <1>13
  <2>5. \A F : (\A j \in 1..Len(C) : F[j] \in N) => [j \in 1..Len(C) |-> F[j]] \in Seq(N)
    BY <1>10
  <2>6. \A j \in 1..Len(C) : clears[j] \in N
    BY <2>3, <2>4
  <2>7. clears = [j \in 1..Len(C) |-> clears[j]]
    BY <2>4
  <2>8. [j \in 1..Len(C) |-> clears[j]] \in Seq(N)
    BY <2>5, <2>6
  <2> QED BY <2>7, <2>8
<1>15. PICK value : value = IF k = "ret" /\ ir.valued THEN <<Make("retval", <<>>, NoVar, o)>>
                            ELSE <<>>
  OBVIOUS
<1>16. value \in Seq(N)
  <2>1. PICK m : m = Make("retval", <<>>, NoVar, o)
    OBVIOUS
  <2>2. m \in N
    BY <2>1, <1>11
  <2>3. <<m>> \in Seq(N) /\ <<>> \in Seq(N)
    BY <2>2
  <2> QED BY <2>1, <2>3, <1>15
<1>17. PICK ops : ops = clears \o value
  OBVIOUS
<1>18. ops \in Seq(N)
  BY <1>14, <1>16, <1>17
<1>19. /\ ops \in Seq(Range(ops))
       /\ \A j \in DOMAIN ops :
            IsNode(ops[j]) /\ ops[j].k \in {"assign", "retval"} /\ ops[j].regions = <<>>
  <2>1. Len(ops) \in Nat /\ DOMAIN ops = 1..Len(ops) /\ \A j \in DOMAIN ops : ops[j] \in N
    BY <1>18
  <2>2. \A j \in DOMAIN ops : ops[j] \in Range(ops)
    BY DEF Range
  <2>3. ops = [j \in 1..Len(ops) |-> ops[j]]
    BY <1>18
  <2>4. ops \in Seq(Range(ops))
    BY <2>1, <2>2, <2>3
  <2> QED BY <2>1, <2>4, <1>12
<1>20. PICK r : r = Emit(q, o, ops)
  OBVIOUS
<1>21. /\ Inv(r, U, T, {o})
       /\ \A x \in DOMAIN q.op : x \in DOMAIN r.op /\ r.op[x] = q.op[x]
  <2>1. AtVisited(q, U, T, o)
    BY <1>6, CurrentPlace
  <2> QED BY <2>1, <1>6, <1>19, <1>20, EmitStep
\* It goes.
<1>22. r.op[o].k = k /\ o \in OpsIn(r)
  BY <1>6, <1>7, <1>21, InvFacts
<1>23. PICK e : e = Erase(r, {o})
  OBVIOUS
<1>24. Inv(e, U, T, {}) /\ e.op = r.op
  <2>1. /\ IsSourceNode(r.op[o]) \/ IsAssign(r.op[o])
        /\ r.op[o].k # "end" /\ o \notin Todo(T) /\ \A c \in U : o \notin Range(r.block[c])
    BY <1>21 DEF Inv, InvSource
  <2>2. Regions(r, o) = {}
    <3>1. r.op[o].regions = <<>>
      BY <2>1, <1>8, <1>22 DEF IsSourceNode, IsAssign
    <3>2. Range(r.op[o].regions) = {}
      BY <3>1 DEF Range
    <3> QED BY <3>2 DEF Regions
  <2>3. {o} \cap Pending(r, U, T, {}) = {}
    BY <2>1 DEF Pending
  <2>4. \A n \in 1..Len(T) - 1 : T[n].op \notin {o}
    <3>1. \A n \in 1..Len(T) - 1 : T[n].op \notin Pending(r, U, T, {o})
      BY <1>21 DEF Inv, InvActive, AreActive
    <3> QED BY <3>1 DEF Pending
  <2>5. \A x \in OpsIn(r) \cap {o} : r.op[x].k # "end"
    BY <2>1
  <2>6. {} \in SUBSET {o} /\ {o} \ {} \subseteq {o} /\ \A x \in {o} \ {} : Regions(r, x) = {}
    BY <2>2
  <2> QED BY <2>3, <2>4, <2>5, <2>6, <1>21, <1>23, EraseStep
\* Nothing of the block is reached any more.
<1>25. PICK j : j = Absorbed(i, Info({k}, "none", 0))
  OBVIOUS
<1>26. j \in InfoSet /\ j.et = "none"
  BY <1>6, <1>8, <1>25 DEF Absorbed, Info, InfoSet
<1>27. PICK g : g = [T EXCEPT ![Len(T)].info = j]
  OBVIOUS
<1>28. Inv(e, U, g, {})
  <2>1. IsPoint(e, U, T, T[Len(T)], j)
    BY <1>26 DEF IsPoint
  <2> QED BY <2>1, <1>24, <1>26, <1>27, InfoStep
<1>29. g = TakenFrom(frames, j) /\ Last(TakenFrom(frames, j)).op = 0 /\ Advanced(j) = TakenFrom(frames, j)
  <2>1. Len(T) = Len(frames) /\ Last(TakenFrom(frames, j)).op = 0
        /\ Advanced(j) = TakenFrom(frames, j)
    BY <1>1, <1>2, <1>5, <1>6, <1>26, TakenTop
  <2>2. g = TakenFrom(frames, j)
    <3>1. frames \in Seq(Frame) /\ frames # <<>>
      BY <1>1, InvFacts, SMTT(60)
    <3> QED BY <3>1, <2>1, <1>5, <1>27, Retaken
  <2> QED BY <2>1, <2>2
<1>30. ir' = e /\ frames' = TakenFrom(frames, j) /\ phase' = "visit" /\ guards' = guards
  <2>1. ir' = Erase(Emit(Placed(o).ir, o,
                         [n \in DOMAIN Clears(ir.op[o].k) |-> Assign(Clears(ir.op[o].k)[n], FALSE)]
                           \o (IF ir.op[o].k = "ret" /\ ir.valued
                               THEN <<Make("retval", <<>>, NoVar, o)>> ELSE <<>>)), {o})
    BY DEF VisitSoft
  <2>2. frames' = Advanced(Absorbed(Placed(o).info, Info({ir.op[o].k}, "none", 0)))
    BY DEF VisitSoft
  <2>3. phase' = phase /\ guards' = guards
    BY DEF VisitSoft
  <2> QED BY <2>1, <2>2, <2>3, <1>3, <1>4, <1>7, <1>9, <1>13, <1>15, <1>17, <1>20, <1>23, <1>25, <1>29, Zenon
<1>31. AreVariables(e, guards)
  BY <1>3, <1>6, <1>21, <1>24 DEF AreVariables
<1> QED BY <1>3, <1>28, <1>29, <1>30, <1>31, VisitGoesOn, Zenon
-----------------------------------------------------------------------------
(* The actions that open an operation *)

\* The call just made is the innermost one.
LEMMA LastPushed ==
  ASSUME NEW fs \in Seq(Frame), NEW f
  PROVE  /\ Last(fs \o <<f>>) = f /\ Len(fs \o <<f>>) = Len(fs) + 1
         /\ \A h : [fs \o <<f>> EXCEPT ![Len(fs) + 1] = h] = fs \o <<h>>
<1>1. \A h : /\ fs \o <<h>> \in Seq(Frame \cup {h}) /\ Len(fs \o <<h>>) = Len(fs) + 1
             /\ DOMAIN (fs \o <<h>>) = 1..Len(fs) + 1
             /\ (fs \o <<h>>)[Len(fs) + 1] = h
             /\ \A n \in 1..Len(fs) : (fs \o <<h>>)[n] = fs[n]
  <2> SUFFICES ASSUME NEW h
               PROVE  /\ fs \o <<h>> \in Seq(Frame \cup {h}) /\ Len(fs \o <<h>>) = Len(fs) + 1
                      /\ DOMAIN (fs \o <<h>>) = 1..Len(fs) + 1
                      /\ (fs \o <<h>>)[Len(fs) + 1] = h
                      /\ \A n \in 1..Len(fs) : (fs \o <<h>>)[n] = fs[n]
    OBVIOUS
  <2>1. fs \in Seq(Frame \cup {h}) /\ <<h>> \in Seq(Frame \cup {h}) /\ Len(<<h>>) = 1
    BY SeqWiden
  <2>2. fs \o <<h>> \in Seq(Frame \cup {h}) /\ Len(fs \o <<h>>) = Len(fs) + 1
    BY <2>1
  <2>3. Len(fs) \in Nat /\ DOMAIN (fs \o <<h>>) = 1..Len(fs) + 1
    BY <2>2
  <2> QED BY <2>1, <2>2, <2>3
<1>2. ASSUME NEW h PROVE [fs \o <<f>> EXCEPT ![Len(fs) + 1] = h] = fs \o <<h>>
  <2>1. PICK s, t : s = fs \o <<f>> /\ t = fs \o <<h>>
    OBVIOUS
  <2>2. PICK l \in Nat : l = Len(fs)
    OBVIOUS
  <2>3. /\ DOMAIN s = 1..l + 1 /\ DOMAIN t = 1..l + 1 /\ t[l + 1] = h
        /\ \A n \in 1..l : s[n] = t[n]
        /\ s = [n \in 1..l + 1 |-> s[n]] /\ t = [n \in 1..l + 1 |-> t[n]]
    <3>1. /\ DOMAIN s = 1..l + 1 /\ DOMAIN t = 1..l + 1 /\ t[l + 1] = h
          /\ \A n \in 1..l : s[n] = t[n]
      BY <1>1, <2>1, <2>2
    <3>2. s \in Seq(Frame \cup {f}) /\ t \in Seq(Frame \cup {h})
      BY <1>1, <2>1
    <3> QED BY <3>1, <3>2
  <2>4. [s EXCEPT ![l + 1] = h] = [n \in 1..l + 1 |-> IF n = l + 1 THEN h ELSE s[n]]
    BY <2>3
  <2>5. \A n \in 1..l + 1 : (IF n = l + 1 THEN h ELSE s[n]) = t[n]
    <3>1. \A n \in 1..l + 1 : n = l + 1 \/ n \in 1..l
      BY <2>2
    <3> QED BY <3>1, <2>3
  <2>6. [s EXCEPT ![l + 1] = h] = t
    BY <2>3, <2>4, <2>5
  <2> QED BY <2>1, <2>2, <2>6
<1>3. Last(fs \o <<f>>) = f
  BY <1>1 DEF Last
<1> QED BY <1>1, <1>2, <1>3

\* Opening an if, a switch or a scope keeps the invariant.
LEMMA OpenConditionalStep ==
  ASSUME IInv, NEW o \in DOMAIN ir.op, OpenConditional(o)
  PROVE  IInv'
<1>1. PICK U \in SUBSET Nat : Inv(ir, U, frames, {})
  BY VisitFacts, Zenon DEF OpenConditional, Turn
<1>2. Turn(o) /\ Top.info.et # "none" /\ ir.op[o].k \in {"scope", "branch"}
  BY DEF OpenConditional
<1>3. guards \in GuardSet /\ AreVariables(ir, guards) /\ phase = "visit"
  BY <1>2, VisitFacts DEF Turn
<1>4. PICK q, i : q = Placed(o).ir /\ i = Placed(o).info
  OBVIOUS
<1>5. PICK T : T = TakenFrom(frames, i)
  OBVIOUS
<1>6. /\ i \in InfoSet /\ i.et \in {"next", "nested"}
      /\ Inv(q, U, T, {o})
      /\ \A x \in DOMAIN ir.op : x \in DOMAIN q.op /\ q.op[x] = ir.op[x]
  BY <1>1, <1>2, <1>3, <1>4, <1>5, PlacedStep, Zenon
<1>7. Advanced(i) = T /\ Len(T) = Len(frames) /\ Last(T).info = i
  BY <1>1, <1>2, <1>5, <1>6, TakenTop
<1>8. PICK missing : missing = (ir.op[o].k = "branch" /\ ~ir.op[o].val)
  OBVIOUS
<1>9. PICK p : p = IF missing THEN WithRegion(AddEmptyBlock(q), o, Len(q.block) + 1) ELSE q
  OBVIOUS
\* The operation has a region.
<1>10. \E V : /\ Inv(p, V, T, {o}) /\ p.op[o].k \in {"scope", "branch"}
              /\ p.op[o].regions # <<>> /\ DOMAIN ir.op \subseteq DOMAIN p.op
  <2>1. CASE missing
    <3>1. q.op[o].k = "branch"
      BY <2>1, <1>6, <1>8
    <3>2. PICK N : N = Len(q.block) + 1
      OBVIOUS
    <3>3. p = WithRegion(AddEmptyBlock(q), o, N)
      BY <3>2, <2>1, <1>9
    <3>4. Inv(p, U \cup {N}, T, {o}) /\ p.op[o].k = "branch" /\ p.op[o].regions # <<>>
          /\ DOMAIN q.op \subseteq DOMAIN p.op
      <4>1. Inv(q, U, T, {o})
        BY <1>6
      <4>2. IsCompleted(q, U, T, o, N, p)
        BY ONLY <4>1, <3>1, <3>2, <3>3, MissingStep, Zenon
      <4> QED BY <4>2 DEF IsCompleted
    <3> QED BY <3>4, <1>6
  <2>2. CASE ~missing
    <3>1. p = q /\ q.op[o] = ir.op[o]
      BY <2>2, <1>6, <1>9
    <3>2. IsSourceNode(q.op[o]) \/ IsAssign(q.op[o])
      BY <1>6 DEF Inv, InvSource
    <3>3. q.op[o].regions # <<>>
      <4>1. IsSourceNode(q.op[o])
        BY <3>1, <3>2, <1>2 DEF IsAssign
      <4>2. CASE q.op[o].k = "scope"
        <5>1. Len(q.op[o].regions) = 1
          BY <4>1, <4>2 DEF IsSourceNode
        <5>2. \A s : s = <<>> => Len(s) = 0
          OBVIOUS
        <5> QED BY <5>1, <5>2
      <4>3. CASE q.op[o].k = "branch"
        BY <4>1, <4>3, <3>1, <2>2, <1>8 DEF IsSourceNode
      <4> QED BY <4>2, <4>3, <3>1, <1>2
    <3> QED BY <3>1, <3>3, <1>2, <1>6
  <2> QED BY <2>1, <2>2
<1>11. PICK V : /\ Inv(p, V, T, {o}) /\ p.op[o].k \in {"scope", "branch"}
                /\ p.op[o].regions # <<>> /\ DOMAIN ir.op \subseteq DOMAIN p.op
  BY <1>10
<1>12. PICK bs : bs = p.op[o].regions
  OBVIOUS
<1>13. AreVariables(p, guards)
  BY <1>3, <1>11 DEF AreVariables
<1>14. PICK g : g = [T EXCEPT ![Len(T)].op = o, ![Len(T)].rest = Tail(bs),
                              ![Len(T)].got = <<>>, ![Len(T)].saved = guards]
  OBVIOUS
<1>15. Inv(p, V \ {Head(bs)}, g \o <<NewFrame(p, Head(bs))>>, {}) /\ g \in Seq(Frame)
  <2>1. T[Len(T)].info.et \in {"next", "nested"}
    BY <1>6, <1>7 DEF Last
  <2> QED BY <2>1, <1>3, <1>11, <1>12, <1>13, <1>14, OpenStep, Zenon
<1>16. PICK h : h = g \o <<NewFrame(p, Head(bs))>>
  OBVIOUS
<1>17. Last(h).op = 0
  <2>1. NewFrame(p, Head(bs)).op = 0
    BY SMTT(60) DEF NewFrame
  <2> QED BY <2>1, <1>15, <1>16, LastPushed
<1>18. ir' = p /\ frames' = h /\ phase' = "visit" /\ guards' = guards
  <2>1. ir' = IF ir.op[o].k = "branch" /\ ~ir.op[o].val
              THEN [AddEmptyBlock(q) EXCEPT !.op[o].val = TRUE,
                                            !.op[o].regions = Append(@, Len(q.block) + 1)]
              ELSE q
    BY <1>4 DEF OpenConditional
  <2>2. ir' = p
    BY <2>1, <1>8, <1>9 DEF WithRegion
  <2>3. frames' = Opened(ir', o, Placed(o).info, ir'.op[o].regions)
    BY DEF OpenConditional
  <2>4. Opened(p, o, i, bs) = [T EXCEPT ![Len(frames)].op = o, ![Len(frames)].rest = Tail(bs),
                                        ![Len(frames)].got = <<>>, ![Len(frames)].saved = guards]
                                \o <<NewFrame(p, Head(bs))>>
    BY <1>7, SMTT(60) DEF Opened
  <2>5. frames' = h
    BY <2>2, <2>3, <2>4, <1>4, <1>7, <1>12, <1>14, <1>16, Zenon
  <2> QED BY <2>2, <2>5, <1>3, Zenon DEF OpenConditional
<1> QED BY <1>3, <1>13, <1>15, <1>16, <1>17, <1>18, VisitGoesOn, SMTT(60)

\* Opening a loop, with the guards it is given, keeps the invariant.
LEMMA OpenLoopStep ==
  ASSUME IInv, NEW o \in DOMAIN ir.op, OpenLoop(o)
  PROVE  IInv'
<1>1. PICK U \in SUBSET Nat : Inv(ir, U, frames, {})
  BY VisitFacts, ZenonT(60) DEF OpenLoop, Turn
<1>2. Turn(o) /\ Top.info.et # "none" /\ ir.op[o].k \in {"for", "forin"}
  BY DEF OpenLoop, IsLoop
<1>3. guards \in GuardSet /\ AreVariables(ir, guards) /\ phase = "visit"
  BY <1>2, VisitFacts DEF Turn
<1>4. PICK q, i : q = Placed(o).ir /\ i = Placed(o).info
  OBVIOUS
<1>5. PICK T : T = TakenFrom(frames, i)
  OBVIOUS
<1>6. /\ i \in InfoSet /\ i.et \in {"next", "nested"}
      /\ Inv(q, U, T, {o})
      /\ \A x \in DOMAIN ir.op : x \in DOMAIN q.op /\ q.op[x] = ir.op[x]
  BY <1>1, <1>2, <1>3, <1>4, <1>5, PlacedStep, Zenon
<1>7. Advanced(i) = T /\ Len(T) = Len(frames) /\ Last(T).info = i
  BY <1>1, <1>2, <1>5, <1>6, TakenTop
\* The new guards.
<1>8. PICK brk, cnt : brk = Len(q.op) + 1 /\ cnt = Len(q.op) + 2
  OBVIOUS
<1>9. /\ HasBlocks(q) /\ Len(q.op) \in Nat /\ brk \in Nat /\ cnt \in Nat /\ o \in OpsIn(q)
      /\ DOMAIN q.op = 1..Len(q.op)
  <2>1. HasBlocks(q) /\ o \in OpsIn(q)
    BY <1>6, InvFacts
  <2>2. Len(q.op) \in Nat /\ DOMAIN q.op = 1..Len(q.op)
    BY <2>1, CodeFacts
  <2> QED BY <2>1, <2>2, <1>8
<1>10. \A v \in Nat : /\ IsNode(Assign(v, TRUE)) /\ IsAssign(Assign(v, TRUE))
                      /\ Assign(v, TRUE).k = "assign" /\ Assign(v, TRUE).regions = <<>>
  BY DEF Assign, Make, IsNode, IsAssign, Kind
<1>11. PICK a1, a2 : a1 = Assign(brk, TRUE) /\ a2 = Assign(cnt, TRUE)
  OBVIOUS
<1>12. PICK ops : ops = <<a1, a2>>
  OBVIOUS
<1>13. /\ ops \in Seq(Range(ops)) /\ DOMAIN ops = {1, 2} /\ Len(ops) = 2
       /\ ops[1] = a1 /\ ops[2] = a2
  BY <1>12 DEF Range
<1>14. \A j \in DOMAIN ops :
         /\ IsNode(ops[j]) /\ ops[j].k \in {"assign", "retval"} /\ ops[j].regions = <<>>
         /\ ops[j].k # "end"
  <2>1. \A a \in {a1, a2} : IsNode(a) /\ a.k = "assign" /\ a.regions = <<>>
    BY <1>9, <1>10, <1>11
  <2>2. \A j \in DOMAIN ops : ops[j] \in {a1, a2}
    BY <1>13
  <2> QED BY <2>1, <2>2
<1>15. PICK r : r = Emit(q, o, ops)
  OBVIOUS
<1>16. /\ Inv(r, U, T, {o})
       /\ \A x \in DOMAIN q.op : x \in DOMAIN r.op /\ r.op[x] = q.op[x]
  <2>1. AtVisited(q, U, T, o)
    BY <1>6, CurrentPlace
  <2> QED BY <2>1, <1>6, <1>13, <1>14, <1>15, EmitStep
<1>17. brk \in DOMAIN r.op /\ cnt \in DOMAIN r.op
  <2>1. PICK c \in DOMAIN q.block : o \in Range(q.block[c])
    BY <1>9, CodeFacts
  <2>2. IsEmit(q, c, o, ops, r)
    BY <2>1, <1>9, <1>13, <1>14, <1>15, EmitFacts
  <2>3. \A j \in DOMAIN ops : Len(q.op) + j \in DOMAIN r.op
    BY <2>2 DEF IsEmit
  <2> QED BY <2>3, <1>8, <1>13
\* The body is opened.
<1>18. PICK bs : bs = r.op[o].regions
  OBVIOUS
<1>19. r.op[o] = ir.op[o] /\ o \in DOMAIN r.op
  BY <1>6, <1>16
<1>20. bs # <<>> /\ bs \in Seq(Nat)
  <2>1. IsSourceNode(r.op[o]) \/ IsAssign(r.op[o])
    BY <1>16 DEF Inv, InvSource
  <2>2. Len(r.op[o].regions) = 1
    BY <2>1, <1>2, <1>19 DEF IsSourceNode, IsAssign
  <2>3. Len(bs) = 1
    BY <2>2, <1>18
  <2>4. IsNode(r.op[o])
    BY <1>16, <1>19, InvFacts DEF HasBlocks
  <2>5. bs \in Seq(Nat)
    BY <2>4, <1>18 DEF IsNode
  <2>6. bs # <<>>
    <3>1. bs = <<>> => Len(bs) = 0
      OBVIOUS
    <3>2. Len(bs) # 0
      BY <2>3
    <3> QED BY <3>1, <3>2
  <2> QED BY <2>5, <2>6
<1>21. PICK b : b = Head(bs)
  OBVIOUS
<1>22. b \in U /\ b = bs[1]
  <2>1. b = bs[1] /\ 1 \in DOMAIN bs
    BY <1>20, <1>21
  <2>2. b \in Regions(r, o)
    BY <2>1, <1>18 DEF Regions, Range
  <2>3. Regions(r, o) \subseteq U
    BY <1>16, InvFacts
  <2> QED BY <2>1, <2>2, <2>3
<1>23. AreVariables(r, guards)
  BY <1>3, <1>6, <1>16, Zenon DEF AreVariables
<1>24. PICK g : g = [T EXCEPT ![Len(T)].op = o, ![Len(T)].rest = Tail(bs),
                              ![Len(T)].got = <<>>, ![Len(T)].saved = guards]
  OBVIOUS
<1>25. Inv(r, U \ {b}, g \o <<NewFrame(r, b)>>, {}) /\ g \in Seq(Frame)
  <2>1. T[Len(T)].info.et \in {"next", "nested"}
    BY <1>6, <1>7 DEF Last
  <2>2. r.op[o].k \in {"scope", "branch", "for", "forin"}
    BY <1>2, <1>19
  <2> QED BY <2>1, <2>2, <1>3, <1>16, <1>18, <1>20, <1>21, <1>23, <1>24, OpenStep
<1>26. PICK G : G = g \o <<NewFrame(r, b)>>
  OBVIOUS
<1>27. G[Len(G)] = NewFrame(r, b) /\ Len(G) = Len(g) + 1
  BY <1>25, <1>26, LastPushed DEF Last
\* Every iteration starts with an assignment.
<1>28. \A j \in DOMAIN G[Len(G)].todo : IsSourceNode(r.op[G[Len(G)].todo[j]])
  <2>1. \A x \in Range(r.block[b]) : IsSourceNode(r.op[x])
    BY <1>16, <1>22 DEF Inv, InvSource
  <2>2. /\ HasBlocks(r) /\ b \in DOMAIN r.block /\ r.block[b] # <<>>
    BY <1>16, <1>22, InvFacts DEF Inv, InvPending, LeadsTo
  <2>3. IsNewFrame(r, b, NewFrame(r, b))
    BY <2>2, NewFrameFacts
  <2>4. Range(G[Len(G)].todo) \subseteq Range(r.block[b])
    BY <2>3, <1>27 DEF IsNewFrame
  <2> QED BY <2>1, <2>4 DEF Range
<1>29. PICK p : p = Emit(r, Head(r.block[b]), <<a2>>)
  OBVIOUS
<1>30. PICK H : H = [G EXCEPT ![Len(G)] = NewFrame(p, b)]
  OBVIOUS
<1>31. /\ Inv(p, U \ {b}, H, {})
       /\ \A x \in DOMAIN r.op : x \in DOMAIN p.op /\ p.op[x] = r.op[x]
  <2>1. IsNode(a2) /\ IsAssign(a2)
    BY <1>9, <1>10, <1>11
  <2>2. Inv(r, U \ {b}, G, {}) /\ G[Len(G)] = NewFrame(r, b)
    BY <1>25, <1>26, <1>27
  <2>3. IsPrepended(r, U \ {b}, p, H)
    BY ONLY <2>1, <2>2, <1>28, <1>29, <1>30, PrependStep, Zenon
  <2> QED BY <2>3 DEF IsPrepended
<1>32. H = g \o <<NewFrame(p, b)>> /\ Last(H).op = 0
  <2>1. H = g \o <<NewFrame(p, b)>>
    <3>1. \A f, h : [g \o <<f>> EXCEPT ![Len(g) + 1] = h] = g \o <<h>>
      BY <1>25, LastPushed
    <3>2. H = [G EXCEPT ![Len(g) + 1] = NewFrame(p, b)]
      BY <1>27, <1>30
    <3> QED BY <3>1, <3>2, <1>26
  <2>2. NewFrame(p, b).op = 0
    BY DEF NewFrame
  <2> QED BY <2>1, <2>2, <1>25, LastPushed
<1>33. p.op[o].regions = bs
  BY <1>18, <1>19, <1>31
<1>34. PICK v : v = [guards EXCEPT !.brk = brk, !.cnt = cnt]
  OBVIOUS
<1>35. v \in GuardSet /\ v.ret = guards.ret /\ v.brk = brk /\ v.cnt = cnt
  BY <1>3, <1>9, <1>34 DEF GuardSet
<1>36. ir' = p /\ frames' = H /\ phase' = "visit" /\ guards' = v
  <2>1. r = Emit(q, o, <<Assign(brk, TRUE), Assign(cnt, TRUE)>>)
    BY <1>11, <1>12, <1>15
  <2>2. p = Emit(r, Head(Body(r, o)), <<Assign(cnt, TRUE)>>)
    BY <1>11, <1>18, <1>22, <1>29, Zenon DEF Body
  <2>3. ir' = p /\ guards' = v /\ phase' = phase
    BY <2>1, <2>2, <1>4, <1>8, <1>34, SMTT(60) DEF OpenLoop
  <2>4. frames' = Opened(ir', o, Placed(o).info, ir'.op[o].regions)
    BY DEF OpenLoop
  <2>5. Opened(p, o, i, bs) = [T EXCEPT ![Len(frames)].op = o, ![Len(frames)].rest = Tail(bs),
                                        ![Len(frames)].got = <<>>, ![Len(frames)].saved = guards]
                                \o <<NewFrame(p, b)>>
    BY <1>7, <1>21, SMT DEF Opened
  <2>6. frames' = H
    BY <2>3, <2>4, <2>5, <1>4, <1>7, <1>24, <1>32, <1>33
  <2> QED BY <2>3, <2>6, <1>3
<1>37. AreVariables(p, v)
  BY <1>17, <1>23, <1>31, <1>35 DEF AreVariables
<1> QED BY <1>31, <1>32, <1>35, <1>36, <1>37, VisitGoesOn, SMTT(60)
-----------------------------------------------------------------------------
(* The actions at the end of a block *)

\* The top frame is closed, its caller is between two regions.
LEMMA PoppedFacts ==
  ASSUME IInv, BlockDone, Len(frames) > 1,
         NEW G, G = SubSeq(frames, 1, Len(frames) - 1), NEW c, c = Caller
  PROVE  /\ \E U \in SUBSET Nat :
              /\ Inv(ir, U, frames, {}) /\ Between(ir, U, G)
              /\ Top.info.et \in {"next", "nested"} => Nestable(ir, U, G, Top.info.ep)
         /\ guards \in GuardSet /\ AreVariables(ir, guards) /\ phase = "visit"
         /\ G \in Seq(Frame) /\ G # <<>> /\ Len(G) = Len(frames) - 1 /\ Len(G) \in DOMAIN G
         /\ G[Len(G)] = c /\ c \in Frame /\ Top.info \in InfoSet
<1>1. PICK U \in SUBSET Nat : Inv(ir, U, frames, {})
  BY VisitFacts DEF BlockDone
<1>2. guards \in GuardSet /\ AreVariables(ir, guards) /\ phase = "visit"
  BY VisitFacts DEF BlockDone
<1>3. PICK L : L = Len(frames)
  OBVIOUS
<1>4. /\ frames \in Seq(Frame) /\ L \in Nat /\ L > 1 /\ DOMAIN frames = 1..L
  BY <1>1, <1>3, InvFacts
<1>5. Top = frames[L] /\ frames[L] \in Frame /\ frames[L].todo = <<>>
  <2>1. L \in DOMAIN frames
    BY <1>4
  <2> QED BY <2>1, <1>3, <1>4 DEF Top, Last, BlockDone
<1>6. Top.info \in InfoSet
  BY <1>5 DEF Frame
<1>7. /\ G \in Seq(Frame) /\ Len(G) = L - 1 /\ DOMAIN G = 1..L - 1
      /\ \A n \in 1..L - 1 : G[n] = frames[n]
  BY <1>3, <1>4, SubSeqProperties
<1>8. L - 1 \in 1..L - 1 /\ L - 1 \in DOMAIN frames
  BY <1>4
<1>9. G # <<>> /\ G[Len(G)] = c /\ c \in Frame
  <2>1. c = frames[L - 1]
    BY <1>3 DEF Caller
  <2>2. Len(G) # 0
    BY <1>4, <1>7
  <2>3. G = <<>> => Len(G) = 0
    OBVIOUS
  <2>4. G[L - 1] = frames[L - 1]
    BY <1>7, <1>8
  <2>5. frames[L - 1] \in Frame
    BY <1>4, <1>8
  <2> QED BY <2>1, <2>2, <2>3, <2>4, <2>5, <1>7
<1>10. /\ Between(ir, U, G)
       /\ Top.info.et \in {"next", "nested"} => Nestable(ir, U, G, Top.info.ep)
  <2>1. frames[Len(frames)].todo = <<>>
    BY <1>3, <1>5
  <2>2. /\ Between(ir, U, G)
        /\ frames[Len(frames)].info.et \in {"next", "nested"}
             => Nestable(ir, U, G, frames[Len(frames)].info.ep)
    BY <2>1, <1>1, BetweenPop
  <2> QED BY <2>2, <1>3, <1>5
<1> QED BY <1>1, <1>2, <1>3, <1>6, <1>7, <1>8, <1>9, <1>10

\* What the caller and its caller's frames are known to be.
LEMMA CallerFacts ==
  ASSUME NEW p, NEW U, NEW G, Between(p, U, G), NEW n, n = Len(G), n \in DOMAIN G
  PROVE  /\ AreVariables(p, G[n].saved)
         /\ \A x \in Range(G[n].got) : x.et \in {"next", "nested"} => Nestable(p, U, G, x.ep)
         /\ IsPoint(p, U, G, G[n], G[n].info) /\ G[n].info.et \in {"next", "nested"}
         /\ G[n].op \in OpsIn(p)
<1>1. n \in 1..Len(G)
  BY DEF Between, InvFrames
<1> QED BY <1>1 DEF Between, InvFrames, InvPlaces, AreActive

\* Appending to a sequence.
LEMMA AppendFacts ==
  ASSUME NEW A, NEW s \in Seq(A), NEW x \in A
  PROVE  /\ Append(s, x) \in Seq(A) /\ Range(Append(s, x)) = Range(s) \cup {x}
         /\ Len(Append(s, x)) = Len(s) + 1 /\ DOMAIN Append(s, x) = 1..Len(s) + 1
<1>1. PICK t : t = Append(s, x)
  OBVIOUS
<1>2. /\ t \in Seq(A) /\ Len(t) = Len(s) + 1 /\ Len(s) \in Nat
      /\ \A i \in 1..Len(s) : t[i] = s[i]
      /\ t[Len(s) + 1] = x
      /\ DOMAIN t = 1..Len(s) + 1 /\ DOMAIN s = 1..Len(s)
  BY <1>1
<1>3. /\ \A i \in 1..Len(s) + 1 : i \in 1..Len(s) \/ i = Len(s) + 1
      /\ \A i \in 1..Len(s) : i \in 1..Len(s) + 1
      /\ Len(s) + 1 \in 1..Len(s) + 1
  BY <1>2
<1>4. Range(t) = Range(s) \cup {x}
  BY <1>2, <1>3 DEF Range
<1> QED BY <1>1, <1>2, <1>4

\* Going to the next region of an operation keeps the invariant.
LEMMA NextRegionStep ==
  ASSUME IInv, NextRegion
  PROVE  IInv'
<1>1. BlockDone /\ Len(frames) > 1 /\ Caller.rest # <<>>
  BY DEF NextRegion
<1>2. PICK G : G = SubSeq(frames, 1, Len(frames) - 1)
  OBVIOUS
<1>3. PICK c : c = Caller
  OBVIOUS
<1>4. PICK n : n = Len(G)
  OBVIOUS
<1>5. PICK U \in SUBSET Nat :
        /\ Inv(ir, U, frames, {}) /\ Between(ir, U, G)
        /\ Top.info.et \in {"next", "nested"} => Nestable(ir, U, G, Top.info.ep)
  BY <1>1, <1>2, <1>3, PoppedFacts
<1>6. /\ guards \in GuardSet /\ AreVariables(ir, guards) /\ phase = "visit"
      /\ G \in Seq(Frame) /\ G # <<>> /\ n = Len(frames) - 1 /\ n \in DOMAIN G
      /\ G[n] = c /\ c \in Frame /\ Top.info \in InfoSet
  BY <1>1, <1>2, <1>3, <1>4, PoppedFacts
<1>7. /\ AreVariables(ir, c.saved)
      /\ \A x \in Range(c.got) : x.et \in {"next", "nested"} => Nestable(ir, U, G, x.ep)
  BY <1>4, <1>5, <1>6, CallerFacts
<1>8. PICK t, a : t = Tail(c.rest) /\ a = Append(c.got, Top.info)
  OBVIOUS
<1>9. /\ t \in Seq(Nat) /\ a \in Seq(InfoSet)
      /\ Range(a) = Range(c.got) \cup {Top.info}
  <2>1. PICK s, u, x : s = c.rest /\ u = c.got /\ x = Top.info
    OBVIOUS
  <2>2. s \in Seq(Nat) /\ s # <<>> /\ u \in Seq(InfoSet) /\ x \in InfoSet
    BY <2>1, <1>1, <1>3, <1>6 DEF Frame
  <2>3. Tail(s) \in Seq(Nat)
    BY <2>2
  <2>4. Append(u, x) \in Seq(InfoSet) /\ Range(Append(u, x)) = Range(u) \cup {x}
    BY <2>2, AppendFacts
  <2> QED BY <2>1, <2>3, <2>4, <1>8
<1>10. PICK h : h = [c EXCEPT !.rest = t, !.got = a]
  OBVIOUS
<1>11. /\ h \in Frame /\ h.b = c.b /\ h.todo = c.todo /\ h.info = c.info /\ h.op = c.op
       /\ h.rest = t /\ h.got = a /\ h.saved = c.saved
  BY <1>6, <1>9, <1>10 DEF Frame
<1>12. PICK g : g = [G EXCEPT ![Len(G)] = h]
  OBVIOUS
<1>13. PICK b : b = Head(c.rest)
  OBVIOUS
<1>14. Inv(ir, U \ {b}, Append(g, NewFrame(ir, b)), {})
  <2>1. G[Len(G)] = c
    BY <1>4, <1>6
  <2>2. /\ G[Len(G)].rest # <<>> /\ b = Head(G[Len(G)].rest)
        /\ h.b = G[Len(G)].b /\ h.todo = G[Len(G)].todo /\ h.info = G[Len(G)].info
        /\ h.op = G[Len(G)].op /\ h.rest = Tail(G[Len(G)].rest)
    BY <2>1, <1>1, <1>3, <1>8, <1>11, <1>13
  <2>3. AreVariables(ir, h.saved)
    BY <1>7, <1>11
  <2>4. \A x \in Range(h.got) : x.et \in {"next", "nested"} => Nestable(ir, U, G, x.ep)
    BY <1>5, <1>7, <1>9, <1>11
  <2> QED BY <2>2, <2>3, <2>4, <1>5, <1>11, <1>12, Push
<1>15. g \in Seq(Frame) /\ g \o <<NewFrame(ir, b)>> = Append(g, NewFrame(ir, b))
  <2>1. g \in Seq(Frame)
    BY <1>6, <1>11, <1>12
  <2>2. \A x : g \o <<x>> = Append(g, x)
    BY <2>1
  <2> QED BY <2>1, <2>2
<1>16. frames' = g \o <<NewFrame(ir, b)>>
  <2>1. frames' = [G EXCEPT ![n].rest = Tail(G[n].rest), ![n].got = Append(G[n].got, Top.info)]
                    \o <<NewFrame(ir, Head(Caller.rest))>>
    BY <1>2, <1>6 DEF NextRegion
  <2>2. \A x, y : [G EXCEPT ![n].rest = x, ![n].got = y]
                    = [G EXCEPT ![n] = [G[n] EXCEPT !.rest = x, !.got = y]]
    BY <1>6
  <2>3. [G EXCEPT ![n].rest = t, ![n].got = a] = g
    BY <2>2, <1>4, <1>6, <1>10, <1>12
  <2>4. frames' = [G EXCEPT ![n].rest = t, ![n].got = a] \o <<NewFrame(ir, b)>>
    BY <2>1, <1>3, <1>6, <1>8, <1>13
  <2> QED BY <2>3, <2>4
<1>17. Last(frames').op = 0
  <2>1. NewFrame(ir, b).op = 0
    BY DEF NewFrame
  <2> QED BY <2>1, <1>15, <1>16, LastPushed
<1>18. ir' = ir /\ guards' = guards /\ phase' = "visit"
  BY <1>6 DEF NextRegion
<1> QED BY <1>6, <1>14, <1>15, <1>16, <1>17, <1>18, VisitGoesOn

\* The greatest of a set of numbers.
LEMMA MaxFacts ==
  ASSUME NEW n \in Nat, NEW S \in SUBSET (1..n), S # {}
  PROVE  Max(S) \in S /\ \A y \in S : Max(S) >= y
<1> DEFINE T == {k \in Nat : \A x \in S : x <= k}
<1>1. n \in T
  OBVIOUS
<1>2. PICK k \in T : \A m \in T : k <= m
  <2>1. T \in SUBSET Nat /\ T # {}
    BY <1>1
  <2> HIDE DEF T
  <2> QED BY <2>1, Least
<1>3. k \in Nat /\ \A x \in S : x <= k
  BY <1>2
<1>4. k \in S
  <2> SUFFICES ASSUME k \notin S PROVE FALSE
    OBVIOUS
  <2>1. \A x \in S : x \in Nat /\ x >= 1 /\ x <= k /\ x # k
    BY <1>3
  <2>2. \A x \in S : x <= k - 1
    BY <2>1, <1>3
  <2>3. k - 1 \in Nat
    <3>1. PICK x \in S : TRUE
      OBVIOUS
    <3>2. x \in Nat /\ x >= 1 /\ x <= k
      BY <2>1, <3>1
    <3> QED BY <3>2, <1>3
  <2>4. k - 1 \in T
    BY <2>2, <2>3
  <2>5. ~(k <= k - 1)
    BY <1>3
  <2> QED BY <2>4, <2>5, <1>2
<1>5. k \in S /\ \A y \in S : k >= y
  <2>1. \A y \in S : y \in Nat
    OBVIOUS
  <2> QED BY <2>1, <1>3, <1>4
<1> QED BY <1>5 DEF Max

\* Where execution continues after the blocks of an operation is where it
\* continues in one of them, if it is told at all.
LEMMA CombinedFacts ==
  ASSUME NEW infos \in Seq(InfoSet), NEW i, i = Combined(infos)
  PROVE  /\ i \in InfoSet
         /\ i.et = "nested" => \E x \in Range(infos) : x.et \in {"next", "nested"} /\ i.ep = x.ep
<1> DEFINE Of(et) == {k \in DOMAIN infos : infos[k].et = et}
           Is(et) == Cardinality(Of(et))
           total == Len(infos)
           cf == UNION {infos[k].cf : k \in DOMAIN infos}
           points == Of("next") \cup Of("nested")
<1>1. Len(infos) \in Nat /\ DOMAIN infos = 1..Len(infos) /\ \A k \in DOMAIN infos : infos[k] \in InfoSet
  OBVIOUS
<1>2. cf \in SUBSET {"ret", "brk", "cnt"}
  <2>1. \A k \in DOMAIN infos : infos[k].cf \in SUBSET {"ret", "brk", "cnt"}
    BY <1>1 DEF InfoSet
  <2> QED BY <2>1
<1>3. i = IF Is("none") = total THEN Info(cf, "none", 0)
          ELSE IF Is("next") = total THEN Info(cf, "next", 0)
          ELSE IF Is("none") = total - 1 /\ (Is("next") = 1 \/ Is("nested") = 1)
               THEN Info(cf, "nested", infos[Max(points)].ep)
          ELSE Info(cf, "multiple", 0)
  BY DEF Combined
<1>4. (Is("next") = 1 \/ Is("nested") = 1) => points # {}
  <2>1. ASSUME NEW X, Cardinality(X) = 1 PROVE X # {}
    <3>1. Cardinality({}) = 0
      BY FS_EmptySet
    <3>2. Cardinality(X) # 0
      BY <2>1
    <3> QED BY <3>1, <3>2
  <2>2. Is("next") = 1 => Of("next") # {}
    BY <2>1
  <2>3. Is("nested") = 1 => Of("nested") # {}
    BY <2>1
  <2> QED BY <2>2, <2>3
<1>5. points # {} => Max(points) \in points
  <2>1. points \in SUBSET (1..Len(infos))
    BY <1>1
  <2> HIDE DEF points
  <2> QED BY <2>1, <1>1, MaxFacts
<1>6. points # {} => LET x == infos[Max(points)]
                     IN x \in Range(infos) /\ x.et \in {"next", "nested"} /\ x.ep \in Nat
  <2> SUFFICES ASSUME points # {}
               PROVE  LET x == infos[Max(points)]
                      IN x \in Range(infos) /\ x.et \in {"next", "nested"} /\ x.ep \in Nat
    OBVIOUS
  <2>1. PICK m : m = Max(points)
    OBVIOUS
  <2>2. m \in DOMAIN infos /\ infos[m].et \in {"next", "nested"}
    BY <2>1, <1>5
  <2>3. infos[m] \in Range(infos) /\ infos[m].ep \in Nat
    BY <2>2, <1>1 DEF Range, InfoSet
  <2> QED BY <2>1, <2>2, <2>3
<1>7. PICK c, P, M : c = cf /\ P = points /\ M = Max(points)
  OBVIOUS
<1>8. \/ i = Info(c, "none", 0) \/ i = Info(c, "next", 0) \/ i = Info(c, "multiple", 0)
      \/ P # {} /\ i = Info(c, "nested", infos[M].ep)
  BY <1>3, <1>4, <1>7
<1> HIDE DEF cf, points, Of, Is, total
<1>9. P # {} => infos[M] \in Range(infos) /\ infos[M].et \in {"next", "nested"} /\ infos[M].ep \in Nat
  BY <1>6, <1>7
<1>10. c \in SUBSET {"ret", "brk", "cnt"}
  BY <1>2, <1>7
<1>11. \A et \in {"next", "nested", "multiple", "none"}, e \in Nat :
         Info(c, et, e) \in InfoSet /\ Info(c, et, e).et = et /\ Info(c, et, e).ep = e
  BY <1>10 DEF Info, InfoSet
<1> QED BY <1>8, <1>9, <1>11

IsReturned(p, U, R) == Inv(p, U, R, {}) /\ Last(R).op = 0

\* The operation the caller is visiting is done with and has reported `got`.
LEMMA ReturnedStep ==
  ASSUME NEW p, NEW U, NEW G, Between(p, U, G), NEW n, n = Len(G), n \in DOMAIN G,
         G[n].rest = <<>>, NEW got \in InfoSet, got.et = "nested" => Nestable(p, U, G, got.ep),
         NEW R, R = [G EXCEPT ![n].op = 0, ![n].info = Absorbed(G[n].info, got)]
  PROVE  IsReturned(p, U, R)
<1>1. PICK c : c = G[n]
  OBVIOUS
<1>2. /\ G \in Seq(Frame) /\ G # <<>> /\ c \in Frame
  BY <1>1 DEF Between, InvFrames
<1>3. /\ AreVariables(p, c.saved)
      /\ \A x \in Range(c.got) : x.et \in {"next", "nested"} => Nestable(p, U, G, x.ep)
      /\ IsPoint(p, U, G, c, c.info) /\ c.info.et \in {"next", "nested"}
  BY <1>1, CallerFacts
<1>4. PICK j : j = Absorbed(c.info, got)
  OBVIOUS
<1>5. j \in InfoSet /\ IsPoint(p, U, G, c, j)
  <2>1. c.info \in InfoSet
    BY <1>2 DEF Frame
  <2>2. CASE got.et = "next"
    BY <2>1, <2>2, <1>3, <1>4 DEF Absorbed
  <2>3. CASE got.et # "next"
    <3>1. j = Info(c.info.cf \cup got.cf, got.et, IF got.et = "nested" THEN got.ep ELSE c.info.ep)
      BY <2>3, <1>4 DEF Absorbed
    <3>2. j \in InfoSet /\ j.et = got.et /\ j.ep = IF got.et = "nested" THEN got.ep ELSE c.info.ep
      BY <3>1, <2>1 DEF Info, InfoSet
    <3>3. AtRest(p, c, c.info.ep) \/ Nestable(p, U, G, c.info.ep)
      BY <1>3 DEF IsPoint
    <3> QED BY <3>2, <3>3, <2>3 DEF IsPoint
  <2> QED BY <2>2, <2>3
<1>6. PICK h : h = [c EXCEPT !.op = 0, !.info = j]
  OBVIOUS
<1>7. /\ h \in Frame /\ h.b = c.b /\ h.todo = c.todo /\ h.info = j /\ h.op = 0
      /\ h.got = c.got /\ h.saved = c.saved
  BY <1>2, <1>5, <1>6 DEF Frame
<1>8. R = [G EXCEPT ![Len(G)] = h]
  <2>1. R = [G EXCEPT ![n].op = 0, ![n].info = j]
    BY <1>1, <1>4
  <2>2. \A x, y : [G EXCEPT ![n].op = x, ![n].info = y]
                    = [G EXCEPT ![n] = [G[n] EXCEPT !.op = x, !.info = y]]
    OBVIOUS
  <2> QED BY <2>1, <2>2, <1>1, <1>6
<1>9. Inv(p, U, R, {})
  <2>1. G[Len(G)] = c
    BY <1>1
  <2>2. /\ G[Len(G)].rest = <<>> /\ h.b = G[Len(G)].b /\ h.todo = G[Len(G)].todo
        /\ AreVariables(p, h.saved) /\ IsPoint(p, U, G, G[Len(G)], h.info)
        /\ \A x \in Range(h.got) : x.et \in {"next", "nested"} => Nestable(p, U, G, x.ep)
    BY <2>1, <1>1, <1>3, <1>5, <1>7
  <2> QED BY <2>2, <1>7, <1>8, BetweenClose
<1>10. Last(R).op = 0
  <2>1. Len(R) = Len(G) /\ R[Len(G)] = h
    BY <1>2, <1>7, <1>8
  <2> QED BY <2>1, <1>7 DEF Last
<1> QED BY <1>9, <1>10 DEF IsReturned

\* Leaving an if, a switch or a scope, with the points its regions agree on,
\* keeps the invariant.
LEMMA FinishConditionalStep ==
  ASSUME IInv, FinishConditional
  PROVE  IInv'
<1>1. BlockDone /\ Len(frames) > 1 /\ Caller.rest = <<>>
  BY DEF FinishConditional
<1>2. PICK G : G = SubSeq(frames, 1, Len(frames) - 1)
  OBVIOUS
<1>3. PICK c : c = Caller
  OBVIOUS
<1>4. PICK n : n = Len(G)
  OBVIOUS
<1>5. PICK U \in SUBSET Nat :
        /\ Inv(ir, U, frames, {}) /\ Between(ir, U, G)
        /\ Top.info.et \in {"next", "nested"} => Nestable(ir, U, G, Top.info.ep)
  BY <1>1, <1>2, <1>3, PoppedFacts
<1>6. /\ guards \in GuardSet /\ AreVariables(ir, guards) /\ phase = "visit"
      /\ G \in Seq(Frame) /\ G # <<>> /\ n = Len(frames) - 1 /\ n \in DOMAIN G
      /\ G[n] = c /\ c \in Frame /\ Top.info \in InfoSet
  BY <1>1, <1>2, <1>3, <1>4, PoppedFacts
<1>7. \A x \in Range(c.got) : x.et \in {"next", "nested"} => Nestable(ir, U, G, x.ep)
  BY <1>4, <1>5, <1>6, CallerFacts
<1>8. PICK infos : infos = Append(c.got, Top.info)
  OBVIOUS
<1>9. infos \in Seq(InfoSet) /\ Range(infos) = Range(c.got) \cup {Top.info}
  <2>1. c.got \in Seq(InfoSet)
    BY <1>6 DEF Frame
  <2> QED BY <2>1, <1>6, <1>8, AppendFacts
<1>10. PICK got : got = Combined(infos)
  OBVIOUS
<1>11. got \in InfoSet /\ (got.et = "nested" => Nestable(ir, U, G, got.ep))
  <2>1. /\ got \in InfoSet
        /\ got.et = "nested" => \E x \in Range(infos) : x.et \in {"next", "nested"} /\ got.ep = x.ep
    BY <1>9, <1>10, CombinedFacts
  <2>2. \A x \in Range(infos) : x.et \in {"next", "nested"} => Nestable(ir, U, G, x.ep)
    BY <1>5, <1>7, <1>9
  <2> QED BY <2>1, <2>2
<1>12. PICK R : R = [G EXCEPT ![n].op = 0, ![n].info = Absorbed(G[n].info, got)]
  OBVIOUS
<1>13. Inv(ir, U, R, {}) /\ Last(R).op = 0
  <2>1. G[n].rest = <<>>
    BY <1>1, <1>3, <1>6
  <2>2. Between(ir, U, G) /\ n \in DOMAIN G
    BY <1>5, <1>6
  <2>3. IsReturned(ir, U, R)
    BY ONLY <2>1, <2>2, <1>4, <1>11, <1>12, ReturnedStep, Zenon
  <2> QED BY <2>3 DEF IsReturned
<1>14. frames' = R /\ ir' = ir /\ guards' = guards /\ phase' = "visit"
  <2>1. frames' = Returned(Combined(Append(Caller.got, Top.info)))
    BY DEF FinishConditional
  <2>2. Returned(got) = R
    BY <1>2, <1>6, <1>12 DEF Returned
  <2>3. frames' = R
    BY <2>1, <2>2, <1>3, <1>8, <1>10
  <2> QED BY <2>3, <1>6 DEF FinishConditional
<1> QED BY <1>6, <1>13, <1>14, VisitGoesOn
-----------------------------------------------------------------------------
(* The guards of a loop *)

\* A front keeps the positions of its members.
LEMMA FrontItems ==
  ASSUME NEW A, NEW s \in Seq(A), s # <<>>
  PROVE  /\ Front(s) \in Seq(A) /\ Len(s) \in Nat /\ Len(s) >= 1 /\ DOMAIN s = 1..Len(s)
         /\ DOMAIN Front(s) = 1..Len(s) - 1 /\ Len(Front(s)) = Len(s) - 1
         /\ \A j \in 1..Len(s) - 1 : j \in 1..Len(s) /\ j # Len(s) /\ Front(s)[j] = s[j]
<1>1. PICK l : l = Len(s)
  OBVIOUS
<1>2. l \in Nat /\ l >= 1 /\ DOMAIN s = 1..l
  BY <1>1
<1>3. \A j \in 1..l - 1 : j \in 1..l /\ j # l
  BY <1>2
<1>4. \A j \in 1..l - 1 : s[j] \in A
  BY <1>1, <1>2, <1>3
<1>5. Front(s) = SubSeq(s, 1, l - 1)
  BY <1>1 DEF Front
<1>6. /\ SubSeq(s, 1, l - 1) \in Seq(A)
      /\ DOMAIN SubSeq(s, 1, l - 1) = 1..l - 1 /\ Len(SubSeq(s, 1, l - 1)) = l - 1
      /\ \A j \in 1..l - 1 : SubSeq(s, 1, l - 1)[j] = s[j]
  BY <1>2, <1>4
<1> QED BY <1>1, <1>2, <1>3, <1>5, <1>6

\* q is p with what the block b does in a new block that v guards.
IsGuarding(p, b, v, q) ==
  LET n == Len(p.op)
      N == Len(p.block) + 1
  IN /\ HasBlocks(q) /\ q.root = p.root
     /\ DOMAIN q.block = DOMAIN p.block \cup {N} /\ N \notin DOMAIN p.block
     /\ \A o \in DOMAIN p.op : o \in DOMAIN q.op /\ q.op[o] = p.op[o]
     /\ n + 1 \notin DOMAIN p.op /\ q.op[n + 1] = Make("guard", <<N>>, v, FALSE)
     /\ n + 2 \notin DOMAIN p.op /\ q.op[n + 2] = End
     /\ \A c \in DOMAIN p.block : c # b => q.block[c] = p.block[c]
     /\ q.block[b] = <<n + 1, Last(p.block[b])>>
     /\ Range(q.block[b]) = {n + 1, Last(p.block[b])}
     /\ Range(q.block[N]) = Range(Front(p.block[b])) \cup {n + 2}
     /\ OpsIn(q) = OpsIn(p) \cup {n + 1, n + 2}

\* guardBlock does what IsGuarding says.
LEMMA GuardBlockFacts ==
  ASSUME NEW p, HasBlocks(p), NEW b \in DOMAIN p.block, p.block[b] # <<>>, NEW v \in Nat
  PROVE  IsGuarding(p, b, v, GuardBlock(p, b, v))
<1>1. PICK n, N : n = Len(p.op) /\ N = Len(p.block) + 1
  OBVIOUS
<1>2. PICK s, z : s = p.block[b] /\ z = Last(s)
  OBVIOUS
<1>3. /\ n \in Nat /\ DOMAIN p.op = 1..n /\ Len(p.block) \in Nat /\ DOMAIN p.block = 1..Len(p.block)
      /\ N \in Nat /\ N \notin DOMAIN p.block
      /\ p.block \in Seq(Range(p.block))
      /\ p = [op |-> p.op, block |-> p.block, root |-> p.root, valued |-> p.valued]
  <2>1. /\ Len(p.op) \in Nat /\ DOMAIN p.op = 1..Len(p.op)
        /\ Len(p.block) \in Nat /\ DOMAIN p.block = 1..Len(p.block)
    BY CodeFacts
  <2> QED BY <2>1, <1>1 DEF HasBlocks
<1>4. /\ s \in Seq(Nat) /\ s # <<>> /\ Len(s) \in Nat /\ DOMAIN s = 1..Len(s) /\ IsInjective(s)
      /\ Range(s) \subseteq 1..n /\ z \in Range(s) /\ p.op[z].k = "end"
      /\ \A o \in Range(s) : p.op[o].k = "end" <=> o = z
      /\ \A j \in 1..Len(s) : s[j] \in Range(s)
  <2>1. LET w == p.block[b]
        IN /\ w \in Seq(Nat) /\ Len(w) \in Nat /\ DOMAIN w = 1..Len(w)
           /\ IsInjective(w)
           /\ Range(w) \subseteq DOMAIN p.op
           /\ \A i \in 1..Len(w) : w[i] \in Range(w) /\ IndexOf(p, w[i]) = i
           /\ \A o \in Range(w) : IndexOf(p, o) \in 1..Len(w) /\ w[IndexOf(p, o)] = o
           /\ \A o \in Range(w) : p.op[o].k = "end" <=> o = Last(w)
           /\ w # <<>> => Last(w) \in Range(w) /\ p.op[Last(w)].k = "end"
    BY BlockFacts
  <2> QED BY <2>1, <1>2, <1>3
<1>5. PICK f : f = Front(s)
  OBVIOUS
<1>6. /\ f \in Seq(Nat) /\ Len(s) >= 1 /\ DOMAIN f = 1..Len(s) - 1 /\ Len(f) = Len(s) - 1
      /\ \A j \in 1..Len(s) - 1 : j \in 1..Len(s) /\ j # Len(s) /\ f[j] = s[j]
      /\ z = s[Len(s)] /\ Len(s) \in 1..Len(s)
  <2>1. /\ f \in Seq(Nat) /\ Len(s) >= 1 /\ DOMAIN f = 1..Len(s) - 1 /\ Len(f) = Len(s) - 1
        /\ \A j \in 1..Len(s) - 1 : j \in 1..Len(s) /\ j # Len(s) /\ f[j] = s[j]
    BY <1>4, <1>5, FrontItems, Zenon
  <2>2. z = s[Len(s)]
    BY <1>2 DEF Last
  <2> QED BY <2>1, <2>2, <1>4, SMTT(60)
<1>7. /\ Range(f) \subseteq Range(s) /\ z \notin Range(f) /\ Range(s) = Range(f) \cup {z}
      /\ IsInjective(f)
  <2>1. Range(f) \subseteq Range(s)
    <3>1. \A j \in 1..Len(s) - 1 : f[j] \in Range(s)
      BY <1>4, <1>6
    <3>2. \A x \in Range(f) : \E j \in 1..Len(s) - 1 : f[j] = x
      BY <1>6 DEF Range
    <3> QED BY <3>1, <3>2, Zenon
  <2>2. z \notin Range(f)
    <3>1. \A j \in 1..Len(s) - 1 : f[j] # z
      BY <1>4, <1>6, ZenonT(60) DEF IsInjective
    <3> QED BY <3>1, <1>6 DEF Range
  <2>3. Range(s) = Range(f) \cup {z}
    <3>1. Range(Front(s)) \cup {Last(s)} = Range(s)
      BY <1>4, FrontFacts
    <3> QED BY <3>1, <1>2, <1>5
  <2>4. IsInjective(f)
    BY <1>4, <1>6 DEF IsInjective
  <2> QED BY <2>1, <2>2, <2>3, <2>4
\* The new operations and blocks.
<1>8. PICK g : g = Make("guard", <<N>>, v, FALSE)
  OBVIOUS
<1>9. IsNode(g) /\ IsNode(End) /\ g.k = "guard" /\ End.k = "end"
  BY <1>3, <1>8 DEF IsNode, End, Make, Kind, NoVar
<1>10. PICK ops : ops = <<g, End>>
  OBVIOUS
<1>11. /\ ops \in Seq(Range(ops)) /\ DOMAIN ops = {1, 2} /\ Len(ops) = 2
       /\ ops[1] = g /\ ops[2] = End
  BY <1>10 DEF Range
<1>12. PICK O : O = p.op \o ops
  OBVIOUS
<1>13. /\ O \in Seq(Range(O)) /\ DOMAIN O = 1..n + 2
       /\ \A o \in 1..n : o \in DOMAIN O /\ O[o] = p.op[o]
       /\ n + 1 \in DOMAIN O /\ O[n + 1] = g /\ n + 2 \in DOMAIN O /\ O[n + 2] = End
       /\ \A o \in DOMAIN O : o \in 1..n \/ o = n + 1 \/ o = n + 2
  <2>1. /\ O \in Seq(Range(O)) /\ DOMAIN O = 1..n + 2
        /\ \A o \in DOMAIN p.op : o \in DOMAIN O /\ O[o] = p.op[o]
        /\ \A j \in DOMAIN ops : n + j \in DOMAIN O /\ O[n + j] = ops[j]
    <3>1. LET r == p.op \o ops
          IN /\ r \in Seq(Range(r)) /\ DOMAIN r = 1..Len(p.op) + Len(ops)
             /\ \A o \in DOMAIN p.op : o \in DOMAIN r /\ r[o] = p.op[o]
             /\ \A j \in DOMAIN ops : Len(p.op) + j \in DOMAIN r /\ r[Len(p.op) + j] = ops[j]
             /\ \A o \in DOMAIN r : o \in DOMAIN p.op \/ o - Len(p.op) \in DOMAIN ops
      BY <1>11, AppendedOps
    <3> QED BY <3>1, <1>1, <1>11, <1>12
  <2>2. \A o \in 1..n + 2 : o \in 1..n \/ o = n + 1 \/ o = n + 2
    BY <1>3
  <2> QED BY <2>1, <2>2, <1>3, <1>11
<1>14. PICK t, u : t = <<n + 1, z>> /\ u = Append(f, n + 2)
  OBVIOUS
<1>15. PICK B : B = Append([p.block EXCEPT ![b] = t], u)
  OBVIOUS
<1>16. PICK q : q = GuardBlock(p, b, v)
  OBVIOUS
<1>17. q = [op |-> O, block |-> B, root |-> p.root, valued |-> p.valued]
  <2>1. PICK r : r = [p EXCEPT !.op = O, !.block[b] = t]
    OBVIOUS
  <2>2. r = [op |-> O, block |-> [p.block EXCEPT ![b] = t], root |-> p.root, valued |-> p.valued]
    <3>1. p = [op |-> p.op, block |-> p.block, root |-> p.root, valued |-> p.valued]
      BY <1>3
    <3> QED BY ONLY <3>1, <2>1, RecordEdit
  <2>3. q = AddBlock([p EXCEPT !.op = p.op \o <<g, End>>,
                               !.block[b] = <<n + 1, Last(p.block[b])>>], Append(f, n + 2))
    BY <1>1, <1>2, <1>5, <1>8, <1>16 DEF GuardBlock
  <2>4. q = AddBlock(r, u)
    BY <2>1, <2>3, <1>2, <1>10, <1>12, <1>14
  <2>5. AddBlock(r, u) = [r EXCEPT !.block = Append(r.block, u)]
    BY DEF AddBlock
  <2>6. r.block = [p.block EXCEPT ![b] = t]
    BY <2>2
  <2>7. \A x : [r EXCEPT !.block = x]
                 = [op |-> O, block |-> x, root |-> p.root, valued |-> p.valued]
    <3>1. SUFFICES ASSUME NEW x
                   PROVE  [r EXCEPT !.block = x]
                            = [op |-> O, block |-> x, root |-> p.root, valued |-> p.valued]
      OBVIOUS
    <3>2. PICK e : e = [r EXCEPT !.block = x]
      OBVIOUS
    <3>3. /\ e.op = O /\ e.block = x /\ e.root = p.root /\ e.valued = p.valued
          /\ DOMAIN e = {"op", "block", "root", "valued"}
          /\ e = [y \in {"op", "block", "root", "valued"} |-> e[y]]
      BY <3>2, <2>2
    <3>4. e = [op |-> O, block |-> x, root |-> p.root, valued |-> p.valued]
      BY <3>3
    <3> QED BY <3>2, <3>4
  <2> QED BY <2>4, <2>5, <2>6, <2>7, <1>15
<1>18. /\ q.op = O /\ q.block = B /\ q.root = p.root
       /\ q = [op |-> q.op, block |-> q.block, root |-> q.root, valued |-> q.valued]
  BY <1>17
<1>19. /\ DOMAIN B = 1..N /\ B \in Seq(Range(B))
       /\ B[N] = u /\ B[b] = t
       /\ \A c \in DOMAIN p.block : c \in DOMAIN B /\ (c # b => B[c] = p.block[c])
       /\ DOMAIN B = DOMAIN p.block \cup {N}
  <2>1. PICK C : C = [p.block EXCEPT ![b] = t]
    OBVIOUS
  <2>2. C \in Seq(Range(p.block) \cup {t}) /\ DOMAIN C = DOMAIN p.block
    BY <2>1, <1>3
  <2>3. Len(C) = Len(p.block) /\ B = Append(C, u)
    BY <2>1, <2>2, <1>3, <1>15
  <2>4. /\ B \in Seq(Range(p.block) \cup {t, u}) /\ DOMAIN B = 1..Len(C) + 1
        /\ B[Len(C) + 1] = u /\ \A c \in 1..Len(C) : B[c] = C[c]
    <3>1. C \in Seq(Range(p.block) \cup {t, u})
      BY <2>2, SeqWiden
    <3> QED BY <3>1, <2>3
  <2>5. B \in Seq(Range(B))
    BY <2>4 DEF Range
  <2>6. \A c \in DOMAIN p.block : c # b => C[c] = p.block[c]
    BY <2>1
  <2>7. C[b] = t
    BY <2>1, <1>3
  <2>8. /\ \A c \in 1..Len(p.block) : c \in 1..Len(p.block) + 1
        /\ 1..Len(p.block) + 1 = (1..Len(p.block)) \cup {Len(p.block) + 1}
    BY <1>3
  <2> QED BY <2>3, <2>4, <2>5, <2>6, <2>7, <2>8, <1>1, <1>3
<1>20. /\ Range(t) = {n + 1, z} /\ t \in Seq({n + 1, z}) /\ DOMAIN t = {1, 2} /\ Len(t) = 2
       /\ t[1] = n + 1 /\ t[2] = z
  BY <1>14 DEF Range
<1>21. /\ Range(u) = Range(f) \cup {n + 2} /\ Len(u) = Len(f) + 1 /\ DOMAIN u = 1..Len(f) + 1
       /\ u \in Seq(Nat) /\ u[Len(f) + 1] = n + 2 /\ \A j \in 1..Len(f) : u[j] = f[j]
       /\ \A j \in 1..Len(f) + 1 : j \in 1..Len(f) \/ j = Len(f) + 1
       /\ Len(f) + 1 \notin 1..Len(f)
  <2>1. n + 2 \in Nat /\ Len(f) \in Nat
    BY <1>3, <1>6
  <2>2. /\ Range(u) = Range(f) \cup {n + 2} /\ Len(u) = Len(f) + 1 /\ DOMAIN u = 1..Len(f) + 1
        /\ u \in Seq(Nat)
    <3>1. PICK x : x = n + 2
      OBVIOUS
    <3>2. x \in Nat /\ f \in Seq(Nat)
      BY <3>1, <2>1, <1>6
    <3>3. /\ Append(f, x) \in Seq(Nat) /\ Range(Append(f, x)) = Range(f) \cup {x}
          /\ Len(Append(f, x)) = Len(f) + 1 /\ DOMAIN Append(f, x) = 1..Len(f) + 1
      BY <3>2, AppendFacts
    <3> QED BY <3>1, <3>3, <1>14
  <2>3. u[Len(f) + 1] = n + 2 /\ \A j \in 1..Len(f) : u[j] = f[j]
    <3>1. f \in Seq(Nat)
      BY ONLY <1>6, Zenon
    <3>2. PICK x \in Nat : x = n + 2
      BY ONLY <2>1, Zenon
    <3>3. Append(f, x)[Len(f) + 1] = x /\ \A j \in 1..Len(f) : Append(f, x)[j] = f[j]
      BY ONLY <3>1, x \in Nat, SMT
    <3> QED BY ONLY <3>2, <3>3, <1>14, Zenon
  <2> QED BY <2>1, <2>2, <2>3
<1>22. /\ n + 1 \notin 1..n /\ n + 2 \notin 1..n /\ n + 1 # n + 2
  BY <1>3
\* They are blocks.
<1>23. ASSUME NEW c \in DOMAIN B PROVE IsBlock(q, B[c])
  <2>1. CASE c \in DOMAIN p.block /\ c # b
    <3>1. IsBlock(p, p.block[c]) /\ B[c] = p.block[c]
      BY <2>1, <1>19 DEF HasBlocks
    <3>2. \A i \in DOMAIN p.block[c] : p.block[c][i] \in 1..n
      BY <3>1, <1>3 DEF IsBlock
    <3>3. p.block[c] \in Seq(DOMAIN q.op)
      <4>1. 1..n \subseteq DOMAIN q.op
        BY <1>13, <1>18
      <4> QED BY <4>1, <3>1, <1>3, SeqWiden DEF IsBlock
    <3>4. PICK x : x = p.block[c]
      OBVIOUS
    <3>5. \A i \in DOMAIN x : q.op[x[i]] = p.op[x[i]]
      BY ONLY <3>2, <3>4, <1>13, <1>18, Zenon
    <3>6. /\ x \in Seq(DOMAIN q.op) /\ IsInjective(x)
          /\ \A i \in DOMAIN x : p.op[x[i]].k = "end" <=> i = Len(x)
      BY ONLY <3>1, <3>3, <3>4, Zenon DEF IsBlock
    <3>7. IsBlock(q, x)
      BY ONLY <3>5, <3>6, Zenon DEF IsBlock
    <3> QED BY ONLY <3>1, <3>4, <3>7, Zenon
  <2>2. CASE c = b
    <3>1. {n + 1, z} \subseteq DOMAIN q.op /\ n + 1 # z
      BY <1>4, <1>13, <1>18, <1>22
    <3>2. t \in Seq(DOMAIN q.op)
      BY <3>1, <1>20, SeqWiden
    <3>3. IsInjective(t)
      BY <3>1, <1>20 DEF IsInjective
    <3>4. q.op[n + 1].k = "guard" /\ q.op[z].k = "end"
      BY <1>4, <1>9, <1>13, <1>18
    <3>5. \A i \in DOMAIN t : q.op[t[i]].k = "end" <=> i = Len(t)
      BY <3>4, <1>20
    <3> QED BY <3>2, <3>3, <3>5, <2>2, <1>19 DEF IsBlock
  <2>3. CASE c = N
    <3>1. \A x \in Range(u) : x \in DOMAIN q.op
      BY <1>4, <1>7, <1>13, <1>18, <1>21
    <3>2. u \in Seq(DOMAIN q.op)
      <4>1. u \in Seq(Range(u))
        BY ONLY <1>21, SMTT(60) DEF Range
      <4> QED BY <4>1, <3>1, SeqWiden
    <3>3. \A i \in 1..Len(f) : u[i] \in Range(f)
      BY <1>6, <1>21 DEF Range
    <3>4. \A i \in 1..Len(f) : u[i] \in 1..n /\ q.op[u[i]].k # "end"
      <4>1. \A x \in Range(f) : x \in 1..n /\ x # z /\ p.op[x].k # "end"
        BY <1>4, <1>7
      <4>2. \A x \in 1..n : q.op[x] = p.op[x]
        BY <1>13, <1>18
      <4> QED BY <4>1, <4>2, <3>3
    <3>5. IsInjective(u)
      <4>1. \A i, j \in 1..Len(f) : u[i] = u[j] => i = j
        BY <1>6, <1>7, <1>21, ZenonT(60) DEF IsInjective
      <4> QED BY <4>1, <3>4, <1>21, <1>22 DEF IsInjective
    <3>6. \A i \in DOMAIN u : q.op[u[i]].k = "end" <=> i = Len(u)
      BY <3>4, <1>9, <1>13, <1>18, <1>21
    <3> QED BY <3>2, <3>5, <3>6, <2>3, <1>19 DEF IsBlock
  <2> QED BY <2>1, <2>2, <2>3, <1>19
<1>24. ASSUME NEW c \in DOMAIN B, NEW d \in DOMAIN B, c # d
       PROVE  Range(B[c]) \cap Range(B[d]) = {}
  <2>1. \A x \in DOMAIN p.block : Range(p.block[x]) \subseteq 1..n
    BY <1>3, BlockFacts
  <2>2. \A x \in DOMAIN p.block : x # b => Range(p.block[x]) \cap Range(s) = {}
    BY <1>2 DEF HasBlocks
  <2>3. \A x \in DOMAIN p.block : x # b =>
          /\ Range(B[x]) = Range(p.block[x])
          /\ Range(B[x]) \cap Range(t) = {} /\ Range(B[x]) \cap Range(u) = {}
    <3>1. SUFFICES ASSUME NEW x \in DOMAIN p.block, x # b
                   PROVE  /\ Range(B[x]) = Range(p.block[x])
                          /\ Range(B[x]) \cap Range(t) = {} /\ Range(B[x]) \cap Range(u) = {}
      OBVIOUS
    <3>2. Range(B[x]) = Range(p.block[x])
      BY ONLY <3>1, <1>19, Zenon
    <3>3. PICK R, S : R = Range(p.block[x]) /\ S = Range(s)
      OBVIOUS
    <3>4. R \subseteq 1..n /\ R \cap S = {} /\ z \in S /\ Range(f) \subseteq S
      BY ONLY <3>1, <3>3, <2>1, <2>2, <1>4, <1>7, Zenon
    <3>5. R \cap Range(t) = {}
      BY ONLY <3>4, <1>20, <1>22, Zenon
    <3>6. R \cap Range(u) = {}
      BY ONLY <3>4, <1>21, <1>22, Zenon
    <3> QED BY ONLY <3>2, <3>3, <3>5, <3>6, Zenon
  <2>4. Range(t) \cap Range(u) = {}
    BY <1>4, <1>7, <1>20, <1>21, <1>22
  <2>5. CASE c \in (DOMAIN p.block) \ {b} /\ d \in (DOMAIN p.block) \ {b}
    BY <2>3, <2>5, <1>24 DEF HasBlocks
  <2>6. CASE ~(c \in (DOMAIN p.block) \ {b} /\ d \in (DOMAIN p.block) \ {b})
    BY <2>3, <2>4, <2>6, <1>19, <1>24
  <2> QED BY <2>5, <2>6
<1>25. \A o \in DOMAIN q.op : IsNode(q.op[o])
  <2>1. \A o \in 1..n : IsNode(p.op[o])
    BY <1>3 DEF HasBlocks
  <2> QED BY <2>1, <1>9, <1>13, <1>18
<1>26. HasBlocks(q)
  <2>1. q.root \in DOMAIN q.block
    BY <1>18, <1>19 DEF HasBlocks
  <2> QED BY <2>1, <1>13, <1>18, <1>19, <1>23, <1>24, <1>25 DEF HasBlocks
<1>27. OpsIn(q) = OpsIn(p) \cup {n + 1, n + 2}
  <2>1. \A x \in OpsIn(q) : x \in OpsIn(p) \cup {n + 1, n + 2}
    <3> SUFFICES ASSUME NEW c \in DOMAIN B, NEW x \in Range(B[c])
                 PROVE  x \in OpsIn(p) \cup {n + 1, n + 2}
      BY <1>18 DEF OpsIn
    <3>1. Range(s) \subseteq OpsIn(p) /\ \A y \in DOMAIN p.block : Range(p.block[y]) \subseteq OpsIn(p)
      BY <1>2 DEF OpsIn
    <3> QED BY <3>1, <1>4, <1>7, <1>19, <1>20, <1>21
  <2>2. n + 1 \in OpsIn(q) /\ n + 2 \in OpsIn(q)
    <3>1. n + 1 \in Range(q.block[b]) /\ n + 2 \in Range(q.block[N])
      BY <1>18, <1>19, <1>20, <1>21
    <3>2. b \in DOMAIN q.block /\ N \in DOMAIN q.block
      BY <1>18, <1>19
    <3> QED BY <3>1, <3>2 DEF OpsIn
  <2>3. ASSUME NEW c \in DOMAIN p.block, NEW x \in Range(p.block[c])
        PROVE  x \in OpsIn(q)
    <3>1. CASE c # b
      BY <3>1, <2>3, <1>18, <1>19 DEF OpsIn
    <3>2. CASE c = b
      <4>1. x \in Range(f) \cup {z}
        BY <3>2, <2>3, <1>2, <1>7
      <4>2. x \in Range(B[b]) \/ x \in Range(B[N])
        BY <4>1, <1>19, <1>20, <1>21
      <4> QED BY <4>2, <1>18, <1>19 DEF OpsIn
    <3> QED BY <3>1, <3>2
  <2>4. \A x \in OpsIn(p) : x \in OpsIn(q)
    BY <2>3 DEF OpsIn
  <2> QED BY <2>1, <2>2, <2>4
<1>28. IsGuarding(p, b, v, q)
  BY <1>1, <1>2, <1>3, <1>5, <1>8, <1>13, <1>14, <1>18, <1>19, <1>20, <1>21, <1>22, <1>26, <1>27, Zenon
     DEF IsGuarding
<1> QED BY <1>16, <1>28

\* What b holds moves into the block that b holds now: there is still no cycle.
LEMMA GuardBlockGrounded ==
  ASSUME NEW p, NEW U, NEW b \in (DOMAIN p.block) \ U, p.block[b] # <<>>, NEW v, NEW q,
         IsGuarding(p, b, v, q), HasBlocks(p), HasRegions(p), Grounded(p, U)
  PROVE  Grounded(q, U)
<1>1. PICK n, N : n = Len(p.op) /\ N = Len(p.block) + 1
  OBVIOUS
<1>2. /\ HasBlocks(q) /\ q.root = p.root
      /\ DOMAIN q.block = DOMAIN p.block \cup {N} /\ N \notin DOMAIN p.block
      /\ \A o \in DOMAIN p.op : o \in DOMAIN q.op /\ q.op[o] = p.op[o]
      /\ n + 1 \notin DOMAIN p.op /\ q.op[n + 1] = Make("guard", <<N>>, v, FALSE)
      /\ n + 2 \notin DOMAIN p.op /\ q.op[n + 2] = End
      /\ \A c \in DOMAIN p.block : c # b => q.block[c] = p.block[c]
      /\ Range(q.block[b]) = {n + 1, Last(p.block[b])}
      /\ Range(q.block[N]) = Range(Front(p.block[b])) \cup {n + 2}
      /\ OpsIn(q) = OpsIn(p) \cup {n + 1, n + 2}
  BY <1>1 DEF IsGuarding
<1>3. OpsIn(p) \subseteq DOMAIN p.op
  BY CodeFacts
<1>4. Regions(q, n + 1) = {N} /\ Regions(q, n + 2) = {}
  BY <1>2 DEF Regions, Make, End, Range
<1>5. \A o \in OpsIn(p) : Regions(q, o) = Regions(p, o) /\ N \notin Regions(q, o)
  BY <1>2, <1>3 DEF Regions, HasRegions
<1>6. Range(p.block[b]) = Range(Front(p.block[b])) \cup {Last(p.block[b])}
  <2>1. PICK s : s = p.block[b]
    OBVIOUS
  <2>2. s \in Seq(Nat) /\ s # <<>>
    <3>1. LET w == p.block[b] IN w \in Seq(Nat)
      BY BlockFacts
    <3> QED BY <3>1, <2>1
  <2>3. Range(s) = Range(Front(s)) \cup {Last(s)}
    BY <2>2, FrontFacts
  <2> QED BY <2>1, <2>3
<1>7. ASSUME NEW c \in DOMAIN q.block, NEW o \in Range(q.block[c]), NEW d \in Regions(q, o),
             d \in DOMAIN p.block
      PROVE  \/ c \in DOMAIN p.block /\ \E x \in Range(p.block[c]) : d \in Regions(p, x)
             \/ c = N /\ \E x \in Range(p.block[b]) : d \in Regions(p, x)
  <2>1. o # n + 1 /\ o # n + 2
    BY <1>7, <1>2, <1>4
  <2>2. o \in OpsIn(q)
    BY DEF OpsIn
  <2>3. o \in OpsIn(p) /\ d \in Regions(p, o)
    BY <2>1, <2>2, <1>2, <1>5
  <2>4. CASE c = b
    <3>1. o \in Range(p.block[b])
      BY <2>1, <2>4, <1>2, <1>6
    <3> QED BY <3>1, <2>3, <2>4
  <2>5. CASE c = N
    <3>1. o \in Range(p.block[b])
      BY <2>1, <2>5, <1>2, <1>6
    <3> QED BY <3>1, <2>3, <2>5
  <2>6. CASE c # b /\ c # N
    <3>1. c \in DOMAIN p.block /\ o \in Range(p.block[c])
      BY <2>6, <1>2
    <3> QED BY <3>1, <2>3
  <2> QED BY <2>4, <2>5, <2>6
<1>8. ASSUME NEW c \in DOMAIN q.block, NEW o \in Range(q.block[c]), N \in Regions(q, o)
      PROVE  c = b
  <2>1. o \in OpsIn(q)
    BY DEF OpsIn
  <2>2. o = n + 1
    BY <2>1, <1>2, <1>4, <1>5, <1>8
  <2>3. o \in Range(q.block[b]) /\ b \in DOMAIN q.block
    BY <2>2, <1>2
  <2> QED BY <2>3, <1>2 DEF HasBlocks
<1> SUFFICES ASSUME NEW S \in SUBSET ((DOMAIN q.block) \ U), S # {}
             PROVE  \E d \in S : \A c \in S : \A o \in Range(q.block[c]) : d \notin Regions(q, o)
  BY DEF Grounded
<1>9. CASE N \notin S
  <2>1. S \in SUBSET ((DOMAIN p.block) \ U)
    BY <1>2, <1>9
  <2>2. PICK d \in S : \A c \in S : \A o \in Range(p.block[c]) : d \notin Regions(p, o)
    BY <2>1 DEF Grounded
  <2>3. \A c \in S : \A o \in Range(q.block[c]) : d \notin Regions(q, o)
    BY <2>1, <2>2, <1>7, <1>9
  <2> QED BY <2>3
<1>10. CASE N \in S
  <2>1. PICK T : T = (S \ {N}) \cup {b}
    OBVIOUS
  <2>2. T \in SUBSET ((DOMAIN p.block) \ U) /\ T # {}
    BY <2>1, <1>2
  <2>3. PICK d \in T : \A c \in T : \A o \in Range(p.block[c]) : d \notin Regions(p, o)
    BY <2>2 DEF Grounded
  <2>4. CASE d \in S
    <3>1. d \in DOMAIN p.block /\ b \in T
      BY <2>1, <2>2, <2>3
    <3>2. \A c \in S : \A o \in Range(q.block[c]) : d \notin Regions(q, o)
      <4> SUFFICES ASSUME NEW c \in S, NEW o \in Range(q.block[c]), d \in Regions(q, o)
                   PROVE  FALSE
        OBVIOUS
      <4>1. \/ c \in DOMAIN p.block /\ \E x \in Range(p.block[c]) : d \in Regions(p, x)
            \/ c = N /\ \E x \in Range(p.block[b]) : d \in Regions(p, x)
        BY <3>1, <1>7
      <4>2. c \in DOMAIN p.block => c \in T
        BY <2>1, <1>2
      <4> QED BY <4>1, <4>2, <3>1, <2>3
    <3> QED BY <3>2, <2>4
  <2>5. CASE d \notin S
    <3>1. b \notin S
      BY <2>1, <2>3, <2>5
    <3>2. \A c \in S : \A o \in Range(q.block[c]) : N \notin Regions(q, o)
      BY <3>1, <1>8
    <3> QED BY <3>2, <1>10
  <2> QED BY <2>4, <2>5
<1> QED BY <1>9, <1>10

\* The block b is guarded once it has been visited.
LEMMA GuardBlockStep ==
  ASSUME NEW p, NEW U, NEW fs, NEW X, Inv(p, U, fs, X),
         NEW b \in (DOMAIN p.block) \ (U \cup Opening(fs)), p.block[b] # <<>>, NEW v \in Nat,
         NEW q, q = GuardBlock(p, b, v)
  PROVE  /\ Inv(q, U, fs, X)
         /\ \A o \in DOMAIN p.op : o \in DOMAIN q.op /\ q.op[o] = p.op[o]
<1>1. PICK n, N : n = Len(p.op) /\ N = Len(p.block) + 1
  OBVIOUS
<1>2. /\ HasBlocks(p) /\ HasRegions(p) /\ OpsIn(p) \subseteq DOMAIN p.op
      /\ U \subseteq (DOMAIN p.block) \ {p.root} /\ Grounded(p, U)
  <2>1. Grounded(p, U)
    BY DEF Inv
  <2> QED BY <2>1, InvFacts
<1>3. IsGuarding(p, b, v, q)
  BY <1>2, GuardBlockFacts
<1>4. /\ HasBlocks(q) /\ q.root = p.root
      /\ DOMAIN q.block = DOMAIN p.block \cup {N} /\ N \notin DOMAIN p.block
      /\ \A o \in DOMAIN p.op : o \in DOMAIN q.op /\ q.op[o] = p.op[o]
      /\ n + 1 \notin DOMAIN p.op /\ q.op[n + 1] = Make("guard", <<N>>, v, FALSE)
      /\ n + 2 \notin DOMAIN p.op /\ q.op[n + 2] = End
      /\ \A c \in DOMAIN p.block : c # b => q.block[c] = p.block[c]
      /\ q.block[b] = <<n + 1, Last(p.block[b])>>
      /\ OpsIn(q) = OpsIn(p) \cup {n + 1, n + 2}
  BY <1>1, <1>3 DEF IsGuarding
<1>5. Grounded(q, U)
  BY <1>2, <1>3, GuardBlockGrounded
<1>6. /\ q.op[n + 1].regions = <<N>> /\ q.op[n + 1].k = "guard"
      /\ q.op[n + 2].regions = <<>> /\ q.op[n + 2].k = "end"
  BY <1>4 DEF Make, End
<1>7. HasRegions(q)
  <2>1. \A o \in OpsIn(q) \ OpsIn(p) :
          \/ q.op[o].regions = <<>>
          \/ /\ o = n + 1
             /\ \E M \in (DOMAIN q.block) \ DOMAIN p.block : q.op[o].regions = <<M>>
    <3> SUFFICES ASSUME NEW o \in OpsIn(q) \ OpsIn(p)
                 PROVE  \/ q.op[o].regions = <<>>
                        \/ /\ o = n + 1
                           /\ \E M \in (DOMAIN q.block) \ DOMAIN p.block : q.op[o].regions = <<M>>
      OBVIOUS
    <3>1. o = n + 1 \/ o = n + 2
      BY <1>4
    <3>2. q.op[n + 1].regions = <<N>> /\ N \in (DOMAIN q.block) \ DOMAIN p.block
      BY <1>4, <1>6
    <3>3. q.op[n + 2].regions = <<>>
      BY <1>6
    <3> QED BY <3>1, <3>2, <3>3
  <2>2. \A o \in OpsIn(q) \cap OpsIn(p) : q.op[o].regions = p.op[o].regions
    BY <1>2, <1>4
  <2>3. DOMAIN p.block \subseteq DOMAIN q.block /\ q.root = p.root
    BY <1>4
  <2>4. HasBlocks(p) /\ HasRegions(p)
    BY <1>2
  <2> QED BY ONLY <2>1, <2>2, <2>3, <2>4, RegionsKept, SMT
<1>8. Edited(p, q, U, fs, X, X)
  <2>1. IsCode(q)
    BY <1>4, <1>7, CodeParts
  <2>2. \A o \in DOMAIN p.op : SameNode(p.op[o], q.op[o])
    BY <1>4 DEF SameNode
  <2>3. \A c \in U : Range(q.block[c]) = Range(p.block[c])
    BY <1>2, <1>4
  <2>4. \A o \in OpsIn(q) \ OpsIn(p) : ~IsSoft(q, o)
    BY <1>4, <1>6 DEF IsSoft
  <2>5. OpsIn(p) \subseteq OpsIn(q)
    BY <1>4
  <2>6. q.block[b] # <<>> /\ Last(q.block[b]) = Last(p.block[b])
    BY <1>4 DEF Last
  <2>7. \A c \in (DOMAIN p.block) \ (U \cup Opening(fs)) :
          p.block[c] # <<>> => q.block[c] # <<>> /\ Last(q.block[c]) = Last(p.block[c])
    BY <2>6, <1>4
  <2>8. \A m \in DOMAIN fs : EndsIn(q.block[fs[m].b], Rem(p, fs[m]))
    <3> SUFFICES ASSUME NEW m \in DOMAIN fs PROVE EndsIn(q.block[fs[m].b], Rem(p, fs[m]))
      OBVIOUS
    <3>1. fs[m].b \in DOMAIN p.block /\ EndsIn(p.block[fs[m].b], Rem(p, fs[m]))
      BY InvFacts
    <3>2. fs[m].b # b
      BY DEF Opening
    <3> QED BY <3>1, <3>2, <1>4
  <2> QED BY <2>1, <2>2, <2>3, <2>4, <2>5, <2>7, <2>8, <1>4, <1>5 DEF Edited
<1>9. Inv(q, U, fs, X)
  BY <1>8, EditStep
<1> QED BY <1>4, <1>9

\* No call has a guard of the visitor's left to visit.
AllSource(p, fs) ==
  \A n \in DOMAIN fs : \A i \in DOMAIN fs[n].todo : IsSourceNode(p.op[fs[n].todo[i]])

\* When a region ends, the calls left have only code of the source to visit.
LEMMA BetweenSource ==
  ASSUME NEW p, NEW U, NEW G, Between(p, U, G)
  PROVE  AllSource(p, G)
<1>1. \A n \in DOMAIN G : \A i \in DOMAIN G[n].todo :
        IsSourceNode(p.op[G[n].todo[i]]) \/ n = Len(G)
  BY DEF Between, InvSource
<1>2. \A i \in DOMAIN G[Len(G)].todo : IsSourceNode(p.op[G[Len(G)].todo[i]])
  BY SMTT(60) DEF Between
<1> QED BY <1>1, <1>2 DEF AllSource

\* The code the visitor has yet to see is not concerned when an operation
\* changes its variable.
LEMMA SourceKept ==
  ASSUME NEW p, NEW U, NEW fs, NEW X, Inv(p, U, fs, X), AllSource(p, fs), NEW q,
         \A o \in DOMAIN p.op : o \in DOMAIN q.op /\ SameNode(p.op[o], q.op[o])
  PROVE  AllSource(q, fs)
<1> SUFFICES ASSUME NEW n \in DOMAIN fs, NEW i \in DOMAIN fs[n].todo
             PROVE  IsSourceNode(q.op[fs[n].todo[i]])
  BY DEF AllSource
<1>1. PICK o : o = fs[n].todo[i]
  OBVIOUS
<1>2. o \in Range(fs[n].todo)
  BY <1>1 DEF Range
<1>3. /\ Range(fs[n].todo) \subseteq Todo(fs) /\ Pending(p, U, fs, X) \subseteq OpsIn(p)
      /\ OpsIn(p) \subseteq DOMAIN p.op
  BY InvFacts
<1>4. o \in DOMAIN p.op
  BY <1>2, <1>3 DEF Pending
<1>5. SameNode(p.op[o], q.op[o]) /\ IsSourceNode(p.op[o])
  BY <1>1, <1>4 DEF AllSource
<1> QED BY <1>1, <1>5 DEF SameNode, IsSourceNode

\* Merging two guards erases the assignments to one: they are not source code.
LEMMA MergedStep ==
  ASSUME NEW p, NEW U, NEW fs, Inv(p, U, fs, {}), AllSource(p, fs), NEW v, NEW w \in Nat,
         NEW q, q = Merged(p, v, w)
  PROVE  Inv(q, U, fs, {}) /\ DOMAIN q.op = DOMAIN p.op
<1>1. PICK dead : dead = {a \in OpsIn(p) : p.op[a].k = "assign" /\ p.op[a].var = v}
  OBVIOUS
<1>2. PICK e : e = Erase(p, dead)
  OBVIOUS
<1>3. Inv(e, U, fs, {}) /\ e.op = p.op
  <2>1. dead \cap Pending(p, U, fs, {}) = {}
    <3> SUFFICES ASSUME NEW o \in Pending(p, U, fs, {}) PROVE p.op[o].k # "assign"
      BY <1>1
    <3>1. CASE o \in Todo(fs)
      <4>1. PICK n \in DOMAIN fs : o \in Range(fs[n].todo)
        BY <3>1 DEF Todo
      <4>2. PICK i \in DOMAIN fs[n].todo : o = fs[n].todo[i]
        BY <4>1 DEF Range
      <4>3. IsSourceNode(p.op[o])
        BY <4>2 DEF AllSource
      <4> QED BY <4>3 DEF IsSourceNode
    <3>2. CASE \E c \in U : o \in Range(p.block[c])
      <4>1. IsSourceNode(p.op[o])
        BY <3>2 DEF Inv, InvSource
      <4> QED BY <4>1 DEF IsSourceNode
    <3> QED BY <3>1, <3>2 DEF Pending
  <2>2. \A n \in 1..Len(fs) - 1 : fs[n].op \notin dead
    BY <1>1 DEF Inv, InvActive, AreActive
  <2>3. \A o \in OpsIn(p) \cap dead : p.op[o].k # "end"
    BY <1>1
  <2>4. PICK Y : Y = {}
    OBVIOUS
  <2>5. /\ Inv(p, U, fs, Y) /\ Y \in SUBSET Y /\ dead \cap Pending(p, U, fs, Y) = {}
        /\ Y \ Y \subseteq dead /\ \A o \in Y \ Y : Regions(p, o) = {}
    BY <2>1, <2>4
  <2>6. Inv(Erase(p, dead), U, fs, Y) /\ Erase(p, dead).op = p.op
    BY <2>2, <2>3, <2>5, EraseStep
  <2> QED BY <2>4, <2>6, <1>2
<1>4. PICK O : O = [a \in DOMAIN p.op |-> IF p.op[a].var = v THEN [p.op[a] EXCEPT !.var = w]
                                          ELSE p.op[a]]
  OBVIOUS
<1>5. HasBlocks(p)
  BY InvFacts
<1>6. DOMAIN O = DOMAIN p.op /\ O \in Seq(Range(O))
  <2>1. Len(p.op) \in Nat /\ DOMAIN p.op = 1..Len(p.op)
    BY <1>5, CodeFacts
  <2>2. DOMAIN O = 1..Len(p.op) /\ O = [a \in 1..Len(p.op) |-> O[a]]
    BY <2>1, <1>4
  <2>3. \A a \in 1..Len(p.op) : O[a] \in Range(O)
    BY <2>2 DEF Range
  <2>4. O \in Seq(Range(O))
    BY <2>1, <2>2, <2>3
  <2> QED BY <2>1, <2>2, <2>4
<1>7. ASSUME NEW o \in DOMAIN O PROVE IsNode(O[o]) /\ SameNode(p.op[o], O[o])
  <2>1. PICK m : m = p.op[o]
    OBVIOUS
  <2>2. IsNode(m)
    BY <2>1, <1>5, <1>6 DEF HasBlocks
  <2>3. CASE m.var = v
    <3>1. O[o] = [m EXCEPT !.var = w]
      BY <2>1, <2>3, <1>4, <1>6
    <3>2. m = [k |-> m.k, regions |-> m.regions, var |-> m.var, val |-> m.val]
      BY <2>2 DEF IsNode, Make
    <3>3. O[o] = [k |-> m.k, regions |-> m.regions, var |-> w, val |-> m.val]
      BY <3>1, <3>2
    <3> QED BY <3>3, <2>1, <2>2 DEF IsNode, Make, SameNode
  <2>4. CASE m.var # v
    <3>1. O[o] = m
      BY <2>1, <2>4, <1>4, <1>6
    <3> QED BY <3>1, <2>1, <2>2 DEF SameNode
  <2> QED BY <2>3, <2>4
<1>8. q = [e EXCEPT !.op = O]
  <2>1. q = [e EXCEPT !.op = [a \in DOMAIN e.op |->
                IF e.op[a].var = v THEN [e.op[a] EXCEPT !.var = w] ELSE e.op[a]]]
    BY <1>1, <1>2 DEF Merged
  <2> QED BY ONLY <2>1, <1>3, <1>4, Zenon
<1>9. Inv(q, U, fs, {})
  <2>1. Inv([e EXCEPT !.op = O], U, fs, {})
    BY <1>3, <1>6, <1>7, NodesStep
  <2> QED BY <2>1, <1>8
<1>10. q.op = O
  <2>1. HasBlocks(e)
    BY <1>3, InvFacts
  <2>2. e = [op |-> e.op, block |-> e.block, root |-> e.root, valued |-> e.valued]
    BY <2>1 DEF HasBlocks
  <2> QED BY <2>2, <1>8
<1> QED BY <1>6, <1>9, <1>10

\* The loop that o is tests v.
LEMMA WithBreakGuardStep ==
  ASSUME NEW p, NEW U, NEW fs, Inv(p, U, fs, {}), NEW o \in OpsIn(p), NEW v \in Nat,
         NEW b, b = p.op[o].regions[1],
         b \in (DOMAIN p.block) \ (U \cup Opening(fs)), p.block[b] # <<>>,
         NEW q, q = WithBreakGuard(p, o, v)
  PROVE  /\ Inv(q, U, fs, {})
         /\ \A a \in DOMAIN p.op : a \in DOMAIN q.op /\ SameNode(p.op[a], q.op[a])
<1>1. HasBlocks(p) /\ o \in DOMAIN p.op
  BY InvFacts
<1>2. CASE v = NoVar
  BY <1>2 DEF WithBreakGuard, SameNode
<1>3. CASE v # NoVar /\ p.op[o].k = "for"
  <2>1. PICK m : m = p.op[o]
    OBVIOUS
  <2>2. PICK O : O = [p.op EXCEPT ![o] = [m EXCEPT !.var = v]]
    OBVIOUS
  <2>3. IsNode(m)
    BY <2>1, <1>1 DEF HasBlocks
  <2>4. [m EXCEPT !.var = v] = [k |-> m.k, regions |-> m.regions, var |-> v, val |-> m.val]
    <3>1. m = [k |-> m.k, regions |-> m.regions, var |-> m.var, val |-> m.val]
      BY <2>3 DEF IsNode, Make
    <3> QED BY <3>1
  <2>5. DOMAIN O = DOMAIN p.op /\ O[o] = [m EXCEPT !.var = v] /\ \A a \in DOMAIN O : a # o => O[a] = p.op[a]
    BY <2>2, <1>1
  <2>6. O \in Seq(Range(O))
    <3>1. Len(p.op) \in Nat /\ DOMAIN p.op = 1..Len(p.op)
      BY <1>1, CodeFacts
    <3>2. O = [a \in 1..Len(p.op) |-> O[a]]
      BY <3>1, <2>2, <2>5
    <3> QED BY <3>1, <3>2 DEF Range
  <2>7. ASSUME NEW a \in DOMAIN O PROVE IsNode(O[a]) /\ SameNode(p.op[a], O[a])
    <3>1. CASE a = o
      BY <3>1, <2>1, <2>3, <2>4, <2>5 DEF IsNode, Make, SameNode
    <3>2. CASE a # o
      BY <3>2, <2>5, <1>1 DEF HasBlocks, SameNode
    <3> QED BY <3>1, <3>2
  <2>8. q = [p EXCEPT !.op = O]
    <3>1. q = [p EXCEPT !.op[o].var = v]
      BY <1>3 DEF WithBreakGuard
    <3>2. [p EXCEPT !.op[o].var = v] = [p EXCEPT !.op = [p.op EXCEPT ![o] = [p.op[o] EXCEPT !.var = v]]]
      OBVIOUS
    <3> QED BY <3>1, <3>2, <2>1, <2>2
  <2>9. Inv(q, U, fs, {})
    BY <2>5, <2>6, <2>7, <2>8, NodesStep
  <2>10. q.op = O
    <3>1. p = [op |-> p.op, block |-> p.block, root |-> p.root, valued |-> p.valued]
      BY <1>1 DEF HasBlocks
    <3> QED BY <3>1, <2>8
  <2> QED BY <2>5, <2>7, <2>9, <2>10
<1>4. CASE v # NoVar /\ p.op[o].k # "for"
  <2>1. q = GuardBlock(p, b, v)
    BY <1>4 DEF WithBreakGuard
  <2>2. /\ Inv(q, U, fs, {})
        /\ \A a \in DOMAIN p.op : a \in DOMAIN q.op /\ q.op[a] = p.op[a]
    BY <2>1, GuardBlockStep, SMTT(60)
  <2> QED BY <2>2 DEF SameNode
<1> QED BY <1>2, <1>3, <1>4

\* The block b has been visited, and nothing of what c is visiting is left.
IsLastBody(U, G, c, b) ==
  c.rest = <<>> /\ b \in (DOMAIN ir.block) \ (U \cup Opening(G)) /\ ir.block[b] # <<>>

\* The loop the caller is visiting has one region, which is the block that has
\* just been visited.
LEMMA LoopBody ==
  ASSUME NEW U, Inv(ir, U, frames, {}), Len(frames) > 1,
         NEW n, n = Len(frames) - 1, NEW c, c = frames[n], IsLoop(ir, c.op),
         NEW G, G = SubSeq(frames, 1, n), NEW b, b = ir.op[c.op].regions[1]
  PROVE  IsLastBody(U, G, c, b)
<1>1. /\ HasBlocks(ir) /\ HasRegions(ir) /\ frames \in Seq(Frame) /\ Len(frames) \in Nat
      /\ DOMAIN frames = 1..Len(frames)
  BY InvFacts
<1>2. n \in Nat /\ n \in 1..Len(frames) - 1 /\ n + 1 = Len(frames) /\ n \in DOMAIN frames
      /\ n + 1 \in DOMAIN frames /\ n \in 1..Len(frames)
  BY <1>1
<1>3. PICK d : d = frames[n + 1].b
  OBVIOUS
<1>4. /\ c \in Frame /\ c.op \in OpsIn(ir) /\ Len(ir.op[c.op].regions) = 1
      /\ Range(c.rest) \subseteq U \cap Regions(ir, c.op) /\ d \in Regions(ir, c.op)
  BY <1>1, <1>2, <1>3 DEF Inv, InvActive, AreActive, Nested
<1>5. d \in (DOMAIN ir.block) \ U /\ ir.block[d] # <<>>
  BY <1>2, <1>3, InvFacts
<1>6. Regions(ir, c.op) = {b}
  <2>1. PICK s : s = ir.op[c.op].regions
    OBVIOUS
  <2>2. s \in Seq(Nat)
    <3>1. c.op \in DOMAIN ir.op
      BY <1>1, <1>4, CodeFacts
    <3> QED BY <3>1, <2>1, <1>1 DEF HasBlocks, IsNode
  <2>3. Len(s) = 1 /\ DOMAIN s = {1}
    BY <2>1, <2>2, <1>4
  <2> QED BY <2>1, <2>3 DEF Regions, Range
<1>7. d = b
  BY <1>4, <1>6
<1>8. c.rest = <<>>
  <2>1. Range(c.rest) = {}
    BY <1>4, <1>5, <1>6, <1>7
  <2>2. c.rest \in Seq(Nat)
    BY <1>4 DEF Frame
  <2>3. c.rest # <<>> => Last(c.rest) \in Range(c.rest)
    BY <2>2, RangeFacts
  <2> QED BY <2>1, <2>3, Zenon
<1>9. d \notin Opening(G)
  <2>1. DOMAIN G = 1..n /\ \A m \in 1..n : G[m] = frames[m]
    BY <1>1, <1>2, SubSeqProperties
  <2>2. \A m \in 1..n : m \in DOMAIN frames /\ m # n + 1
    BY <1>1, <1>2, SMTT(60)
  <2>3. \A m \in 1..n : frames[m].b # d
    BY <2>2, <1>2, <1>3, Zenon DEF Inv, InvPlaces
  <2> QED BY <2>1, <2>3 DEF Opening
<1> QED BY <1>5, <1>7, <1>8, <1>9 DEF IsLastBody

\* Leaving a loop, its body and condition guarded, keeps the invariant.
LEMMA FinishLoopStep ==
  ASSUME IInv, FinishLoop
  PROVE  IInv'
<1>1. BlockDone /\ Len(frames) > 1 /\ IsLoop(ir, Caller.op)
  BY DEF FinishLoop
<1>2. PICK G : G = SubSeq(frames, 1, Len(frames) - 1)
  OBVIOUS
<1>3. PICK c : c = Caller
  OBVIOUS
<1>4. PICK n : n = Len(G)
  OBVIOUS
<1>5. PICK U \in SUBSET Nat :
        /\ Inv(ir, U, frames, {}) /\ Between(ir, U, G)
        /\ Top.info.et \in {"next", "nested"} => Nestable(ir, U, G, Top.info.ep)
  BY <1>1, <1>2, <1>3, PoppedFacts
<1>6. /\ guards \in GuardSet /\ AreVariables(ir, guards) /\ phase = "visit"
      /\ G \in Seq(Frame) /\ G # <<>> /\ n = Len(frames) - 1 /\ n \in DOMAIN G
      /\ G[n] = c /\ c \in Frame /\ Top.info \in InfoSet
  BY <1>1, <1>2, <1>3, <1>4, PoppedFacts
<1>7. AreVariables(ir, c.saved) /\ c.op \in OpsIn(ir)
  BY <1>4, <1>5, <1>6, CallerFacts
<1>8. PICK b : b = ir.op[c.op].regions[1]
  OBVIOUS
<1>9. c.rest = <<>> /\ b \in (DOMAIN ir.block) \ (U \cup Opening(G)) /\ ir.block[b] # <<>>
  <2>1. c = frames[n] /\ G = SubSeq(frames, 1, n)
    BY <1>2, <1>3, <1>6 DEF Caller
  <2>2. IsLoop(ir, c.op) /\ n = Len(frames) - 1
    BY <1>1, <1>3, <1>6
  <2>3. Inv(ir, U, frames, {}) /\ Len(frames) > 1
    BY <1>1, <1>5
  <2>4. IsLastBody(U, G, c, b)
    BY ONLY <2>1, <2>2, <2>3, <1>8, LoopBody, Zenon
  <2> QED BY <2>4 DEF IsLastBody
<1>10. PICK cf : cf = Top.info.cf
  OBVIOUS
<1>11. PICK got : got = IF "ret" \in cf THEN Info({"ret"}, "multiple", 0) ELSE Info({}, "next", 0)
  OBVIOUS
<1>12. got \in InfoSet /\ got.et # "nested"
  BY <1>11 DEF Info, InfoSet
<1>13. PICK R : R = [G EXCEPT ![n].op = 0, ![n].info = Absorbed(G[n].info, got)]
  OBVIOUS
<1>14. Inv(ir, U, R, {}) /\ Last(R).op = 0
  <2>1. G[n].rest = <<>>
    BY <1>6, <1>9
  <2>2. Between(ir, U, G) /\ n \in DOMAIN G
    BY <1>5, <1>6
  <2>3. got.et = "nested" => Nestable(ir, U, G, got.ep)
    BY <1>12
  <2>4. got \in InfoSet
    BY <1>12
  <2>5. IsReturned(ir, U, R)
    BY ONLY <2>1, <2>2, <2>3, <2>4, <1>4, <1>13, ReturnedStep, Zenon
  <2> QED BY <2>5 DEF IsReturned
<1>15. DOMAIN R = DOMAIN G /\ \A m \in DOMAIN G : R[m].b = G[m].b /\ R[m].todo = G[m].todo
  <2>1. PICK i : i = Absorbed(G[n].info, got)
    OBVIOUS
  <2>2. PICK h : h = [G[n] EXCEPT !.op = 0, !.info = i]
    OBVIOUS
  <2>3. [G EXCEPT ![n].op = 0, ![n].info = i] = [G EXCEPT ![n] = [G[n] EXCEPT !.op = 0, !.info = i]]
    OBVIOUS
  <2>4. R = [G EXCEPT ![n] = h]
    BY <2>1, <2>2, <2>3, <1>13
  <2>5. h.b = c.b /\ h.todo = c.todo
    <3>1. h = [c EXCEPT !.op = 0, !.info = i]
      BY <2>2, <1>6
    <3> QED BY <3>1, <1>6 DEF Frame
  <2> QED BY <2>4, <2>5, <1>6
<1>16. AllSource(ir, R) /\ Opening(R) = Opening(G)
  <2>1. AllSource(ir, G)
    BY <1>5, BetweenSource
  <2> QED BY <2>1, <1>15 DEF AllSource, Opening
<1>17. PICK v : v = ActualBreakGuard(cf)
  OBVIOUS
<1>18. v \in Nat /\ guards.cnt \in Nat
  BY <1>6, <1>17 DEF ActualBreakGuard, GuardSet, NoVar
<1>19. PICK p : p = WithBreakGuard(ir, c.op, v)
  OBVIOUS
<1>20. /\ Inv(p, U, R, {})
       /\ \A a \in DOMAIN ir.op : a \in DOMAIN p.op /\ SameNode(ir.op[a], p.op[a])
  <2>1. b \in (DOMAIN ir.block) \ (U \cup Opening(R)) /\ ir.block[b] # <<>>
    BY <1>9, <1>16
  <2>2. Inv(ir, U, R, {}) /\ c.op \in OpsIn(ir) /\ v \in Nat
    BY <1>7, <1>14, <1>18
  <2> QED BY <2>1, <2>2, <1>8, <1>19, WithBreakGuardStep
<1>21. AllSource(p, R)
  <2>1. Inv(ir, U, R, {}) /\ AllSource(ir, R)
    BY <1>14, <1>16
  <2> QED BY <2>1, <1>20, SourceKept
<1>22. PICK q : q = IF v # NoVar /\ "cnt" \notin cf THEN Merged(p, guards.cnt, v) ELSE p
  OBVIOUS
<1>23. Inv(q, U, R, {}) /\ DOMAIN q.op = DOMAIN p.op
  <2>1. CASE v # NoVar /\ "cnt" \notin cf
    <3>1. q = Merged(p, guards.cnt, v)
      BY <2>1, <1>22
    <3> QED BY <3>1, <1>18, <1>20, <1>21, MergedStep
  <2>2. CASE ~(v # NoVar /\ "cnt" \notin cf)
    BY <2>2, <1>20, <1>22
  <2> QED BY <2>1, <2>2
<1>24. frames' = R /\ ir' = q /\ guards' = c.saved /\ phase' = "visit"
  <2>1. /\ frames' = Returned(IF "ret" \in cf THEN Info({"ret"}, "multiple", 0) ELSE Info({}, "next", 0))
        /\ guards' = c.saved /\ phase' = phase
        /\ ir' = IF ActualBreakGuard(cf) # NoVar /\ "cnt" \notin cf
                 THEN Merged(WithBreakGuard(ir, c.op, ActualBreakGuard(cf)), guards.cnt, ActualBreakGuard(cf))
                 ELSE WithBreakGuard(ir, c.op, ActualBreakGuard(cf))
    BY <1>3, <1>10 DEF FinishLoop
  <2>2. Returned(got) = R
    BY <1>2, <1>6, <1>13 DEF Returned
  <2> QED BY <2>1, <2>2, <1>6, <1>11, <1>17, <1>19, <1>22
<1>25. guards' \in GuardSet /\ AreVariables(ir', guards')
  <2>1. c.saved \in GuardSet
    BY <1>6 DEF Frame
  <2>2. DOMAIN ir.op \subseteq DOMAIN q.op
    BY <1>20, <1>23
  <2>3. AreVariables(q, c.saved)
    BY <2>2, <1>7 DEF AreVariables
  <2> QED BY <2>1, <2>3, <1>24
<1> QED BY <1>14, <1>23, <1>24, <1>25, VisitGoesOn

-----------------------------------------------------------------------------
(* What is erased with the rest of a block *)

UpClosed(p, S) == \A y \in S : Holders(p, BlockOf(p, y)) \subseteq S

\* The operations every set has that has x and, of each, those around it.
Above(p, x) ==
  {y \in OpsIn(p) : \A S \in SUBSET OpsIn(p) : x \in S /\ UpClosed(p, S) => y \in S}

IsAbove(p, f) ==
  f = [x \in OpsIn(p) |-> {x} \cup UNION {f[h] : h \in Holders(p, BlockOf(p, x))}]

\* The recursion of Enclosing has a solution, whatever the code is.
LEMMA AboveFacts ==
  ASSUME NEW p
  PROVE  IsAbove(p, [x \in OpsIn(p) |-> Above(p, x)])
<1>1. PICK O : O = OpsIn(p)
  OBVIOUS
<1>2. \A y : Holders(p, BlockOf(p, y)) \subseteq O
  BY <1>1 DEF Holders
<1>3. UpClosed(p, O)
  BY <1>2 DEF UpClosed
<1>4. ASSUME NEW x \in O
      PROVE  x \in Above(p, x) /\ UpClosed(p, Above(p, x)) /\ Above(p, x) \subseteq O
  <2>1. ASSUME NEW y \in Above(p, x), NEW h \in Holders(p, BlockOf(p, y))
        PROVE  h \in Above(p, x)
    <3>1. h \in O
      BY <1>2
    <3>2. ASSUME NEW S \in SUBSET O, x \in S, UpClosed(p, S) PROVE h \in S
      <4>1. y \in S
        BY <3>2, <1>1, <2>1 DEF Above
      <4> QED BY <4>1, <3>2 DEF UpClosed
    <3> QED BY <3>1, <3>2, <1>1 DEF Above
  <2>2. x \in Above(p, x)
    BY <1>1 DEF Above
  <2> QED BY <2>1, <2>2, <1>1 DEF UpClosed, Above
<1>5. \A x \in O : \A S \in SUBSET O : x \in S /\ UpClosed(p, S) => Above(p, x) \subseteq S
  BY <1>1 DEF Above
<1>6. ASSUME NEW x \in O
      PROVE  Above(p, x) = {x} \cup UNION {Above(p, h) : h \in Holders(p, BlockOf(p, x))}
  <2>1. PICK H : H = Holders(p, BlockOf(p, x))
    OBVIOUS
  <2>2. PICK T : T = {x} \cup UNION {Above(p, h) : h \in H}
    OBVIOUS
  <2>3. H \subseteq O
    BY <2>1, <1>2
  <2>4. ASSUME NEW h \in H PROVE Above(p, h) \subseteq Above(p, x)
    <3>1. h \in Above(p, x)
      BY <2>1, <2>4, <1>4 DEF UpClosed
    <3>2. h \in O
      BY <2>3
    <3> QED BY <3>1, <3>2, <1>4, <1>5
  <2>5. T \subseteq Above(p, x)
    BY <2>2, <2>4, <1>4
  <2>6. T \subseteq O
    BY <2>5, <1>4
  <2>7. UpClosed(p, T)
    <3> SUFFICES ASSUME NEW y \in T, NEW h \in Holders(p, BlockOf(p, y)) PROVE h \in T
      BY DEF UpClosed
    <3>1. CASE y = x
      <4>1. h \in H
        BY <3>1, <2>1
      <4>2. h \in Above(p, h)
        BY <4>1, <2>3, <1>4
      <4> QED BY <4>1, <4>2, <2>2
    <3>2. CASE y # x
      <4>1. PICK g \in H : y \in Above(p, g)
        BY <3>2, <2>2
      <4>2. UpClosed(p, Above(p, g))
        BY <4>1, <2>3, <1>4
      <4>3. h \in Above(p, g)
        BY <4>1, <4>2 DEF UpClosed
      <4> QED BY <4>1, <4>3, <2>2
    <3> QED BY <3>1, <3>2
  <2>8. Above(p, x) \subseteq T
    BY <2>2, <2>6, <2>7, <1>5
  <2> QED BY <2>1, <2>2, <2>5, <2>8
<1>7. PICK f : f = [x \in O |-> Above(p, x)]
  OBVIOUS
<1>8. ASSUME NEW x \in O
      PROVE  f[x] = {x} \cup UNION {f[h] : h \in Holders(p, BlockOf(p, x))}
  <2>1. \A h \in Holders(p, BlockOf(p, x)) : f[h] = Above(p, h)
    BY <1>2, <1>7
  <2>2. {f[h] : h \in Holders(p, BlockOf(p, x))} = {Above(p, h) : h \in Holders(p, BlockOf(p, x))}
    BY <2>1
  <2> QED BY <2>2, <1>6, <1>7
<1>9. f = [x \in O |-> {x} \cup UNION {f[h] : h \in Holders(p, BlockOf(p, x))}]
  BY <1>7, <1>8
<1> QED BY <1>1, <1>7, <1>9 DEF IsAbove

\* The operations around one are itself and those around the holder of its block.
LEMMA EnclosingFacts ==
  ASSUME NEW p, NEW o \in OpsIn(p)
  PROVE  Enclosing(p, o) = {o} \cup UNION {Enclosing(p, h) : h \in Holders(p, BlockOf(p, o))}
<1>1. PICK f : f = CHOOSE g : IsAbove(p, g)
  OBVIOUS
<1>2. IsAbove(p, f)
  <2>1. \E g : IsAbove(p, g)
    BY AboveFacts
  <2> QED BY <2>1, <1>1
<1>3. \A x : Enclosing(p, x) = f[x]
  BY <1>1 DEF Enclosing, IsAbove
<1>4. f[o] = {o} \cup UNION {f[h] : h \in Holders(p, BlockOf(p, o))}
  BY <1>2 DEF IsAbove
<1> QED BY <1>3, <1>4

\* What is nested in the operations R.
Cut(p, R) == {o \in OpsIn(p) : Enclosing(p, o) \cap R # {}}

\* An operation is cut when it is among the erased ones or nested in one that is.
LEMMA CutFacts ==
  ASSUME NEW p, NEW R, R \subseteq OpsIn(p), NEW o \in OpsIn(p)
  PROVE  o \in Cut(p, R) <=> o \in R \/ \E h \in Holders(p, BlockOf(p, o)) : h \in Cut(p, R)
<1>1. Holders(p, BlockOf(p, o)) \subseteq OpsIn(p)
  BY DEF Holders
<1>2. Enclosing(p, o) = {o} \cup UNION {Enclosing(p, h) : h \in Holders(p, BlockOf(p, o))}
  BY EnclosingFacts
<1>3. Enclosing(p, o) \cap R # {} <=>
        o \in R \/ \E h \in Holders(p, BlockOf(p, o)) : Enclosing(p, h) \cap R # {}
  BY <1>2
<1>4. o \in Cut(p, R) <=> Enclosing(p, o) \cap R # {}
  BY DEF Cut
<1>5. \A h \in Holders(p, BlockOf(p, o)) : h \in Cut(p, R) <=> Enclosing(p, h) \cap R # {}
  BY <1>1 DEF Cut
<1> QED BY <1>3, <1>4, <1>5

\* D is what goes with the rest R of the last call's block: of the blocks that
\* have been opened just R, of the others all or nothing.
IsDead(p, U, fs, R, D) ==
  /\ R \subseteq D /\ D \subseteq OpsIn(p)
  /\ \A b \in (DOMAIN p.block) \ U : \A o \in Range(p.block[b]) : o \in D <=> o \in R
  /\ \A c \in U : Range(p.block[c]) \cap D = {} \/ Range(p.block[c]) \subseteq D
  /\ \A c \in U : \A h \in OpsIn(p) :
       c \in Regions(p, h) /\ h \notin D => Range(p.block[c]) \cap D = {}
  /\ \A c \in U : \A h \in OpsIn(p) :
       c \in Regions(p, h) /\ h \in D => Range(p.block[c]) \subseteq D
  /\ \A b \in (DOMAIN p.block) \ U : p.block[b] # <<>> => Last(p.block[b]) \notin D
  /\ \A n \in DOMAIN fs : n # Len(fs) => Range(fs[n].todo) \cap D = {}

\* The rest of a block is not its terminator.
LEMMA RestIsFront ==
  ASSUME NEW p, NEW U, NEW fs, NEW X, Inv(p, U, fs, X), NEW n \in DOMAIN fs
  PROVE  /\ Range(fs[n].todo) \subseteq Range(p.block[fs[n].b])
         /\ Last(p.block[fs[n].b]) \notin Range(fs[n].todo)
<1>1. PICK s : s = p.block[fs[n].b]
  OBVIOUS
<1>2. PICK t : t = fs[n].todo
  OBVIOUS
<1>3. PICK u : u = Append(t, Last(s))
  OBVIOUS
<1>4. /\ fs[n].b \in DOMAIN p.block /\ s # <<>> /\ u \in Seq(Nat) /\ u # <<>> /\ EndsIn(s, u)
      /\ Range(u) = Range(t) \cup {Last(s)} /\ HasBlocks(p) /\ t \in Seq(Nat)
  <2>1. /\ fs[n] \in Frame
        /\ fs[n].b \in (DOMAIN p.block) \ U /\ p.block[fs[n].b] # <<>>
        /\ Rem(p, fs[n]) \in Seq(Nat) /\ Rem(p, fs[n]) # <<>>
        /\ EndsIn(p.block[fs[n].b], Rem(p, fs[n]))
        /\ Range(Rem(p, fs[n])) = Range(fs[n].todo) \cup {Last(p.block[fs[n].b])}
        /\ HasBlocks(p)
    BY InvFacts
  <2>2. u = Rem(p, fs[n])
    BY <1>1, <1>2, <1>3 DEF Rem
  <2> QED BY <2>1, <2>2, <1>1, <1>2 DEF Frame
<1>5. s \in Seq(Nat) /\ Len(s) \in Nat /\ DOMAIN s = 1..Len(s) /\ IsInjective(s)
  <2>1. LET w == p.block[fs[n].b]
        IN w \in Seq(Nat) /\ Len(w) \in Nat /\ DOMAIN w = 1..Len(w) /\ IsInjective(w)
    BY <1>4, BlockFacts
  <2> QED BY <2>1, <1>1
<1>6. Range(t) \subseteq Range(s)
  <2>1. EndsIn(p.block[fs[n].b], u)
    BY <1>1, <1>4
  <2>2. Range(u) \subseteq Range(p.block[fs[n].b])
    BY <2>1, <1>4, HeadOfRest
  <2> QED BY <2>2, <1>1, <1>4
<1>7. Last(s) \notin Range(t)
  <2>1. PICK l, m : l = Len(s) /\ m = Len(t)
    OBVIOUS
  <2>2. l \in Nat /\ m \in Nat /\ DOMAIN t = 1..m /\ Last(s) = s[l]
    BY <2>1, <1>4, <1>5 DEF Last
  <2>3. Len(u) = m + 1 /\ \A j \in 1..m : u[j] = t[j]
    BY <2>1, <2>2, <1>3, <1>4
  <2>4. m + 1 <= l /\ \A j \in 1..m + 1 : u[j] = s[l - (m + 1) + j]
    BY <2>1, <2>3, <1>4 DEF EndsIn
  <2>5. ASSUME NEW j \in 1..m PROVE t[j] # s[l]
    <3>1. /\ l - (m + 1) + j \in 1..l /\ l \in 1..l /\ l - (m + 1) + j # l /\ j \in 1..m + 1
      BY <2>2, <2>4
    <3>2. s[l - (m + 1) + j] # s[l]
      BY <3>1, <2>1, <1>5 DEF IsInjective
    <3> QED BY <3>1, <3>2, <2>3, <2>4
  <2> QED BY <2>2, <2>5 DEF Range
<1> QED BY <1>1, <1>2, <1>6, <1>7

\* Giving up the rest of a block takes no other part of an opened block along.
LEMMA DeadFacts ==
  ASSUME NEW p, NEW U, NEW fs, Inv(p, U, fs, {}), NEW R, R = Range(fs[Len(fs)].todo),
         NEW D, D = Cut(p, R)
  PROVE  IsDead(p, U, fs, R, D)
<1>1. /\ HasBlocks(p) /\ HasRegions(p) /\ U \subseteq DOMAIN p.block
      /\ Pending(p, U, fs, {}) \subseteq OpsIn(p) /\ DOMAIN fs = 1..Len(fs) /\ Len(fs) \in DOMAIN fs
      /\ \A n \in DOMAIN fs : fs[n].b \in (DOMAIN p.block) \ U
  BY InvFacts
<1>2. /\ \A o \in Pending(p, U, fs, {}) : Regions(p, o) \subseteq U
      /\ \A b \in U : p.block[b] # <<>>
      /\ Grounded(p, U)
      /\ \A m, n \in DOMAIN fs : fs[m].b = fs[n].b => m = n
  BY DEF Inv, InvPending, LeadsTo, InvPlaces
<1>3. PICK a : a = fs[Len(fs)].b
  OBVIOUS
<1>4. /\ a \in (DOMAIN p.block) \ U /\ R \subseteq Range(p.block[a]) /\ Last(p.block[a]) \notin R
      /\ R \subseteq Pending(p, U, fs, {}) /\ R \subseteq OpsIn(p)
  <2>1. R \subseteq Range(p.block[a]) /\ Last(p.block[a]) \notin R
    BY <1>1, <1>3, RestIsFront
  <2>2. R \subseteq Todo(fs)
    BY <1>1 DEF Todo
  <2> QED BY <2>1, <2>2, <1>1, <1>3 DEF Pending
<1>5. \A b \in DOMAIN p.block : \A o \in Range(p.block[b]) : o \in OpsIn(p) /\ BlockOf(p, o) = b
  BY <1>1, CodeFacts
<1>6. ASSUME NEW b \in DOMAIN p.block, NEW o \in Range(p.block[b])
      PROVE  o \in D <=> o \in R \/ \E h \in OpsIn(p) : b \in Regions(p, h) /\ h \in D
  <2>1. o \in OpsIn(p) /\ BlockOf(p, o) = b
    BY <1>5
  <2>2. o \in D <=> o \in R \/ \E h \in Holders(p, b) : h \in D
    BY <2>1, <1>4, CutFacts
  <2> QED BY <2>2 DEF Holders, Regions
<1>7. R \subseteq D /\ D \subseteq OpsIn(p)
  <2>1. \A o \in R : o \in D
    BY <1>4, <1>6
  <2> QED BY <2>1 DEF Cut
<1>8. ASSUME NEW b \in (DOMAIN p.block) \ U, NEW o \in Range(p.block[b]) PROVE o \in D <=> o \in R
  <2> SUFFICES ASSUME o \in D \ R PROVE FALSE
    BY <1>7
  <2>1. PICK S : S = {c \in (DOMAIN p.block) \ U : \E x \in Range(p.block[c]) : x \in D \ R}
    OBVIOUS
  <2>2. S \in SUBSET ((DOMAIN p.block) \ U) /\ S # {}
    BY <2>1
  <2>3. PICK d \in S : \A c \in S : \A x \in Range(p.block[c]) : d \notin Regions(p, x)
    BY <2>2, <1>2 DEF Grounded
  <2>4. PICK x \in Range(p.block[d]) : x \in D \ R
    BY <2>1, <2>3
  <2>5. d \in (DOMAIN p.block) \ U
    BY <2>2, <2>3
  <2>6. PICK h \in OpsIn(p) : d \in Regions(p, h) /\ h \in D
    BY <2>4, <2>5, <1>6
  <2>7. PICK c \in DOMAIN p.block : h \in Range(p.block[c])
    BY <1>1, CodeFacts
  <2>8. h \notin Pending(p, U, fs, {})
    BY <2>5, <2>6, <1>2
  <2>9. c \notin U
    BY <2>7, <2>8 DEF Pending
  <2>10. h \notin R
    BY <2>8, <1>4
  <2>11. c \in S
    BY <2>1, <2>6, <2>7, <2>9, <2>10
  <2> QED BY <2>3, <2>6, <2>7, <2>11
<1>9. ASSUME NEW c \in U, NEW o \in Range(p.block[c])
      PROVE  o \in D <=> \E h \in OpsIn(p) : c \in Regions(p, h) /\ h \in D
  <2>1. c \in DOMAIN p.block /\ c # a
    BY <1>1, <1>4
  <2>2. o \notin R
    BY <2>1, <1>1, <1>4 DEF HasBlocks
  <2> QED BY <2>1, <2>2, <1>6
<1>10. \A c \in U : Range(p.block[c]) \cap D = {} \/ Range(p.block[c]) \subseteq D
  BY <1>9
<1>11. ASSUME NEW c \in U, NEW h \in OpsIn(p), c \in Regions(p, h), h \notin D
       PROVE  Range(p.block[c]) \cap D = {}
  <2>1. \A x \in OpsIn(p) : c \in Regions(p, x) => x = h
    BY <1>1, <1>11 DEF HasRegions
  <2> QED BY <2>1, <1>9, <1>11
<1>12. \A c \in U : \A h \in OpsIn(p) :
         c \in Regions(p, h) /\ h \in D => Range(p.block[c]) \subseteq D
  BY <1>9
<1>13. ASSUME NEW b \in (DOMAIN p.block) \ U, p.block[b] # <<>> PROVE Last(p.block[b]) \notin D
  <2>1. Last(p.block[b]) \in Range(p.block[b])
    <3>1. LET w == p.block[b] IN w # <<>> => Last(w) \in Range(w)
      BY <1>1, BlockFacts
    <3> QED BY <3>1, <1>13
  <2>2. Last(p.block[b]) \notin R
    <3>1. CASE b = a
      BY <3>1, <1>4
    <3>2. CASE b # a
      BY <3>2, <2>1, <1>1, <1>4 DEF HasBlocks
    <3> QED BY <3>1, <3>2
  <2> QED BY <2>1, <2>2, <1>8
<1>14. ASSUME NEW n \in DOMAIN fs, n # Len(fs) PROVE Range(fs[n].todo) \cap D = {}
  <2>1. Range(fs[n].todo) \subseteq Range(p.block[fs[n].b])
    BY RestIsFront
  <2>2. fs[n].b \in (DOMAIN p.block) \ U /\ fs[n].b # a
    BY <1>1, <1>2, <1>3, <1>14
  <2>3. Range(p.block[fs[n].b]) \cap Range(p.block[a]) = {}
    BY <2>2, <1>4, <1>1 DEF HasBlocks
  <2> QED BY <2>1, <2>2, <2>3, <1>4, <1>8
<1> QED BY <1>7, <1>8, <1>10, <1>11, <1>12, <1>13, <1>14 DEF IsDead

\* The last call gives up the rest of its block.
GivenUp(fs) == [fs EXCEPT ![Len(fs)].todo = <<>>, ![Len(fs)].info.ep = 0]

IsGivenUp(fs, g) ==
  /\ g \in Seq(Frame) /\ g # <<>> /\ Len(g) = Len(fs) /\ DOMAIN g = DOMAIN fs
  /\ g[Len(fs)].todo = <<>> /\ g[Len(fs)].info.et = fs[Len(fs)].info.et
  /\ g[Len(fs)].op = fs[Len(fs)].op
  /\ \A n \in DOMAIN fs : n # Len(fs) => g[n] = fs[n]
  /\ \A n \in DOMAIN fs : g[n].b = fs[n].b /\ g[n].got = fs[n].got /\ g[n].saved = fs[n].saved

\* Giving up the rest of a block changes the innermost call only.
LEMMA GivenUpFacts ==
  ASSUME NEW fs \in Seq(Frame), fs # <<>>
  PROVE  IsGivenUp(fs, GivenUp(fs))
<1>1. PICK L : L = Len(fs)
  OBVIOUS
<1>2. L \in Nat /\ L \in DOMAIN fs /\ DOMAIN fs = 1..L
  BY <1>1
<1>3. PICK f : f = fs[L]
  OBVIOUS
<1>4. f \in Frame
  BY <1>2, <1>3
<1>5. PICK i : i = [f.info EXCEPT !.ep = 0]
  OBVIOUS
<1>6. i \in InfoSet /\ i.et = f.info.et
  <2>1. f.info \in InfoSet
    BY <1>4 DEF Frame
  <2> QED BY <2>1, <1>5 DEF InfoSet
<1>7. PICK h : h = [f EXCEPT !.todo = <<>>, !.info = i]
  OBVIOUS
<1>8. /\ h \in Frame /\ h.todo = <<>> /\ h.info = i /\ h.op = f.op
      /\ h.b = f.b /\ h.got = f.got /\ h.saved = f.saved
  <2>1. <<>> \in Seq(Nat)
    OBVIOUS
  <2> QED BY <2>1, <1>4, <1>6, <1>7 DEF Frame
<1>9. PICK g : g = [fs EXCEPT ![Len(fs)] = h]
  OBVIOUS
<1>10. GivenUp(fs) = g
  <2>1. GivenUp(fs) = [fs EXCEPT ![L].todo = <<>>, ![L].info = [fs[L].info EXCEPT !.ep = 0]]
    BY <1>1, <1>2 DEF GivenUp
  <2>2. GivenUp(fs) = [fs EXCEPT ![L].todo = <<>>, ![L].info = i]
    BY <2>1, <1>3, <1>5
  <2>3. [fs EXCEPT ![L].todo = <<>>, ![L].info = i]
          = [fs EXCEPT ![L] = [fs[L] EXCEPT !.todo = <<>>, !.info = i]]
    BY <1>2
  <2> QED BY <2>2, <2>3, <1>1, <1>3, <1>7, <1>9
<1>11. /\ g \in Seq(Frame) /\ g # <<>> /\ Len(g) = Len(fs) /\ g[Len(fs)] = h
       /\ \A n \in 1..Len(fs) : n # Len(fs) => g[n] = fs[n]
  <2>1. LET g2 == [fs EXCEPT ![Len(fs)] = h]
        IN /\ g2 \in Seq(Frame) /\ g2 # <<>> /\ Len(g2) = Len(fs) /\ g2[Len(fs)] = h
           /\ \A n \in 1..Len(fs) : n # Len(fs) => g2[n] = fs[n]
    BY <1>8, TopFacts
  <2> QED BY <2>1, <1>9, Zenon
<1>12. DOMAIN g = DOMAIN fs
  BY <1>9
<1> QED BY <1>1, <1>2, <1>3, <1>6, <1>8, <1>10, <1>11, <1>12 DEF IsGivenUp

\* What has been seen of the code that is left, after the rest R of the last
\* block has gone with D.
IsCut(p, U, fs, D, q, V, g) ==
  /\ IsErase(p, D, q) /\ HasBlocks(p) /\ HasRegions(p) /\ OpsIn(p) \subseteq DOMAIN p.op
  /\ V = {c \in U : Range(p.block[c]) \cap D = {}}
  /\ IsGivenUp(fs, g)
  /\ Inv(p, U, fs, {}) /\ IsDead(p, U, fs, Range(fs[Len(fs)].todo), D)
  /\ fs \in Seq(Frame) /\ Len(fs) \in Nat /\ Len(fs) \in DOMAIN fs /\ DOMAIN fs = 1..Len(fs)
  /\ U \subseteq (DOMAIN p.block) \ {p.root}
  /\ \A o \in OpsIn(p) : Regions(q, o) = Regions(p, o)

\* What is pending after the rest is erased is what was and was not cut.
LEMMA CutPending ==
  ASSUME NEW p, NEW U, NEW fs, NEW D, NEW q, NEW V, NEW g, IsCut(p, U, fs, D, q, V, g)
  PROVE  Pending(q, V, g, {}) = Pending(p, U, fs, {}) \ D
<1>1. \A c \in V : c \in U /\ Range(q.block[c]) = Range(p.block[c]) /\ Range(p.block[c]) \cap D = {}
  BY DEF IsCut, IsErase
<1>2. \A c \in U : Range(p.block[c]) \subseteq D \/ c \in V
  BY DEF IsCut, IsDead
<1>3. Todo(g) = Todo(fs) \ D
  <2>1. Range(<<>>) = {}
    BY DEF Range
  <2>2. \A n \in DOMAIN fs : Range(g[n].todo) = Range(fs[n].todo) \ D
    <3> SUFFICES ASSUME NEW n \in DOMAIN fs PROVE Range(g[n].todo) = Range(fs[n].todo) \ D
      OBVIOUS
    <3>1. CASE n = Len(fs)
      <4>1. Range(fs[n].todo) \subseteq D
        BY <3>1 DEF IsCut, IsDead
      <4>2. g[n].todo = <<>>
        BY <3>1 DEF IsCut, IsGivenUp
      <4> QED BY <4>1, <4>2, <2>1
    <3>2. CASE n # Len(fs)
      <4>1. g[n] = fs[n] /\ Range(fs[n].todo) \cap D = {}
        BY <3>2 DEF IsCut, IsDead, IsGivenUp
      <4> QED BY <4>1
    <3> QED BY <3>1, <3>2
  <2>3. DOMAIN g = DOMAIN fs
    BY DEF IsCut, IsGivenUp
  <2> QED BY <2>2, <2>3 DEF Todo
<1>4. UNION {Range(q.block[b]) : b \in V} = (UNION {Range(p.block[b]) : b \in U}) \ D
  <2>1. \A x : x \in UNION {Range(q.block[b]) : b \in V}
                 => x \in UNION {Range(p.block[b]) : b \in U} /\ x \notin D
    BY <1>1
  <2>2. \A x : x \in UNION {Range(p.block[b]) : b \in U} /\ x \notin D
                 => x \in UNION {Range(q.block[b]) : b \in V}
    BY <1>1, <1>2
  <2> QED BY <2>1, <2>2
<1> QED BY <1>3, <1>4 DEF Pending

\* A block that has been opened keeps its terminator.
LEMMA CutLast ==
  ASSUME NEW p, NEW U, NEW fs, NEW D, NEW q, NEW V, NEW g, IsCut(p, U, fs, D, q, V, g),
         NEW b \in (DOMAIN p.block) \ U, p.block[b] # <<>>
  PROVE  q.block[b] # <<>> /\ Last(q.block[b]) = Last(p.block[b])
<1>1. Last(p.block[b]) \notin D
  BY DEF IsCut, IsDead
<1> QED BY <1>1 DEF IsCut, IsErase

\* The calls are still busy with operations that exist,
LEMMA CutActive ==
  ASSUME NEW p, NEW U, NEW fs, NEW D, NEW q, NEW V, NEW g, IsCut(p, U, fs, D, q, V, g)
  PROVE  InvActive(q, V, g, {}) /\ InvSource(q, V, g, {})
<1>1. Pending(q, V, g, {}) = Pending(p, U, fs, {}) \ D
  BY CutPending
<1>2. /\ q.op = p.op /\ OpsIn(q) = OpsIn(p) \ D /\ Len(g) = Len(fs)
      /\ \A n \in DOMAIN fs : n # Len(fs) => g[n] = fs[n]
      /\ \A n \in DOMAIN fs : g[n].b = fs[n].b
      /\ DOMAIN g = DOMAIN fs /\ g[Len(fs)].todo = <<>>
  BY DEF IsCut, IsErase, IsGivenUp
<1>3. \A n \in 1..Len(fs) - 1 : n \in DOMAIN fs /\ n # Len(fs) /\ n + 1 \in DOMAIN fs
  <2>1. PICK l : l = Len(fs)
    OBVIOUS
  <2>2. l \in Nat /\ DOMAIN fs = 1..l
    BY <2>1 DEF IsCut
  <2>3. \A n \in 1..l - 1 : n \in 1..l /\ n # l /\ n + 1 \in 1..l
    BY <2>2
  <2> QED BY <2>1, <2>2, <2>3
<1>4. AreActive(p, U, fs, {}, Len(fs) - 1) /\ Nested(p, fs) /\ InvSource(p, U, fs, {})
  BY DEF IsCut, Inv, InvActive
<1>5. \A n \in 1..Len(fs) - 1 :
        /\ fs[n].op \in OpsIn(p) \ Pending(p, U, fs, {})
        /\ Range(fs[n].rest) \subseteq U \cap Regions(p, fs[n].op)
  BY <1>4 DEF AreActive
<1>6. ASSUME NEW n \in 1..Len(fs) - 1 PROVE fs[n].op \notin D
  <2>1. PICK c \in DOMAIN p.block : fs[n].op \in Range(p.block[c])
    BY <1>5, CodeFacts DEF IsCut
  <2>2. c \notin U
    BY <2>1, <1>5 DEF Pending
  <2>3. Range(fs[Len(fs)].todo) \subseteq Pending(p, U, fs, {})
    BY DEF IsCut, Pending, Todo
  <2> QED BY <2>1, <2>2, <2>3, <1>5 DEF IsCut, IsDead
<1>7. ASSUME NEW n \in 1..Len(fs) - 1 PROVE Range(fs[n].rest) \subseteq V
  <2>1. \A r \in Range(fs[n].rest) : r \in U /\ r \in Regions(p, fs[n].op)
    BY <1>5
  <2>2. \A r \in Range(fs[n].rest) : Range(p.block[r]) \cap D = {}
    BY <2>1, <1>5, <1>6 DEF IsCut, IsDead
  <2> QED BY <2>1, <2>2 DEF IsCut
<1>8. \A o \in OpsIn(p) : Regions(q, o) = Regions(p, o)
  BY DEF IsCut
<1>9. AreActive(q, V, g, {}, Len(g) - 1)
  <2>1. ASSUME NEW n \in 1..Len(fs) - 1
        PROVE  /\ g[n].op \in OpsIn(q) \ Pending(q, V, g, {})
               /\ q.op[g[n].op].k \in {"scope", "branch", "for", "forin"}
               /\ IsInjective(g[n].rest)
               /\ Range(g[n].rest) \subseteq V \cap Regions(q, g[n].op)
               /\ IsLoop(q, g[n].op) => Len(q.op[g[n].op].regions) = 1
               /\ g[n].info.et \in {"next", "nested"}
    <3>1. g[n] = fs[n]
      BY <1>2, <1>3
    <3>2. /\ p.op[fs[n].op].k \in {"scope", "branch", "for", "forin"}
          /\ IsInjective(fs[n].rest)
          /\ IsLoop(p, fs[n].op) => Len(p.op[fs[n].op].regions) = 1
          /\ fs[n].info.et \in {"next", "nested"}
      BY <1>4 DEF AreActive
    <3>3. IsLoop(q, fs[n].op) <=> IsLoop(p, fs[n].op)
      BY <1>2 DEF IsLoop
    <3>4. fs[n].op \in OpsIn(q) \ Pending(q, V, g, {})
      BY <1>1, <1>2, <1>5, <1>6
    <3>5. Range(fs[n].rest) \subseteq V \cap Regions(q, fs[n].op)
      BY <1>5, <1>7, <1>8
    <3> QED BY <3>1, <3>2, <3>3, <3>4, <3>5, <1>2, Zenon
  <2>2. \A m, n \in 1..Len(fs) - 1 : g[m].op = g[n].op => m = n
    <3>1. \A n \in 1..Len(fs) - 1 : g[n] = fs[n]
      BY <1>2, <1>3
    <3>2. \A m, n \in 1..Len(fs) - 1 : fs[m].op = fs[n].op => m = n
      BY <1>4 DEF AreActive
    <3> QED BY <3>1, <3>2, Zenon
  <2> QED BY <2>1, <2>2, <1>2 DEF AreActive
<1>10. Nested(q, g)
  <2>1. \A n \in 1..Len(fs) - 1 : g[n].op = fs[n].op /\ g[n + 1].b = fs[n + 1].b
    BY <1>2, <1>3, Zenon
  <2> QED BY <2>1, <1>2, <1>4, <1>5, <1>8, SMTT(60) DEF Nested
<1>11. InvSource(q, V, g, {})
  <2>1. ASSUME NEW c \in V, NEW o \in Range(q.block[c])
        PROVE  IsSourceNode(q.op[o]) /\ \A r \in Regions(q, o) : r < c
    <3>1. c \in U /\ o \in Range(p.block[c]) /\ o \in OpsIn(p)
      BY DEF IsCut, IsErase, OpsIn
    <3>2. IsSourceNode(p.op[o]) /\ \A r \in Regions(p, o) : r < c
      BY <3>1, <1>4 DEF InvSource
    <3> QED BY <3>1, <3>2, <1>2, <1>8
  <2>2. ASSUME NEW n \in DOMAIN g, NEW i \in DOMAIN g[n].todo
        PROVE  IsSourceNode(q.op[g[n].todo[i]])
    <3>1. DOMAIN <<>> = {}
      OBVIOUS
    <3>2. n # Len(fs) /\ n \in DOMAIN fs
      BY <3>1, <2>2, <1>2
    <3> QED BY <3>2, <1>2, <1>4 DEF InvSource
  <2> QED BY <2>1, <2>2 DEF InvSource
<1> QED BY <1>9, <1>10, <1>11 DEF InvActive

\* what is still to open hangs from something still to visit,
LEMMA CutLeads ==
  ASSUME NEW p, NEW U, NEW fs, NEW D, NEW q, NEW V, NEW g, IsCut(p, U, fs, D, q, V, g)
  PROVE  InvPending(q, V, g, {})
<1>1. Pending(q, V, g, {}) = Pending(p, U, fs, {}) \ D
  BY CutPending
<1>2. /\ q.op = p.op /\ OpsIn(q) = OpsIn(p) \ D /\ Len(g) = Len(fs) /\ DOMAIN q.block = DOMAIN p.block
      /\ q.root = p.root
      /\ \A n \in DOMAIN fs : n # Len(fs) => g[n] = fs[n]
      /\ \A c \in DOMAIN p.block : Range(q.block[c]) = Range(p.block[c]) \ D
      /\ U \subseteq (DOMAIN p.block) \ {p.root}
  BY DEF IsCut, IsErase, IsGivenUp
<1>3. \A n \in 1..Len(fs) - 1 : n \in DOMAIN fs /\ n # Len(fs)
  <2>1. PICK l : l = Len(fs)
    OBVIOUS
  <2>2. l \in Nat /\ DOMAIN fs = 1..l
    BY <2>1 DEF IsCut
  <2>3. \A n \in 1..l - 1 : n \in 1..l /\ n # l
    BY <2>2
  <2> QED BY <2>1, <2>2, <2>3
<1>4. LeadsTo(p, U, fs, {}, Len(fs) - 1)
  BY DEF IsCut, Inv, InvPending
<1>5. /\ Pending(p, U, fs, {}) \subseteq OpsIn(p)
      /\ \A o \in Pending(p, U, fs, {}) : Regions(p, o) \subseteq U
      /\ \A b \in U : p.block[b] # <<>>
      /\ \A o \in OpsIn(p) : IsSoft(p, o) => o \in Pending(p, U, fs, {})
  BY <1>4 DEF LeadsTo
<1>6. \A o \in OpsIn(p) : Regions(q, o) = Regions(p, o)
  BY DEF IsCut
<1>7. V \subseteq U /\ \A c \in V : Range(p.block[c]) \cap D = {}
  BY DEF IsCut
<1>8. \A c \in U : \A h \in OpsIn(p) : c \in Regions(p, h) /\ h \notin D => c \in V
  BY DEF IsCut, IsDead
<1>9. \A o \in Pending(q, V, g, {}) : Regions(q, o) \subseteq V
  BY <1>1, <1>5, <1>6, <1>8
<1>10. ASSUME NEW b \in V
       PROVE  /\ q.block[b] # <<>>
              /\ \E o \in OpsIn(q) :
                   /\ b \in Regions(q, o)
                   /\ \/ o \in Pending(q, V, g, {})
                      \/ \E n \in 1..Len(g) - 1 : o = g[n].op /\ b \in Range(g[n].rest)
  <2>1. b \in DOMAIN p.block /\ p.block[b] # <<>>
    BY <1>2, <1>5, <1>7
  <2>2. PICK x : x \in Range(p.block[b])
    <3>1. LET w == p.block[b] IN w # <<>> => Last(w) \in Range(w)
      BY <2>1, BlockFacts DEF IsCut
    <3> QED BY <3>1, <2>1
  <2>3. q.block[b] # <<>>
    <3>1. x \in Range(q.block[b])
      BY <2>1, <2>2, <1>2, <1>7
    <3> QED BY <3>1 DEF Range
  <2>4. PICK o \in OpsIn(p) :
          /\ b \in Regions(p, o)
          /\ \/ o \in Pending(p, U, fs, {})
             \/ \E n \in 1..Len(fs) - 1 : o = fs[n].op /\ b \in Range(fs[n].rest)
    BY <1>4, <1>7 DEF LeadsTo
  <2>5. o \notin D
    <3>1. b \in U /\ Range(p.block[b]) \cap D = {}
      BY <1>7
    <3>2. o \in D => Range(p.block[b]) \subseteq D
      BY <2>4, <3>1 DEF IsCut, IsDead
    <3> QED BY <2>2, <3>1, <3>2
  <2>6. o \in OpsIn(q) /\ b \in Regions(q, o)
    BY <2>4, <2>5, <1>2, <1>6
  <2>7. \/ o \in Pending(q, V, g, {})
        \/ \E n \in 1..Len(g) - 1 : o = g[n].op /\ b \in Range(g[n].rest)
    BY <2>4, <2>5, <1>1, <1>2, <1>3
  <2> QED BY <2>3, <2>6, <2>7
<1>11. \A o \in OpsIn(q) : IsSoft(q, o) => o \in Pending(q, V, g, {})
  BY <1>1, <1>2, <1>5 DEF IsSoft
<1>12. Pending(q, V, g, {}) \subseteq OpsIn(q)
  BY <1>1, <1>2, <1>5
<1>13. V \subseteq (DOMAIN q.block) \ {q.root}
  BY <1>2, <1>7
<1> QED BY <1>9, <1>10, <1>11, <1>12, <1>13 DEF InvPending, LeadsTo

\* no block to open is nested in itself,
LEMMA CutGrounded ==
  ASSUME NEW p, NEW U, NEW fs, NEW D, NEW q, NEW V, NEW g, IsCut(p, U, fs, D, q, V, g)
  PROVE  Grounded(q, V)
<1>1. /\ OpsIn(q) = OpsIn(p) \ D /\ DOMAIN q.block = DOMAIN p.block
      /\ \A c \in DOMAIN p.block : Range(q.block[c]) = Range(p.block[c]) \ D
      /\ \A o \in OpsIn(p) : Regions(q, o) = Regions(p, o)
      /\ Grounded(p, U)
  BY DEF IsCut, IsErase, Inv
<1>2. \A c \in DOMAIN p.block : Range(p.block[c]) \subseteq OpsIn(p)
  BY DEF OpsIn
<1>3. \A c \in U \ V : Range(p.block[c]) \subseteq D
  BY DEF IsCut, IsDead
<1>4. U \subseteq DOMAIN p.block /\ V \subseteq U
  BY DEF IsCut
<1> SUFFICES ASSUME NEW S \in SUBSET ((DOMAIN q.block) \ V), S # {}
             PROVE  \E b \in S : \A c \in S : \A o \in Range(q.block[c]) : b \notin Regions(q, o)
  BY DEF Grounded
<1>5. PICK T : T = S \ U
  OBVIOUS
<1>6. \A c \in S : c \in T \/ Range(q.block[c]) = {}
  BY <1>1, <1>3, <1>4, <1>5
<1>7. CASE T = {}
  BY <1>6, <1>7
<1>8. CASE T # {}
  <2>1. T \in SUBSET ((DOMAIN p.block) \ U)
    BY <1>1, <1>5
  <2>2. PICK b \in T : \A c \in T : \A o \in Range(p.block[c]) : b \notin Regions(p, o)
    BY <2>1, <1>1, <1>8 DEF Grounded
  <2>3. \A c \in S : \A o \in Range(q.block[c]) : b \notin Regions(q, o)
    <3> SUFFICES ASSUME NEW c \in S, NEW o \in Range(q.block[c]) PROVE b \notin Regions(q, o)
      OBVIOUS
    <3>1. c \in T
      BY <1>6
    <3>2. o \in Range(p.block[c]) /\ o \in OpsIn(p)
      BY <3>1, <2>1, <1>1, <1>2
    <3> QED BY <3>1, <3>2, <2>2, <1>1
  <2> QED BY <2>2, <2>3, <1>5
<1> QED BY <1>7, <1>8

\* and the insertion points are where code may be put.
LEMMA CutPlaces ==
  ASSUME NEW p, NEW U, NEW fs, NEW D, NEW q, NEW V, NEW g, IsCut(p, U, fs, D, q, V, g),
         fs[Len(fs)].info.et = "none"
  PROVE  InvPlaces(q, V, g)
<1>1. /\ q.op = p.op /\ DOMAIN q.block = DOMAIN p.block
      /\ DOMAIN g = DOMAIN fs /\ g[Len(fs)].todo = <<>> /\ g[Len(fs)].info.et = "none"
      /\ \A n \in DOMAIN fs : n # Len(fs) => g[n] = fs[n]
      /\ \A n \in DOMAIN fs : g[n].b = fs[n].b /\ g[n].got = fs[n].got
      /\ V \subseteq U
  BY DEF IsCut, IsErase, IsGivenUp
<1>2. /\ \A n \in DOMAIN fs :
           /\ fs[n].b \in (DOMAIN p.block) \ U
           /\ p.block[fs[n].b] # <<>>
           /\ EndsIn(p.block[fs[n].b], Rem(p, fs[n]))
           /\ IsPoint(p, U, fs, fs[n], fs[n].info)
           /\ \A x \in Range(fs[n].got) :
                x.et \in {"next", "nested"} => Nestable(p, U, fs, x.ep)
      /\ \A m, n \in DOMAIN fs : fs[m].b = fs[n].b => m = n
  BY DEF IsCut, Inv, InvPlaces
<1>3. Opening(g) = Opening(fs)
  BY <1>1 DEF Opening
<1>4. ASSUME NEW e, Nestable(p, U, fs, e) PROVE Nestable(q, V, g, e)
  <2>1. PICK c \in (DOMAIN p.block) \ (U \cup Opening(fs)) :
          p.block[c] # <<>> /\ e = Last(p.block[c])
    BY <1>4 DEF Nestable
  <2>2. c \in (DOMAIN p.block) \ U
    BY <2>1
  <2>3. q.block[c] # <<>> /\ Last(q.block[c]) = Last(p.block[c])
    BY <2>1, <2>2, CutLast
  <2>4. c \in (DOMAIN q.block) \ (V \cup Opening(g))
    BY <2>1, <1>1, <1>3
  <2> QED BY <2>1, <2>3, <2>4 DEF Nestable
<1>5. ASSUME NEW n \in DOMAIN fs
      PROVE  q.block[fs[n].b] # <<>> /\ Last(q.block[fs[n].b]) = Last(p.block[fs[n].b])
  <2>1. fs[n].b \in (DOMAIN p.block) \ U /\ p.block[fs[n].b] # <<>>
    BY <1>2
  <2> QED BY <2>1, CutLast
<1>6. ASSUME NEW n \in DOMAIN fs, n # Len(fs)
      PROVE  /\ Rem(q, g[n]) = Rem(p, fs[n])
             /\ EndsIn(q.block[g[n].b], Rem(q, g[n]))
             /\ IsPoint(q, V, g, g[n], g[n].info)
  <2>1. Rem(q, g[n]) = Rem(p, fs[n]) /\ g[n] = fs[n]
    BY <1>1, <1>5, <1>6 DEF Rem
  <2>2. Range(Rem(p, fs[n])) \cap D = {}
    <3>1. Range(Rem(p, fs[n])) = Range(fs[n].todo) \cup {Last(p.block[fs[n].b])}
      BY InvFacts DEF IsCut
    <3>2. Range(fs[n].todo) \cap D = {}
      BY <1>6 DEF IsCut, IsDead
    <3>3. Last(p.block[fs[n].b]) \notin D
      BY <1>2 DEF IsCut, IsDead
    <3> QED BY <3>1, <3>2, <3>3
  <2>3. Rem(p, fs[n]) \in Seq(Nat)
    BY InvFacts DEF IsCut
  <2>4. EndsIn(q.block[fs[n].b], Rem(p, fs[n]))
    BY <2>2, <2>3, <1>2 DEF IsCut, IsErase
  <2>5. IsPoint(q, V, g, fs[n], fs[n].info)
    <3>1. IsPoint(p, U, fs, fs[n], fs[n].info)
      BY <1>2
    <3>2. \A e : AtRest(p, fs[n], e) => AtRest(q, fs[n], e)
      BY <2>1 DEF AtRest
    <3> QED BY <3>1, <3>2, <1>4 DEF IsPoint
  <2> QED BY <2>1, <2>4, <2>5
<1>7. ASSUME NEW n \in DOMAIN fs, n = Len(fs)
      PROVE  /\ EndsIn(q.block[g[n].b], Rem(q, g[n]))
             /\ IsPoint(q, V, g, g[n], g[n].info)
  <2>1. PICK z : z = Last(p.block[fs[n].b])
    OBVIOUS
  <2>2. Rem(q, g[n]) = <<z>>
    <3>1. Append(<<>>, z) = <<z>>
      OBVIOUS
    <3> QED BY <3>1, <2>1, <1>1, <1>5, <1>7 DEF Rem
  <2>3. PICK s : s = q.block[fs[n].b]
    OBVIOUS
  <2>4. s \in Seq(Nat) /\ s # <<>> /\ Last(s) = z
    <3>1. fs[n].b \in DOMAIN q.block /\ HasBlocks(q)
      BY <1>1, <1>2 DEF IsCut, IsErase
    <3>2. LET w == q.block[fs[n].b] IN w \in Seq(Nat)
      BY <3>1, BlockFacts
    <3> QED BY <3>2, <2>1, <2>3, <1>5
  <2>5. EndsIn(s, <<z>>)
    <3>1. Len(s) \in Nat /\ Len(s) >= 1 /\ s[Len(s)] = z
      BY <2>4, RangeFacts DEF Last
    <3>2. Len(s) - 1 + 1 = Len(s) /\ \A j \in 1..1 : j = 1
      BY <3>1
    <3>3. Len(<<z>>) = 1 /\ <<z>>[1] = z
      OBVIOUS
    <3> QED BY <3>1, <3>2, <3>3 DEF EndsIn
  <2>6. IsPoint(q, V, g, g[n], g[n].info)
    BY <1>1, <1>7 DEF IsPoint
  <2> QED BY <2>2, <2>3, <2>5, <2>6, <1>1
<1>8. ASSUME NEW n \in DOMAIN g
      PROVE  /\ g[n].b \in (DOMAIN q.block) \ V
             /\ q.block[g[n].b] # <<>>
             /\ EndsIn(q.block[g[n].b], Rem(q, g[n]))
             /\ IsPoint(q, V, g, g[n], g[n].info)
             /\ \A x \in Range(g[n].got) :
                  x.et \in {"next", "nested"} => Nestable(q, V, g, x.ep)
  <2>1. n \in DOMAIN fs /\ g[n].b = fs[n].b /\ g[n].got = fs[n].got
    BY <1>1
  <2>2. g[n].b \in (DOMAIN q.block) \ V /\ q.block[g[n].b] # <<>>
    BY <2>1, <1>1, <1>2, <1>5
  <2>3. EndsIn(q.block[g[n].b], Rem(q, g[n])) /\ IsPoint(q, V, g, g[n], g[n].info)
    BY <2>1, <1>6, <1>7
  <2>4. \A x \in Range(g[n].got) : x.et \in {"next", "nested"} => Nestable(q, V, g, x.ep)
    BY <2>1, <1>2, <1>4
  <2> QED BY <2>2, <2>3, <2>4
<1>9. \A m, n \in DOMAIN g : g[m].b = g[n].b => m = n
  BY <1>1, <1>2
<1> QED BY <1>8, <1>9 DEF InvPlaces

\* What nothing reaches is erased, with the blocks that only it leads to.
LEMMA CutStep ==
  ASSUME NEW p, NEW U, NEW fs, Inv(p, U, fs, {}), fs[Len(fs)].info.et = "none",
         NEW q, q = Erase(p, Cut(p, Range(fs[Len(fs)].todo))), NEW g, g = GivenUp(fs)
  PROVE  /\ \E V \in SUBSET U : Inv(q, V, g, {})
         /\ q.op = p.op /\ Last(g).op = Last(fs).op
<1>1. PICK D : D = Cut(p, Range(fs[Len(fs)].todo))
  OBVIOUS
<1>2. PICK V : V = {c \in U : Range(p.block[c]) \cap D = {}}
  OBVIOUS
<1>3. /\ HasBlocks(p) /\ HasRegions(p) /\ fs \in Seq(Frame) /\ fs # <<>>
      /\ Len(fs) \in Nat /\ Len(fs) \in DOMAIN fs /\ DOMAIN fs = 1..Len(fs)
      /\ U \subseteq (DOMAIN p.block) \ {p.root}
      /\ OpsIn(p) \subseteq DOMAIN p.op
  BY InvFacts
<1>4. IsDead(p, U, fs, Range(fs[Len(fs)].todo), D)
  BY <1>1, DeadFacts
<1>5. IsErase(p, D, q)
  <2>1. ASSUME NEW b \in DOMAIN p.block, p.block[b] # <<>>, Last(p.block[b]) \in D
        PROVE  Range(p.block[b]) \subseteq D
    <3>1. b \in U
      BY <2>1, <1>4 DEF IsDead
    <3>2. Last(p.block[b]) \in Range(p.block[b])
      <4>1. LET w == p.block[b] IN w # <<>> => Last(w) \in Range(w)
        BY <1>3, BlockFacts
      <4> QED BY <4>1, <2>1
    <3> QED BY <3>1, <3>2, <2>1, <1>4 DEF IsDead
  <2>2. IsErase(p, D, Erase(p, D))
    BY <2>1, <1>3, EraseFacts
  <2> QED BY <2>2, <1>1
<1>6. IsGivenUp(fs, g)
  BY <1>3, GivenUpFacts
<1>7. IsCut(p, U, fs, D, q, V, g)
  <2>1. \A o \in OpsIn(p) : Regions(q, o) = Regions(p, o)
    BY <1>5 DEF IsErase, Regions
  <2> QED BY <2>1, <1>2, <1>3, <1>4, <1>5, <1>6 DEF IsCut
<1>8. IsCode(q)
  <2>1. HasRegions(q)
    BY <1>3, <1>5 DEF IsErase, HasRegions, Regions
  <2> QED BY <2>1, <1>5, CodeParts DEF IsErase
<1>9. InvFrames(q, g)
  <2>1. \A n \in DOMAIN fs : AreVariables(p, fs[n].saved)
    BY DEF Inv, InvFrames
  <2> QED BY <2>1, <1>5, <1>6 DEF InvFrames, IsGivenUp, IsErase, AreVariables
<1>10. Inv(q, V, g, {})
  BY <1>7, <1>8, <1>9, CutActive, CutLeads, CutPlaces, CutGrounded DEF Inv
<1>11. Last(g).op = Last(fs).op
  BY <1>6 DEF IsGivenUp, Last
<1>12. V \in SUBSET U
  BY <1>2
<1> QED BY <1>5, <1>10, <1>11, <1>12 DEF IsErase

\* Erasing the rest of a block after a jump keeps the invariant.
LEMMA EraseRestStep ==
  ASSUME IInv, EraseRest
  PROVE  IInv'
<1>1. phase = "visit" /\ Top.op = 0 /\ Top.info.et = "none"
  BY DEF EraseRest
<1>2. PICK U \in SUBSET Nat : Inv(ir, U, frames, {})
  BY <1>1, VisitFacts
<1>3. guards \in GuardSet /\ AreVariables(ir, guards)
  BY <1>1, VisitFacts
<1>4. Top = frames[Len(frames)]
  BY DEF Top, Last
<1>5. /\ ir' = Erase(ir, Cut(ir, Range(frames[Len(frames)].todo)))
      /\ frames' = GivenUp(frames) /\ guards' = guards /\ phase' = "visit"
  <2>1. /\ ir' = Erase(ir, Cut(ir, Range(Top.todo)))
        /\ frames' = [frames EXCEPT ![Len(frames)].todo = <<>>, ![Len(frames)].info.ep = 0]
        /\ guards' = guards /\ phase' = phase
    BY DEF EraseRest, Cut
  <2> QED BY <2>1, <1>1, <1>4 DEF GivenUp
<1>6. /\ \E V \in SUBSET U : Inv(ir', V, frames', {})
      /\ ir'.op = ir.op /\ Last(frames').op = Last(frames).op
  <2>1. PICK q, g : q = ir' /\ g = frames'
    OBVIOUS
  <2>2. frames[Len(frames)].info.et = "none"
    BY <1>1, <1>4
  <2>3. q = Erase(ir, Cut(ir, Range(frames[Len(frames)].todo))) /\ g = GivenUp(frames)
    BY <2>1, <1>5
  <2>4. /\ \E V \in SUBSET U : Inv(q, V, g, {})
        /\ q.op = ir.op /\ Last(g).op = Last(frames).op
    BY <2>2, <2>3, <1>2, CutStep
  <2> QED BY <2>1, <2>4
<1>7. PICK V \in SUBSET U : Inv(ir', V, frames', {})
  BY <1>6
<1>8. AreVariables(ir', guards') /\ guards' \in GuardSet
  BY <1>3, <1>5, <1>6 DEF AreVariables
<1>9. Last(frames').op = 0
  BY <1>1, <1>6 DEF Top
<1> QED BY <1>5, <1>7, <1>8, <1>9, VisitGoesOn

-----------------------------------------------------------------------------
(* The start and the end *)

\* When the root has been visited no block is left: of those that are, the one
\* with the greatest number would be a region of an operation in a block that
\* is left, with a number still greater.
LEMMA AllVisited ==
  ASSUME NEW p, NEW U, NEW fs, Inv(p, U, fs, {}), Len(fs) = 1, fs[1].todo = <<>>
  PROVE  ~HasSoftCF(p)
<1>1. /\ HasBlocks(p) /\ U \subseteq DOMAIN p.block /\ DOMAIN fs = 1..1
  BY InvFacts
<1>2. PICK m : m = Len(p.block)
  OBVIOUS
<1>3. m \in Nat /\ DOMAIN p.block = 1..m
  BY <1>1, <1>2, CodeFacts
<1>4. /\ \A c \in U : \A o \in Range(p.block[c]) : \A r \in Regions(p, o) : r < c
      /\ LeadsTo(p, U, fs, {}, 0)
  BY DEF Inv, InvSource, InvPending
<1>5. Todo(fs) = {}
  <2>1. \A n \in DOMAIN fs : n = 1
    BY <1>1
  <2>2. Range(<<>>) = {}
    BY DEF Range
  <2> QED BY <2>1, <2>2 DEF Todo
<1>6. Pending(p, U, fs, {}) = UNION {Range(p.block[b]) : b \in U}
  BY <1>5 DEF Pending
<1>7. U = {}
  <2> SUFFICES ASSUME U # {} PROVE FALSE
    OBVIOUS
  <2>1. U \in SUBSET (1..m)
    BY <1>1, <1>3
  <2>2. PICK b \in U : \A y \in U : b >= y
    <3>1. Max(U) \in U /\ \A y \in U : Max(U) >= y
      BY <2>1, <1>3, MaxFacts
    <3> QED BY <3>1
  <2>3. PICK o \in OpsIn(p) :
          /\ b \in Regions(p, o)
          /\ \/ o \in Pending(p, U, fs, {})
             \/ \E n \in 1..0 : o = fs[n].op /\ b \in Range(fs[n].rest)
    BY <1>4 DEF LeadsTo
  <2>4. PICK c \in U : o \in Range(p.block[c])
    BY <2>3, <1>6
  <2>5. b < c /\ b >= c
    BY <2>2, <2>3, <2>4, <1>4
  <2>6. b \in Nat /\ c \in Nat
    BY <2>1, <1>3
  <2> QED BY <2>5, <2>6
<1>8. Pending(p, U, fs, {}) = {}
  BY <1>6, <1>7
<1> QED BY <1>4, <1>8 DEF LeadsTo, HasSoftCF

\* When the outermost call returns, nothing is pending: no soft control flow is
\* left.
LEMMA FinishBodyStep ==
  ASSUME IInv, FinishBody
  PROVE  IInv'
<1>1. /\ phase = "visit" /\ Top.todo = <<>> /\ Len(frames) = 1 /\ phase' = "done"
      /\ frames' = <<>> /\ ir' = ir /\ guards' = guards
  BY DEF FinishBody, BlockDone
<1>2. PICK U \in SUBSET Nat : Inv(ir, U, frames, {})
  BY <1>1, VisitFacts
<1>3. frames[1].todo = <<>>
  BY <1>1 DEF Top, Last
<1>4. ~HasSoftCF(ir)
  BY <1>1, <1>2, <1>3, AllVisited
<1>5. IsCode(ir)
  BY <1>2 DEF Inv
<1> QED BY <1>1, <1>4, <1>5 DEF IInv, InvPhase, TypeOK

\* A body without soft control flow is left as it is.
LEMMA SkipStep ==
  ASSUME IInv, Skip
  PROVE  IInv'
BY DEF IInv, InvPhase, TypeOK, Skip

\* The pass starts with a body of the program, which satisfies the invariant.
LEMMA InitInv == Init => IInv
<1> SUFFICES ASSUME Init PROVE IInv
  OBVIOUS
<1>1. IsBody(ir) /\ phase = "start" /\ frames = <<>> /\ guards = NoGuards
  BY ProgramsAssumption DEF Init
<1>2. NoGuards \in GuardSet /\ {NoGuards.ret, NoGuards.brk, NoGuards.cnt} = {NoVar}
  BY DEF NoGuards, GuardSet, NoVar
<1> QED BY <1>1, <1>2 DEF IInv, InvPhase, TypeOK, IsBody

\* A body as the pass finds it, its root opened.
IsBegun(p, U, fs) ==
  Inv(p, U, fs, {}) /\ \A i \in DOMAIN fs[1].todo : IsSourceNode(p.op[fs[1].todo[i]])

\* A body as the pass finds it, with all blocks but the root unopened, satisfies
\* the invariant: blocks numbered from the inside out make it grounded.
LEMMA BodyBegun ==
  ASSUME NEW p, IsBody(p), NEW U, U = (DOMAIN p.block) \ {p.root},
         NEW fs, fs = <<NewFrame(p, p.root)>>
  PROVE  IsBegun(p, U, fs)
<1>1. PICK R : R = p.root
  OBVIOUS
<1>2. /\ IsCode(p) /\ HasBlocks(p) /\ HasRegions(p) /\ R \in DOMAIN p.block
      /\ \A o \in OpsIn(p) : IsSourceNode(p.op[o])
      /\ \A b \in DOMAIN p.block :
           /\ p.block[b] # <<>>
           /\ b # R => Holders(p, b) # {}
           /\ \A o \in Range(p.block[b]) : \A r \in Regions(p, o) : r < b
  BY <1>1, CodeParts DEF IsBody, HasBlocks, Regions
<1>3. PICK f : f = NewFrame(p, R)
  OBVIOUS
<1>4. fs = <<f>> /\ Len(fs) = 1 /\ DOMAIN fs = {1} /\ fs[1] = f
  BY <1>1, <1>3
<1>5. IsNewFrame(p, R, f)
  BY <1>2, <1>3, NewFrameFacts
<1>6. /\ f \in Frame
      /\ f.b = R /\ f.todo \in Seq(Nat) /\ f.rest = <<>> /\ f.got = <<>> /\ f.op = 0
      /\ f.saved = NoGuards
      /\ Range(f.todo) \subseteq Range(p.block[R])
      /\ Range(p.block[R]) = Range(f.todo) \cup {Last(p.block[R])}
      /\ f.info.et = "next"
      /\ EndsIn(p.block[R], Rem(p, f)) /\ AtRest(p, f, f.info.ep)
  BY <1>5 DEF IsNewFrame
<1>7. Todo(fs) = Range(f.todo)
  BY <1>4 DEF Todo
<1>8. p.block[R] # <<>> /\ Last(p.block[R]) \in OpsIn(p) /\ p.op[Last(p.block[R])].k = "end"
  <2>1. LET w == p.block[R]
        IN w # <<>> => Last(w) \in Range(w) /\ p.op[Last(w)].k = "end"
    BY <1>2, BlockFacts
  <2> QED BY <2>1, <1>2 DEF OpsIn
<1>9. ASSUME NEW o \in OpsIn(p) PROVE o \in Pending(p, U, fs, {}) \/ o = Last(p.block[R])
  <2>1. PICK b \in DOMAIN p.block : o \in Range(p.block[b])
    BY <1>2, CodeFacts
  <2>2. CASE b = R
    BY <2>1, <2>2, <1>6, <1>7 DEF Pending
  <2>3. CASE b # R
    BY <2>1, <2>3, <1>1 DEF Pending
  <2> QED BY <2>2, <2>3
<1>10. Regions(p, Last(p.block[R])) = {} /\ ~IsSoft(p, Last(p.block[R]))
  <2>1. p.op[Last(p.block[R])].regions = <<>>
    BY <1>2, <1>8 DEF IsSourceNode
  <2>2. Range(<<>>) = {}
    BY DEF Range
  <2> QED BY <2>1, <2>2, <1>8 DEF Regions, IsSoft
<1>11. Pending(p, U, fs, {}) \subseteq OpsIn(p)
  <2>1. Range(f.todo) \subseteq OpsIn(p)
    BY <1>2, <1>6 DEF OpsIn
  <2>2. \A b \in U : Range(p.block[b]) \subseteq OpsIn(p)
    BY DEF OpsIn
  <2> QED BY <2>1, <2>2, <1>7 DEF Pending
<1>12. InvFrames(p, fs)
  <2>1. fs \in Seq(Frame) /\ fs # <<>>
    BY <1>4, <1>6
  <2>2. AreVariables(p, NoGuards)
    BY DEF AreVariables, NoGuards
  <2> QED BY <2>1, <2>2, <1>4, <1>6 DEF InvFrames
<1>13. \A i \in DOMAIN f.todo : IsSourceNode(p.op[f.todo[i]])
  <2>1. \A i \in DOMAIN f.todo : f.todo[i] \in Range(f.todo)
    BY DEF Range
  <2>2. Range(f.todo) \subseteq OpsIn(p)
    BY <1>2, <1>6 DEF OpsIn
  <2> QED BY <2>1, <2>2, <1>2
<1>14. InvSource(p, U, fs, {})
  <2>1. \A c \in U : \A o \in Range(p.block[c]) :
          IsSourceNode(p.op[o]) /\ \A r \in Regions(p, o) : r < c
    BY <1>2 DEF OpsIn
  <2> QED BY <2>1, <1>4, <1>13 DEF InvSource
<1>15. InvActive(p, U, fs, {})
  <2>1. Len(fs) - 1 = 0 /\ 1..0 = {}
    BY <1>4
  <2> QED BY <2>1 DEF InvActive, AreActive, Nested
<1>16. InvPending(p, U, fs, {})
  <2>1. ASSUME NEW b \in U
        PROVE  \E o \in OpsIn(p) : b \in Regions(p, o) /\ o \in Pending(p, U, fs, {})
    <3>1. PICK o \in OpsIn(p) : b \in Regions(p, o)
      BY <1>1, <1>2 DEF Holders, Regions
    <3> QED BY <3>1, <1>9, <1>10
  <2>2. \A o \in Pending(p, U, fs, {}) : Regions(p, o) \subseteq U
    BY <1>2, <1>11 DEF HasRegions
  <2>3. \A o \in OpsIn(p) : IsSoft(p, o) => o \in Pending(p, U, fs, {})
    BY <1>9, <1>10
  <2>4. \A b \in U : p.block[b] # <<>>
    BY <1>2
  <2> QED BY <2>1, <2>2, <2>3, <2>4, <1>11 DEF InvPending, LeadsTo
<1>17. InvPlaces(p, U, fs)
  <2>1. IsPoint(p, U, fs, f, f.info)
    BY <1>6 DEF IsPoint
  <2>2. Range(<<>>) = {}
    BY DEF Range
  <2> QED BY <2>1, <2>2, <1>1, <1>2, <1>4, <1>6 DEF InvPlaces
<1>18. Grounded(p, U)
  <2>1. \A S \in SUBSET ((DOMAIN p.block) \ U) : S # {} => S = {R}
    BY <1>1
  <2>2. \A o \in Range(p.block[R]) : R \notin Regions(p, o)
    BY <1>1, <1>2 DEF HasRegions, OpsIn
  <2> QED BY <2>1, <2>2 DEF Grounded
<1>19. Inv(p, U, fs, {})
  BY <1>2, <1>12, <1>14, <1>15, <1>16, <1>17, <1>18 DEF Inv
<1> QED BY <1>4, <1>13, <1>19 DEF IsBegun

\* Starting the visitor establishes the invariant of its work.
LEMMA StartStep ==
  ASSUME IInv, Start
  PROVE  IInv'
<1>1. PICK R : R = ir.root
  OBVIOUS
<1>2. PICK v : v = Len(ir.op) + 1
  OBVIOUS
<1>3. PICK a : a = Assign(v, TRUE)
  OBVIOUS
<1>4. PICK q : q = Emit(ir, Head(ir.block[R]), <<a>>)
  OBVIOUS
<1>5. /\ ir' = q /\ guards' = [guards EXCEPT !.ret = v]
      /\ frames' = <<NewFrame(q, R)>> /\ phase' = "visit" /\ phase = "start"
  BY <1>1, <1>2, <1>3, <1>4 DEF Start
<1>6. IsBody(ir) /\ guards = NoGuards
  BY <1>5 DEF IInv, InvPhase
<1>7. HasBlocks(ir) /\ R \in DOMAIN ir.block
  BY <1>1, <1>6, CodeParts DEF IsBody, HasBlocks
<1>8. v \in Nat /\ DOMAIN ir.op = 1..v - 1 /\ v >= 1
  <2>1. Len(ir.op) \in Nat /\ DOMAIN ir.op = 1..Len(ir.op)
    BY <1>7, CodeFacts
  <2> QED BY <2>1, <1>2
<1>9. IsNode(a) /\ IsAssign(a)
  BY <1>3, <1>8 DEF IsNode, IsAssign, Assign, Make, Kind
<1>10. PICK U : U = (DOMAIN ir.block) \ {ir.root}
  OBVIOUS
<1>11. PICK fs : fs = <<NewFrame(ir, ir.root)>>
  OBVIOUS
<1>12. /\ Inv(ir, U, fs, {})
       /\ \A i \in DOMAIN fs[1].todo : IsSourceNode(ir.op[fs[1].todo[i]])
       /\ Len(fs) = 1 /\ fs[1] = NewFrame(ir, R)
  <2>1. IsBegun(ir, U, fs)
    BY <1>6, <1>10, <1>11, BodyBegun
  <2> QED BY <2>1, <1>1, <1>11 DEF IsBegun
<1>13. PICK g : g = [fs EXCEPT ![Len(fs)] = NewFrame(q, R)]
  OBVIOUS
<1>14. IsPrepended(ir, U, q, g)
  <2>1. /\ fs[Len(fs)] = NewFrame(ir, R)
        /\ \A i \in DOMAIN fs[Len(fs)].todo : IsSourceNode(ir.op[fs[Len(fs)].todo[i]])
    BY <1>12
  <2>2. Inv(ir, U, fs, {})
    BY <1>12
  <2> QED BY ONLY <2>1, <2>2, <1>4, <1>9, <1>13, PrependStep, Zenon
<1>15. g = <<NewFrame(q, R)>>
  BY <1>11, <1>12, <1>13
<1>16. v \in DOMAIN q.op
  <2>1. PICK ops : ops = <<a>>
    OBVIOUS
  <2>2. ops \in Seq(Range(ops)) /\ DOMAIN ops = {1} /\ Len(ops) = 1
    BY <2>1 DEF Range
  <2>3. q.op = ir.op \o ops
    <3>1. ir = [op |-> ir.op, block |-> ir.block, root |-> ir.root, valued |-> ir.valued]
      BY <1>7 DEF HasBlocks
    <3>2. \A b, s : [ir EXCEPT !.op = ir.op \o ops, !.block[b] = s].op = ir.op \o ops
      BY <3>1
    <3> QED BY <3>2, <2>1, <1>4 DEF Emit
  <2>4. LET r == ir.op \o ops
        IN \A j \in DOMAIN ops : Len(ir.op) + j \in DOMAIN r
    BY <2>2, <1>7, AppendedOps
  <2> QED BY <2>2, <2>3, <2>4, <1>2
<1>17. guards' \in GuardSet /\ AreVariables(ir', guards')
  <2>1. guards' = [ret |-> v, brk |-> NoVar, cnt |-> NoVar]
    BY <1>5, <1>6 DEF NoGuards
  <2> QED BY <2>1, <1>5, <1>8, <1>16 DEF GuardSet, AreVariables, NoVar
<1>18. Inv(ir', U, frames', {})
  BY <1>5, <1>14, <1>15 DEF IsPrepended
<1>19. Last(frames').op = 0
  <2>1. Last(frames') = NewFrame(q, R)
    BY <1>5 DEF Last
  <2> QED BY <2>1 DEF NewFrame
<1> QED BY <1>5, <1>17, <1>18, <1>19, VisitGoesOn

-----------------------------------------------------------------------------
(* The theorems *)

\* The invariant is one: every action keeps it.
LEMMA Invariance == IInv /\ [Next]_vars => IInv'
<1> SUFFICES ASSUME IInv, [Next]_vars PROVE IInv'
  OBVIOUS
<1>1. CASE Skip
  BY <1>1, SkipStep
<1>2. CASE Start
  BY <1>2, StartStep
<1>3. CASE EraseRest
  BY <1>3, EraseRestStep
<1>4. CASE \E o \in DOMAIN ir.op : VisitPlain(o)
  BY <1>4, VisitPlainStep
<1>5. CASE \E o \in DOMAIN ir.op : VisitSoft(o)
  BY <1>5, VisitSoftStep
<1>6. CASE \E o \in DOMAIN ir.op : OpenConditional(o)
  BY <1>6, OpenConditionalStep
<1>7. CASE \E o \in DOMAIN ir.op : OpenLoop(o)
  BY <1>7, OpenLoopStep
<1>8. CASE NextRegion
  BY <1>8, NextRegionStep
<1>9. CASE FinishConditional
  BY <1>9, FinishConditionalStep
<1>10. CASE FinishLoop
  BY <1>10, FinishLoopStep
<1>11. CASE FinishBody
  BY <1>11, FinishBodyStep
<1>12. CASE UNCHANGED vars
  BY <1>12 DEF IInv, InvPhase, TypeOK, vars, HasSoftCF
<1>13. CASE Finished
  BY <1>13, <1>12 DEF Finished
<1> QED BY <1>1, <1>2, <1>3, <1>4, <1>5, <1>6, <1>7, <1>8, <1>9, <1>10, <1>11, <1>12, <1>13
       DEF Next

\* The points of the active calls are in code: the rest of a block that has
\* been opened, or the end of one that has been visited.
LEMMA PointsInv == IInv => PointsExist
<1> SUFFICES ASSUME IInv, NEW n \in DOMAIN frames, frames[n].info.et # "none"
             PROVE  frames[n].info.ep \in OpsIn(ir)
  BY DEF PointsExist
<1>1. phase = "visit"
  <2>1. DOMAIN <<>> = {}
    OBVIOUS
  <2> QED BY <2>1 DEF IInv, InvPhase
<1>2. PICK U \in SUBSET Nat : Inv(ir, U, frames, {})
  BY <1>1, VisitFacts
<1>3. PICK f, e : f = frames[n] /\ e = f.info.ep
  OBVIOUS
<1>4. /\ HasBlocks(ir) /\ f \in Frame
      /\ f.b \in (DOMAIN ir.block) \ U /\ ir.block[f.b] # <<>>
      /\ Rem(ir, f) \in Seq(Nat) /\ Rem(ir, f) # <<>> /\ EndsIn(ir.block[f.b], Rem(ir, f))
  BY <1>2, <1>3, InvFacts
<1>5. AtRest(ir, f, e) => e \in OpsIn(ir)
  <2>1. Head(Rem(ir, f)) \in Range(ir.block[f.b])
    BY <1>4, HeadOfRest
  <2> QED BY <2>1, <1>4 DEF AtRest, OpsIn
<1>6. Nestable(ir, U, frames, e) => e \in OpsIn(ir)
  <2>1. ASSUME NEW c \in DOMAIN ir.block, ir.block[c] # <<>>
        PROVE  Last(ir.block[c]) \in OpsIn(ir)
    <3>1. LET w == ir.block[c] IN w # <<>> => Last(w) \in Range(w)
      BY <1>4, BlockFacts
    <3> QED BY <3>1, <2>1 DEF OpsIn
  <2> QED BY <2>1 DEF Nestable
<1>7. IsPoint(ir, U, frames, f, f.info)
  BY <1>2, <1>3 DEF Inv, InvPlaces
<1>8. f.info.et \in {"next", "nested", "multiple", "none"}
  BY <1>4 DEF Frame, InfoSet
<1> QED BY <1>3, <1>5, <1>6, <1>7, <1>8 DEF IsPoint

\* The invariant holds at every step.
LEMMA Invariant == Spec => []IInv
BY InitInv, Invariance, PTL DEF Spec

\* Whatever the body, the pass keeps it a body at every step: an operation is
\* in one block at most, every block ends in its one terminator and is a region
\* of one operation, and the guards are variables of the body.
THEOREM TypeCorrect == Spec => []TypeOK
<1>1. IInv => TypeOK
  BY DEF IInv
<1> QED BY <1>1, Invariant, PTL

\* Whatever the body, no `return`, `break` or `continue` is left in it when the
\* pass is done: the visitor has reached or erased each, those in blocks it
\* moved and in what it gave up included.
THEOREM SoftControlFlowGone == Spec => []SoftFree
<1>1. IInv => SoftFree
  BY DEF IInv, InvPhase, SoftFree
<1> QED BY <1>1, Invariant, PTL

\* Whatever the body, no active call of the visitor holds on to an insertion
\* point that has been erased.
THEOREM InsertionPointsExist == Spec => []PointsExist
BY PointsInv, Invariant, PTL
=============================================================================
