------------------------ MODULE CopyElimination_proofs ------------------------
(***************************************************************************)
(* For every set of calls, with any number of arguments: the code a call   *)
(* is lowered to is well formed, and the two patterns, applied in any      *)
(* order, keep it so.  No callee ever gets two references to one place.    *)
(***************************************************************************)
EXTENDS CopyElimination, Positions_proofs, SequenceTheorems

-----------------------------------------------------------------------------
(* The operations that stay *)

\* The operations are those that stay, each of them once, in their order.
LEMMA KeptFacts ==
  ASSUME NEW drop, Len(code) \in Nat, DOMAIN code = 1..Len(code)
  PROVE  LET K == Kept(drop)
         IN /\ DOMAIN K = 1..Place(Len(code), drop) /\ Place(Len(code), drop) \in Nat
            /\ \A p \in DOMAIN K : K[p] \in DOMAIN code /\ K[p] \notin drop
            /\ \A p, q \in DOMAIN K : p < q => K[p] < K[q]
            /\ \A p, q \in DOMAIN K : K[p] < K[q] => p < q
            /\ \A n \in (DOMAIN code) \ drop : \E p \in DOMAIN K : K[p] = n
BY StayingFacts DEF Kept

-----------------------------------------------------------------------------
(* The code: its operations, and what makes it well formed *)

Symbol == Nat \X Nat \X {"in", "out"}
Value == Nat \X Nat \X {"in", "out", "result"}

Reference ==
  [root : Variable, field : {"all"} \cup UNION {Fields[x] : x \in Variable},
   def : Symbol \cup {<<>>}]
    \cup {Whole(t) : t \in Temporary}

Shapes == {{"v"}} \cup {Fields[x] : x \in Variable}

Callees ==
  {c.callee : c \in Calls}
    \cup UNION {{c.args[i].inner.callee : i \in DOMAIN c.args} : c \in Calls}

InArg == [dir : {"in"}, val : Value]
OutArg == [dir : {"out", "inout"}, ref : Reference]

Operation ==
  [k : {"variable"}, res : Temporary, fields : Shapes, blk : Nat]
    \cup [k : {"symbol_ref"}, res : Symbol, blk : Nat]
    \cup [k : {"read"}, ref : Reference, res : Value, slice : BOOLEAN, blk : Nat]
    \cup [k : {"assign"}, ref : Reference, val : Value, slice : BOOLEAN, blk : Nat]
    \cup [k : {"call"}, callee : Callees, res : Value, blk : Nat,
          args : UNION {[D -> InArg \cup OutArg] : D \in SUBSET Nat}]

GivesValue(op) == op.k \in {"read", "call"}
GivesName(op) == op.k \in {"variable", "symbol_ref"}

\* A value is the result of one operation.
Once ==
  \A i, j \in DOMAIN code :
    GivesValue(code[i]) /\ GivesValue(code[j]) /\ code[i].res = code[j].res => i = j

IInv ==
  /\ code \in Seq(Operation)
  /\ TypeOK /\ Once /\ NoAliasedArguments /\ DefinedBeforeUse

\* Names of different kinds are different.
LEMMA Names ==
  /\ \A t \in Temporary : t \notin Symbol /\ t # <<>> /\ t \notin Variable
  /\ \A x \in Symbol : x # <<>>
<1>1. \A t \in Temporary, x \in Symbol : t # x
  BY DEF Temporary, Symbol
<1>2. \A t \in Temporary : t # <<>>
  BY DEF Temporary
<1>3. \A x \in Symbol : x # <<>>
  BY DEF Symbol
<1> QED BY <1>1, <1>2, <1>3, VariablesAssumption

LEMMA ReferenceFacts ==
  ASSUME NEW r \in Reference
  PROVE  /\ r.def = <<>> \/ r.def \in Symbol
         /\ \/ r.root \in Variable
            \/ r.root \in Temporary /\ r = Whole(r.root) /\ r.field = "all" /\ r.def = <<>>
BY DEF Reference, Whole, Ref

\* What each operation needs and gives.
LEMMA OpFacts ==
  ASSUME NEW op \in Operation
  PROVE  /\ op.k \in {"variable", "symbol_ref", "read", "assign", "call"}
         /\ op.k \in {"variable", "symbol_ref"} => Values(op) = {} /\ Effects(op) = {}
         /\ op.k = "variable" => op.res \in Temporary
         /\ op.k = "symbol_ref" => op.res \in Symbol
         /\ op.k = "read" => /\ Values(op) = {} /\ op.ref \in Reference
                             /\ Effects(op) = {[ref |-> op.ref, does |-> "read"]}
         /\ op.k = "assign" => /\ Values(op) = {op.val} /\ op.ref \in Reference
                               /\ Effects(op) = {[ref |-> op.ref, does |-> "write"]}
         /\ op.k = "call" =>
              /\ \A i \in DOMAIN op.args :
                   \/ op.args[i].dir = "in"
                   \/ op.args[i].dir \in {"out", "inout"} /\ op.args[i].ref \in Reference
              /\ Values(op) = {op.args[i].val : i \in {j \in DOMAIN op.args : op.args[j].dir = "in"}}
<1>1. CASE op \in [k : {"variable"}, res : Temporary, fields : Shapes, blk : Nat]
  BY <1>1 DEF Values, Effects
<1>2. CASE op \in [k : {"symbol_ref"}, res : Symbol, blk : Nat]
  BY <1>2 DEF Values, Effects
<1>3. CASE op \in [k : {"read"}, ref : Reference, res : Value, slice : BOOLEAN, blk : Nat]
  BY <1>3 DEF Values, Effects
<1>4. CASE op \in [k : {"assign"}, ref : Reference, val : Value, slice : BOOLEAN, blk : Nat]
  BY <1>4 DEF Values, Effects
<1>5. CASE op \in [k : {"call"}, callee : Callees, res : Value, blk : Nat,
                   args : UNION {[D -> InArg \cup OutArg] : D \in SUBSET Nat}]
  <2>1. op.k = "call" /\ op.args \in UNION {[D -> InArg \cup OutArg] : D \in SUBSET Nat}
    BY <1>5
  <2>2. \A i \in DOMAIN op.args : op.args[i] \in InArg \cup OutArg
    BY <2>1
  <2>3. \A i \in DOMAIN op.args :
          \/ op.args[i].dir = "in"
          \/ op.args[i].dir \in {"out", "inout"} /\ op.args[i].ref \in Reference
    BY <2>2 DEF InArg, OutArg
  <2>4. Values(op) = {op.args[i].val : i \in {j \in DOMAIN op.args : op.args[j].dir = "in"}}
    BY <2>1 DEF Values
  <2> QED BY <2>1, <2>3, <2>4
<1> QED BY <1>1, <1>2, <1>3, <1>4, <1>5 DEF Operation

\* The references of an operation, and that it has an effect on each.
LEMMA RefsFacts ==
  ASSUME NEW op \in Operation
  PROVE  /\ op.k \in {"variable", "symbol_ref"} => Refs(op) = {}
         /\ op.k \in {"read", "assign"} => Refs(op) = {op.ref}
         /\ op.k = "call" =>
              /\ \A r : r \in Refs(op) <=>
                   \E i \in DOMAIN op.args : op.args[i].dir # "in" /\ r = op.args[i].ref
              /\ \A i \in DOMAIN op.args : op.args[i].dir # "in" =>
                   [ref |-> op.args[i].ref, does |-> "write"] \in Effects(op)
         /\ Refs(op) \subseteq Reference
<1>1. op.k \in {"variable", "symbol_ref"} => Refs(op) = {}
  BY OpFacts DEF Refs
<1>2. ASSUME op.k \in {"read", "assign"} PROVE Refs(op) = {op.ref}
  <2>1. PICK d : Effects(op) = {[ref |-> op.ref, does |-> d]}
    BY <1>2, OpFacts
  <2>2. [ref |-> op.ref, does |-> d].ref = op.ref
    OBVIOUS
  <2>3. \A e \in Effects(op) : e.ref = op.ref
    BY <2>1, <2>2
  <2>4. \E e \in Effects(op) : e.ref = op.ref
    BY <2>1, <2>2
  <2> QED BY <2>3, <2>4 DEF Refs
<1>3. ASSUME op.k = "call"
      PROVE  /\ \A r : r \in Refs(op) <=>
                  \E i \in DOMAIN op.args : op.args[i].dir # "in" /\ r = op.args[i].ref
             /\ \A i \in DOMAIN op.args : op.args[i].dir # "in" =>
                  [ref |-> op.args[i].ref, does |-> "write"] \in Effects(op)
  <2> DEFINE Of1(i) == {[ref |-> op.args[i].ref, does |-> d] :
                          d \in IF op.args[i].dir = "out" THEN {"write"} ELSE {"read", "write"}}
             Outs == {j \in DOMAIN op.args : op.args[j].dir # "in"}
  <2>1. Effects(op) = UNION {Of1(i) : i \in Outs}
    BY <1>3 DEF Effects
  <2>2. \A i \in Outs : [ref |-> op.args[i].ref, does |-> "write"] \in Of1(i)
    OBVIOUS
  <2>3. \A i \in Outs : \A e \in Of1(i) : e.ref = op.args[i].ref
    OBVIOUS
  <2>4. \A i \in Outs : [ref |-> op.args[i].ref, does |-> "write"] \in Effects(op)
    BY <2>1, <2>2
  <2>5. \A e \in Effects(op) : \E i \in Outs : e.ref = op.args[i].ref
    <3> HIDE DEF Of1
    <3> QED BY <2>1, <2>3
  <2>6. ASSUME NEW r PROVE r \in Refs(op) <=> \E i \in Outs : r = op.args[i].ref
    <3>1. ASSUME NEW i \in Outs, r = op.args[i].ref PROVE r \in Refs(op)
      <4>1. [ref |-> r, does |-> "write"] \in Effects(op)
        BY <2>4, <3>1
      <4> QED BY <4>1 DEF Refs
    <3>2. ASSUME r \in Refs(op) PROVE \E i \in Outs : r = op.args[i].ref
      BY <2>5, <3>2 DEF Refs
    <3> QED BY <3>1, <3>2
  <2> QED BY <2>4, <2>6
<1>4. Refs(op) \subseteq Reference
  BY <1>1, <1>2, <1>3, OpFacts
<1> QED BY <1>1, <1>2, <1>3, <1>4

\* Another reference in an operation leaves the rest of it.
LEMMA RenamedFacts ==
  ASSUME NEW op \in Operation, NEW t \in Temporary, NEW r \in Reference
  PROVE  LET new == Renamed(t, r, op)
         IN /\ new \in Operation /\ new.k = op.k /\ new.blk = op.blk
            /\ op.k \in {"variable", "symbol_ref"} => new = op
            /\ GivesValue(op) => new.res = op.res
            /\ op.k \in {"read", "assign"} => new.ref = Subst(t, r, op.ref)
            /\ op.k = "assign" => new.val = op.val
            /\ op.k = "call" =>
                 /\ DOMAIN new.args = DOMAIN op.args
                 /\ \A i \in DOMAIN op.args :
                      /\ new.args[i].dir = op.args[i].dir
                      /\ op.args[i].dir = "in" => new.args[i] = op.args[i]
                      /\ op.args[i].dir # "in" =>
                           new.args[i].ref = Subst(t, r, op.args[i].ref)
            /\ Values(new) = Values(op)
            /\ \A x \in Refs(new) : \E y \in Refs(op) : x = Subst(t, r, y)
<1> DEFINE new == Renamed(t, r, op)
<1>0. \A x \in Reference : Subst(t, r, x) \in Reference
  BY DEF Subst
<1>1. CASE op.k \in {"variable", "symbol_ref"}
  BY <1>1, RefsFacts DEF Renamed, GivesValue
<1>2. CASE op \in [k : {"read"}, ref : Reference, res : Value, slice : BOOLEAN, blk : Nat]
  <2>1. new = [op EXCEPT !.ref = Subst(t, r, op.ref)]
    BY <1>2 DEF Renamed
  <2>2. /\ new \in [k : {"read"}, ref : Reference, res : Value, slice : BOOLEAN, blk : Nat]
        /\ new.k = op.k /\ new.blk = op.blk /\ new.res = op.res
        /\ new.ref = Subst(t, r, op.ref)
    <3>1. Subst(t, r, op.ref) \in Reference
      BY <1>0, <1>2
    <3> QED BY <1>2, <2>1, <3>1
  <2>3. new \in Operation /\ op.k = "read"
    BY <1>2, <2>2 DEF Operation
  <2>4. Values(new) = Values(op) /\ Refs(new) = {new.ref} /\ Refs(op) = {op.ref}
    BY <2>2, <2>3, OpFacts, RefsFacts
  <2> QED BY <2>2, <2>3, <2>4
<1>3. CASE op \in [k : {"assign"}, ref : Reference, val : Value, slice : BOOLEAN, blk : Nat]
  <2>1. new = [op EXCEPT !.ref = Subst(t, r, op.ref)]
    BY <1>3 DEF Renamed
  <2>2. /\ new \in [k : {"assign"}, ref : Reference, val : Value, slice : BOOLEAN, blk : Nat]
        /\ new.k = op.k /\ new.blk = op.blk /\ new.val = op.val
        /\ new.ref = Subst(t, r, op.ref)
    <3>1. Subst(t, r, op.ref) \in Reference
      BY <1>0, <1>3
    <3> QED BY <1>3, <2>1, <3>1
  <2>3. new \in Operation /\ op.k = "assign"
    BY <1>3, <2>2 DEF Operation
  <2>4. Values(new) = Values(op) /\ Refs(new) = {new.ref} /\ Refs(op) = {op.ref}
    BY <2>2, <2>3, OpFacts, RefsFacts
  <2> QED BY <2>2, <2>3, <2>4 DEF GivesValue
<1>4. CASE op \in [k : {"call"}, callee : Callees, res : Value, blk : Nat,
                   args : UNION {[D -> InArg \cup OutArg] : D \in SUBSET Nat}]
  <2> DEFINE Arg(a) == RenamedArg(t, r, a)
             args == [i \in DOMAIN op.args |-> Arg(op.args[i])]
  <2>1. new = [op EXCEPT !.args = args] /\ op.k = "call"
    BY <1>4 DEF Renamed
  <2>2. PICK D \in SUBSET Nat : op.args \in [D -> InArg \cup OutArg]
    BY <1>4
  <2>3. ASSUME NEW a \in InArg \cup OutArg
        PROVE  /\ Arg(a) \in InArg \cup OutArg /\ Arg(a).dir = a.dir
               /\ a.dir = "in" => Arg(a) = a
               /\ a.dir # "in" => Arg(a).ref = Subst(t, r, a.ref)
    <3>1. CASE a \in InArg
      BY <3>1 DEF InArg, RenamedArg
    <3>2. CASE a \in OutArg
      <4>1. a.dir \in {"out", "inout"} /\ Subst(t, r, a.ref) \in Reference
        BY <3>2, <1>0 DEF OutArg
      <4>2. Arg(a) = [a EXCEPT !.ref = Subst(t, r, a.ref)]
        BY <4>1 DEF RenamedArg
      <4> QED BY <3>2, <4>1, <4>2 DEF OutArg
    <3> QED BY <3>1, <3>2
  <2>4. args \in [D -> InArg \cup OutArg] /\ DOMAIN args = DOMAIN op.args
    BY <2>2, <2>3
  <2>5. args \in UNION {[E -> InArg \cup OutArg] : E \in SUBSET Nat}
    BY <2>4
  <2>6. /\ new \in [k : {"call"}, callee : Callees, res : Value, blk : Nat,
                    args : UNION {[E -> InArg \cup OutArg] : E \in SUBSET Nat}]
        /\ new.k = op.k /\ new.blk = op.blk /\ new.res = op.res /\ new.args = args
    <3> HIDE DEF args
    <3> QED BY <1>4, <2>1, <2>5
  <2>7. new \in Operation
    BY <2>6 DEF Operation
  <2>8. \A i \in DOMAIN op.args :
          /\ new.args[i].dir = op.args[i].dir
          /\ op.args[i].dir = "in" => new.args[i] = op.args[i]
          /\ op.args[i].dir # "in" => new.args[i].ref = Subst(t, r, op.args[i].ref)
    <3> HIDE DEF Arg
    <3> QED BY <2>2, <2>3, <2>6
  <2>9. Values(new) = Values(op)
    <3>1. /\ Values(op) = {op.args[i].val : i \in {j \in DOMAIN op.args : op.args[j].dir = "in"}}
          /\ Values(new) = {new.args[i].val : i \in {j \in DOMAIN new.args : new.args[j].dir = "in"}}
      BY <2>1, <2>6, <2>7, OpFacts
    <3>2. DOMAIN new.args = DOMAIN op.args
      BY <2>4, <2>6
    <3> HIDE DEF new, args
    <3> QED BY <3>1, <3>2, <2>8
  <2>10. \A x \in Refs(new) : \E y \in Refs(op) : x = Subst(t, r, y)
    <3>1. DOMAIN new.args = DOMAIN op.args /\ new.k = "call"
      BY <2>1, <2>4, <2>6
    <3>2. ASSUME NEW x \in Refs(new) PROVE \E y \in Refs(op) : x = Subst(t, r, y)
      <4>1. PICK i \in DOMAIN op.args : new.args[i].dir # "in" /\ x = new.args[i].ref
        BY <3>1, <3>2, <2>7, RefsFacts
      <4>2. op.args[i].dir # "in" /\ x = Subst(t, r, op.args[i].ref)
        BY <4>1, <2>8
      <4>3. op.args[i].ref \in Refs(op)
        BY <2>1, <4>2, RefsFacts
      <4> QED BY <4>2, <4>3
    <3> QED BY <3>2
  <2> QED BY <2>1, <2>4, <2>6, <2>7, <2>8, <2>9, <2>10
<1> QED BY <1>1, <1>2, <1>3, <1>4 DEF Operation

-----------------------------------------------------------------------------
(* Replacing a temporary *)

Available(r, i) ==
  /\ r.def # <<>> => \E j \in 1..i - 1 : GivesName(code[j]) /\ code[j].res = r.def
  /\ r.root \notin Variable => \E j \in 1..i - 1 : GivesName(code[j]) /\ code[j].res = r.root

\* What the patterns establish of the temporary t of the variable operation v
\* before they put r for it in w, and drop all its other uses.
CanReplace(v, t, r, w, drop) ==
  /\ v \in Of("variable") /\ t = code[v].res
  /\ r \in Reference /\ r.root # t
  /\ w \in DOMAIN code /\ w \notin drop /\ UsersOf(t) \subseteq drop \cup {w}
  /\ \A i \in drop : i # v => code[i].k \in {"read", "assign"}
  /\ \A i \in drop : code[i].k = "read" => UsesOf(code[i].res) \subseteq drop
  /\ \A e \in Effects(code[w]) : e.ref.root = t \/ ~MayAlias(r, e.ref)
  /\ Available(r, w)
  /\ TypeOf(Whole(t)) = TypeOf(r)

\* A step of a pattern at v.
Replaces(v, t, r, w, drop) ==
  /\ CanReplace(v, t, r, w, drop)
  /\ code' = Replaced(t, r, drop) /\ phase' = phase

LEMMA CodeFacts ==
  ASSUME code \in Seq(Operation)
  PROVE  /\ Len(code) \in Nat /\ DOMAIN code = 1..Len(code)
         /\ \A i \in DOMAIN code : code[i] \in Operation /\ i \in Nat
OBVIOUS

\* Operation p of the new code is operation At(p, drop) of the old one.
At(p, drop) == Kept(drop)[p]

LEMMA NewCode ==
  ASSUME IInv, NEW v, NEW t, NEW r, NEW w, NEW drop, Replaces(v, t, r, w, drop)
  PROVE  /\ t \in Temporary /\ r \in Reference /\ code' \in Seq(Operation)
         /\ \A p \in DOMAIN code' :
              /\ At(p, drop) \in DOMAIN code /\ At(p, drop) \notin drop /\ p \in Nat
              /\ code'[p] = Renamed(t, r, code[At(p, drop)])
              /\ code[At(p, drop)] \in Operation /\ code'[p] \in Operation
         /\ \A p, q \in DOMAIN code' : At(p, drop) < At(q, drop) => p < q
         /\ \A p, q \in DOMAIN code' : At(p, drop) = At(q, drop) => p = q
         /\ \A n \in DOMAIN code : n \notin drop => \E p \in DOMAIN code' : At(p, drop) = n
<1> DEFINE K == Kept(drop)
<1>1. /\ Len(code) \in Nat /\ DOMAIN code = 1..Len(code)
      /\ \A i \in DOMAIN code : code[i] \in Operation /\ i \in Nat
  BY CodeFacts DEF IInv
<1>2. t \in Temporary /\ r \in Reference
  BY <1>1, OpFacts DEF Replaces, CanReplace, Of
<1>3. PICK L \in Nat : DOMAIN K = 1..L
  BY <1>1, KeptFacts
<1>4. /\ \A p \in 1..L : K[p] \in DOMAIN code /\ K[p] \notin drop
      /\ \A p, q \in 1..L : p < q => K[p] < K[q]
      /\ \A p, q \in 1..L : K[p] < K[q] => p < q
      /\ \A n \in (DOMAIN code) \ drop : \E p \in 1..L : K[p] = n
  BY <1>1, <1>3, KeptFacts
<1>5. code' = [p \in 1..L |-> Renamed(t, r, code[K[p]])]
  BY <1>3 DEF Replaces, Replaced
<1>6. \A p \in 1..L : Renamed(t, r, code[K[p]]) \in Operation
  BY <1>1, <1>2, <1>4, RenamedFacts
<1>7. code' \in Seq(Operation)
  BY <1>5, <1>6
<1>8. \A p, q \in 1..L : K[p] = K[q] => p = q
  <2> SUFFICES ASSUME NEW p \in 1..L, NEW q \in 1..L, K[p] = K[q] PROVE p = q
    OBVIOUS
  <2>1. K[p] \in Nat /\ K[q] \in Nat
    BY <1>1, <1>4
  <2>2. ~(p < q) /\ ~(q < p)
    BY <1>4, <2>1
  <2> QED BY <2>2
<1> QED BY <1>1, <1>2, <1>4, <1>5, <1>6, <1>7, <1>8 DEF At

LEMMA OnceStep ==
  ASSUME IInv, NEW v, NEW t, NEW r, NEW w, NEW drop, Replaces(v, t, r, w, drop)
  PROVE  Once'
<1> SUFFICES ASSUME NEW p \in DOMAIN code', NEW q \in DOMAIN code',
                    GivesValue(code'[p]), GivesValue(code'[q]), code'[p].res = code'[q].res
             PROVE  p = q
  BY DEF Once, GivesValue
<1>1. \A n \in {p, q} :
        /\ At(n, drop) \in DOMAIN code
        /\ GivesValue(code[At(n, drop)]) /\ code'[n].res = code[At(n, drop)].res
  BY NewCode, RenamedFacts DEF GivesValue
<1>2. At(p, drop) = At(q, drop)
  BY <1>1 DEF IInv, Once
<1> QED BY <1>2, NewCode

\* Two references of one call.
Apart(a, b) ==
  a.root # b.root \/ (a.root \in Variable /\ Cells(a) \cap Cells(b) = {})

LEMMA NoAliasedStep ==
  ASSUME IInv, NEW v, NEW t, NEW r, NEW w, NEW drop, Replaces(v, t, r, w, drop)
  PROVE  NoAliasedArguments'
<1>1. SUFFICES ASSUME NEW p \in DOMAIN code', code'[p].k = "call",
                      NEW i \in DOMAIN code'[p].args, NEW j \in DOMAIN code'[p].args,
                      i # j, code'[p].args[i].dir # "in", code'[p].args[j].dir # "in"
               PROVE  Apart(code'[p].args[i].ref, code'[p].args[j].ref)
  BY DEF NoAliasedArguments, Apart, Of, Cells
<1> DEFINE n == At(p, drop)
           a == code[n].args[i].ref
           b == code[n].args[j].ref
<1>2. /\ n \in DOMAIN code /\ n \notin drop /\ code[n] \in Operation
      /\ t \in Temporary /\ r \in Reference /\ code'[p] = Renamed(t, r, code[n])
  BY NewCode
<1>3. /\ code[n].k = "call" /\ i \in DOMAIN code[n].args /\ j \in DOMAIN code[n].args
      /\ code[n].args[i].dir # "in" /\ code[n].args[j].dir # "in"
      /\ code'[p].args[i].ref = Subst(t, r, a) /\ code'[p].args[j].ref = Subst(t, r, b)
  BY <1>1, <1>2, RenamedFacts
<1>4. Apart(a, b)
  BY <1>1, <1>2, <1>3 DEF IInv, NoAliasedArguments, Of, Apart
<1>5. a \in Refs(code[n]) /\ b \in Refs(code[n])
  BY <1>2, <1>3, RefsFacts
<1>6. \A c \in {a, b} :
        c.root # t /\ (a.root = t \/ b.root = t) => ~MayAlias(r, c)
  <2> SUFFICES ASSUME NEW c \in {a, b}, c.root # t, a.root = t \/ b.root = t
               PROVE  ~MayAlias(r, c)
    OBVIOUS
  <2>1. n \in UsersOf(t)
    BY <1>2, <1>5 DEF UsersOf
  <2>2. n = w
    BY <1>2, <2>1 DEF Replaces, CanReplace
  <2>3. [ref |-> c, does |-> "write"] \in Effects(code[w])
    BY <1>2, <1>3, <2>2, RefsFacts
  <2>4. [ref |-> c, does |-> "write"].ref = c
    OBVIOUS
  <2> QED BY <2>3, <2>4 DEF Replaces, CanReplace
<1>7. t \notin Variable
  BY <1>2, Names
<1>8. CASE a.root = t /\ b.root = t
  BY <1>4, <1>7, <1>8 DEF Apart
<1>9. CASE a.root = t /\ b.root # t
  BY <1>3, <1>6, <1>9 DEF Apart, Subst, MayAlias
<1>10. CASE a.root # t /\ b.root = t
  BY <1>3, <1>6, <1>10 DEF Apart, Subst, MayAlias
<1>11. CASE a.root # t /\ b.root # t
  BY <1>3, <1>4, <1>11 DEF Subst
<1> QED BY <1>8, <1>9, <1>10, <1>11

LEMMA DefinedStep ==
  ASSUME IInv, NEW v, NEW t, NEW r, NEW w, NEW drop, Replaces(v, t, r, w, drop)
  PROVE  DefinedBeforeUse'
<1>1. ASSUME NEW p \in DOMAIN code', NEW x \in Values(code'[p])
      PROVE  \E q \in 1..p - 1 : code'[q].k \in {"read", "call"} /\ code'[q].res = x
  <2> DEFINE n == At(p, drop)
  <2>1. /\ n \in DOMAIN code /\ n \notin drop /\ code[n] \in Operation /\ p \in Nat
        /\ x \in Values(code[n])
    BY <1>1, NewCode, RenamedFacts
  <2>2. PICK j \in 1..n - 1 : code[j].k \in {"read", "call"} /\ code[j].res = x
    BY <2>1 DEF IInv, DefinedBeforeUse
  <2>3. j \in DOMAIN code /\ j < n /\ code[j] \in Operation
    BY <2>1, <2>2, CodeFacts DEF IInv
  <2>4. j \notin drop
    <3>1. ASSUME j \in drop PROVE FALSE
      <4>1. j # v
        BY <2>2 DEF Replaces, CanReplace, Of
      <4>2. code[j].k = "read"
        BY <2>2, <3>1, <4>1 DEF Replaces, CanReplace
      <4>3. n \in UsesOf(code[j].res)
        BY <2>1, <2>2 DEF UsesOf
      <4> QED BY <2>1, <3>1, <4>2, <4>3 DEF Replaces, CanReplace
    <3> QED BY <3>1
  <2>5. PICK q \in DOMAIN code' : At(q, drop) = j
    BY <2>3, <2>4, NewCode
  <2>6. q < p /\ q \in Nat /\ q \in 1..p - 1
    <3>1. q < p /\ q \in Nat /\ code' \in Seq(Operation)
      BY <1>1, <2>3, <2>5, NewCode
    <3> QED BY <3>1, <2>1
  <2>7. code'[q].k = code[j].k /\ code'[q].res = code[j].res
    BY <2>2, <2>5, NewCode, RenamedFacts DEF GivesValue
  <2> QED BY <2>2, <2>6, <2>7
<1>2. ASSUME NEW n \in DOMAIN code, n \notin drop, NEW p \in DOMAIN code', At(p, drop) = n,
             NEW j \in 1..n - 1, GivesName(code[j]), code[j].res # t
      PROVE  \E q \in 1..p - 1 : GivesName(code'[q]) /\ code'[q].res = code[j].res
  <2>1. j \in DOMAIN code /\ j < n
    BY CodeFacts DEF IInv
  <2>2. j \notin drop
    BY <1>2 DEF Replaces, CanReplace, GivesName
  <2>3. PICK q \in DOMAIN code' : At(q, drop) = j
    BY <2>1, <2>2, NewCode
  <2>4. q < p /\ q \in Nat /\ p \in Nat /\ code' \in Seq(Operation)
    BY <1>2, <2>1, <2>3, NewCode
  <2>5. q \in 1..p - 1
    BY <2>4
  <2>6. code'[q] = code[j]
    BY <1>2, <2>3, NewCode, RenamedFacts DEF GivesName
  <2> QED BY <1>2, <2>5, <2>6
<1>3. ASSUME NEW p \in DOMAIN code', NEW x \in Refs(code'[p])
      PROVE  /\ x.def = <<>> \/ \E q \in 1..p - 1 : GivesName(code'[q]) /\ code'[q].res = x.def
             /\ x.root \in Variable
                  \/ \E q \in 1..p - 1 : GivesName(code'[q]) /\ code'[q].res = x.root
  <2> DEFINE n == At(p, drop)
  <2>1. /\ n \in DOMAIN code /\ n \notin drop /\ code[n] \in Operation /\ p \in Nat
        /\ t \in Temporary /\ r \in Reference
    BY <1>3, NewCode
  <2>2. PICK y \in Refs(code[n]) : x = Subst(t, r, y)
    BY <1>3, NewCode, RenamedFacts
  <2>3. CASE y.root = t
    <3>1. n = w /\ x = r
      BY <2>1, <2>2, <2>3 DEF Replaces, CanReplace, UsersOf, Subst
    <3>2. Available(r, n) /\ r.root # t /\ r.def # t
      BY <2>1, <3>1, ReferenceFacts, Names DEF Replaces, CanReplace
    <3> QED BY <2>1, <3>1, <3>2, <1>2 DEF Available
  <2>4. CASE y.root # t
    <3>1. x = y /\ y \in Reference
      BY <2>1, <2>2, <2>4, RefsFacts DEF Subst
    <3>2. /\ y.def = <<>> \/ \E j \in 1..n - 1 : GivesName(code[j]) /\ code[j].res = y.def
          /\ y.root \in Variable
               \/ \E j \in 1..n - 1 : GivesName(code[j]) /\ code[j].res = y.root
      BY <2>1, <2>2 DEF IInv, DefinedBeforeUse, GivesName
    <3>3. y.def # t
      BY <2>1, <3>1, ReferenceFacts, Names
    <3> QED BY <2>1, <2>4, <3>1, <3>2, <3>3, <1>2
  <2> QED BY <2>3, <2>4
<1> QED BY <1>1, <1>3 DEF DefinedBeforeUse, GivesName

\* The types of the references that stay are the same in the new code.
FieldsAt(root) == {code[i].fields : i \in {j \in Of("variable") : code[j].res = root}}

LEMMA FieldsSame ==
  ASSUME IInv, NEW v, NEW t, NEW r, NEW w, NEW drop, Replaces(v, t, r, w, drop),
         NEW x, x # t
  PROVE  FieldsAt(x)' = FieldsAt(x)
<1>1. ASSUME NEW i \in DOMAIN code, code[i].k = "variable", code[i].res = x
      PROVE  \E p \in DOMAIN code' : code'[p] = code[i]
  <2>1. i \notin drop
    BY <1>1 DEF Replaces, CanReplace
  <2>2. PICK p \in DOMAIN code' : At(p, drop) = i
    BY <2>1, NewCode
  <2> QED BY <1>1, <2>2, NewCode, RenamedFacts
<1>2. ASSUME NEW p \in DOMAIN code', code'[p].k = "variable"
      PROVE  \E i \in DOMAIN code : code'[p] = code[i]
  BY <1>2, NewCode, RenamedFacts
<1>3. \A f : f \in FieldsAt(x) <=>
        \E i \in DOMAIN code : code[i].k = "variable" /\ code[i].res = x /\ f = code[i].fields
  BY DEF FieldsAt, Of
<1>4. \A f : f \in FieldsAt(x)' <=>
        \E p \in DOMAIN code' :
          code'[p].k = "variable" /\ code'[p].res = x /\ f = code'[p].fields
  BY DEF FieldsAt, Of
<1>5. ASSUME NEW f \in FieldsAt(x) PROVE f \in FieldsAt(x)'
  BY <1>1, <1>3, <1>4
<1>6. ASSUME NEW f \in FieldsAt(x)' PROVE f \in FieldsAt(x)
  BY <1>2, <1>3, <1>4
<1> QED BY <1>5, <1>6

LEMMA TypeOfSame ==
  ASSUME IInv, NEW v, NEW t, NEW r, NEW w, NEW drop, Replaces(v, t, r, w, drop),
         NEW x, x.root # t
  PROVE  TypeOf(x)' = TypeOf(x)
<1>1. PICK root : root = x.root
  OBVIOUS
<1>2. FieldsAt(root)' = FieldsAt(root)
  BY <1>1, FieldsSame
<1>3. TypeOf(x) = IF x.field # "all" THEN {"v"}
                  ELSE IF root \in Variable THEN Fields[root] ELSE UNION FieldsAt(root)
  BY <1>1 DEF TypeOf, FieldsAt
<1>4. TypeOf(x)' = IF x.field # "all" THEN {"v"}
                   ELSE IF root \in Variable THEN Fields[root] ELSE UNION (FieldsAt(root)')
  BY <1>1 DEF TypeOf, FieldsAt
<1> QED BY <1>2, <1>3, <1>4

LEMMA TypeStep ==
  ASSUME IInv, NEW v, NEW t, NEW r, NEW w, NEW drop, Replaces(v, t, r, w, drop)
  PROVE  TypeOK'
<1>1. phase' \in {"rewrite", "done"}
  BY DEF Replaces, IInv, TypeOK
<1>2. \A p \in DOMAIN code' : code'[p].k \in {"variable", "symbol_ref", "read", "assign", "call"}
  BY NewCode, OpFacts
<1>3. ASSUME NEW y \in Reference, NEW z, z = Subst(t, r, y) PROVE TypeOf(z)' = TypeOf(y)
  <2>0. r.root # t /\ TypeOf(Whole(t)) = TypeOf(r) /\ t \in Temporary
    BY NewCode DEF Replaces, CanReplace
  <2>1. CASE y.root = t
    <3>1. y = Whole(t)
      BY <2>0, <2>1, ReferenceFacts, Names
    <3>2. TypeOf(r)' = TypeOf(r)
      BY <2>0, TypeOfSame
    <3>3. z = r
      BY <1>3, <2>1 DEF Subst
    <3> QED BY <2>0, <3>1, <3>2, <3>3
  <2>2. CASE y.root # t
    BY <1>3, <2>2, TypeOfSame DEF Subst
  <2> QED BY <2>1, <2>2
<1>4. ASSUME NEW p \in DOMAIN code', NEW q \in DOMAIN code', NEW x, NEW z,
             code'[p].k = "read", code'[q].k = "assign", code'[p].res = code'[q].val,
             x = code'[p].ref, z = code'[q].ref
      PROVE  TypeOf(x)' = TypeOf(z)'
  <2> DEFINE m == At(p, drop)
             n == At(q, drop)
  <2>1. /\ m \in DOMAIN code /\ n \in DOMAIN code
        /\ code[m] \in Operation /\ code[n] \in Operation
        /\ t \in Temporary /\ r \in Reference
        /\ code'[p] = Renamed(t, r, code[m]) /\ code'[q] = Renamed(t, r, code[n])
    BY NewCode
  <2>2. /\ code[m].k = "read" /\ code[n].k = "assign" /\ code[m].res = code[n].val
        /\ x = Subst(t, r, code[m].ref)
        /\ z = Subst(t, r, code[n].ref)
    BY <1>4, <2>1, RenamedFacts DEF GivesValue
  <2>3. PICK y, u : y = code[m].ref /\ u = code[n].ref
    OBVIOUS
  <2>4. y \in Reference /\ u \in Reference
    BY <2>1, <2>2, <2>3, OpFacts
  <2>5. TypeOf(y) = TypeOf(u)
    BY <2>1, <2>2, <2>3 DEF IInv, TypeOK, Of
  <2>6. TypeOf(x)' = TypeOf(y) /\ TypeOf(z)' = TypeOf(u)
    BY <1>3, <2>2, <2>3, <2>4
  <2> QED BY <2>5, <2>6
<1>5. ASSUME NEW p \in DOMAIN code', NEW q \in DOMAIN code', 
             code'[p].k = "read", code'[q].k = "assign", code'[p].res = code'[q].val
      PROVE  (TypeOf(code[p].ref) = TypeOf(code[q].ref))'
  <2>1. PICK x, z : x = code'[p].ref /\ z = code'[q].ref
    OBVIOUS
  <2>2. TypeOf(x)' = TypeOf(z)'
    BY <1>4, <1>5, <2>1
  <2> QED BY <2>1, <2>2 DEF TypeOf
<1> QED BY <1>1, <1>2, <1>5 DEF TypeOK, Of

-----------------------------------------------------------------------------
(* The patterns *)

LEMMA MinMax ==
  ASSUME NEW L \in Nat, NEW S \in SUBSET (1..L), S # {}
  PROVE  /\ IsFiniteSet(S) /\ Min(S) \in S /\ Max(S) \in S
         /\ \A n \in S : Min(S) <= n /\ n <= Max(S)
<1>1. \E n \in S : \A m \in S : n <= m
  BY Least
<1>2. \E n \in S : \A m \in S : n >= m
  <2> DEFINE T == {n \in 0..L : \A m \in S : n >= m}
  <2>1. L \in T /\ T \in SUBSET Nat
    OBVIOUS
  <2>2. PICK n \in T : \A m \in T : n <= m
    BY <2>1, Least
  <2>3. n # 0
    <3>1. PICK m \in S : n >= m
      OBVIOUS
    <3>2. m >= 1
      OBVIOUS
    <3> QED BY <3>1, <3>2
  <2>4. PICK m \in Nat : n = m + 1 /\ m \notin T /\ m \in 0..L
    <3>1. n - 1 \in Nat /\ n = (n - 1) + 1 /\ n - 1 \in 0..L /\ ~(n <= n - 1)
      BY <2>2, <2>3
    <3> QED BY <3>1, <2>2
  <2>5. PICK k \in S : ~(m >= k)
    BY <2>4
  <2>6. n >= k
    BY <2>2, <2>5
  <2>7. k = n
    BY <2>4, <2>5, <2>6
  <2> QED BY <2>2, <2>5, <2>7
<1>3. Min(S) \in S /\ \A n \in S : Min(S) <= n
  BY <1>1 DEF Min
<1>4. Max(S) \in S /\ \A n \in S : Max(S) >= n
  BY <1>2 DEF Max
<1>5. IsFiniteSet(S)
  <2>1. IsFiniteSet(1..L)
    <3>1. 1 \in Int /\ L \in Int
      OBVIOUS
    <3> QED BY <3>1, FS_Interval
  <2> QED BY <2>1, FS_Subset
<1>6. \A n \in S : n <= Max(S)
  BY <1>4
<1> QED BY <1>3, <1>4, <1>5, <1>6

\* Two users, or three: the first, the last, and at most one between them.
LEMMA Users ==
  ASSUME NEW L \in Nat, NEW S \in SUBSET (1..L), Cardinality(S) \in {2, 3}
  PROVE  /\ Min(S) \in S /\ Max(S) \in S /\ Min(S) < Max(S)
         /\ Cardinality(S) = 2 => S = {Min(S), Max(S)}
         /\ Cardinality(S) = 3 => \A w \in S \ {Min(S), Max(S)} :
              S = {Min(S), w, Max(S)} /\ Min(S) < w /\ w < Max(S)
<1> DEFINE a == Min(S)
           b == Max(S)
<1>1. S # {}
  BY FS_EmptySet
<1>2. /\ IsFiniteSet(S) /\ a \in S /\ b \in S
      /\ \A n \in S : a <= n /\ n <= b
  BY <1>1, MinMax
<1> HIDE DEF a, b
<1>3. a # b
  <2>1. ASSUME a = b PROVE FALSE
    <3>1. \A n \in S : n = a
      <4> SUFFICES ASSUME NEW n \in S PROVE n = a
        OBVIOUS
      <4>1. n \in Nat /\ a \in Nat /\ a <= n /\ n <= a
        BY <1>2, <2>1
      <4> QED BY <4>1
    <3>2. S = {a}
      BY <1>2, <3>1
    <3>3. Cardinality(S) = 1
      BY <3>2, FS_Singleton
    <3> QED BY <3>3
  <2> QED BY <2>1
<1>4. IsFiniteSet({a, b}) /\ Cardinality({a, b}) = 2
  <2>1. {a, b} = {a} \cup {b}
    OBVIOUS
  <2>2. IsFiniteSet({a}) /\ Cardinality({a}) = 1
    BY FS_Singleton
  <2>3. IsFiniteSet({a} \cup {b}) /\ Cardinality({a} \cup {b}) = 2
    BY <1>3, <2>2, FS_AddElement
  <2> QED BY <2>1, <2>3
<1>5. ASSUME Cardinality(S) = 2 PROVE S = {a, b}
  <2>1. {a, b} \in SUBSET S
    BY <1>2
  <2> QED BY <1>2, <1>4, <1>5, <2>1, FS_Subset
<1>6. ASSUME Cardinality(S) = 3, NEW w \in S \ {a, b} PROVE S = {a, w, b} /\ a < w /\ w < b
  <2>1. {a, b} \cup {w} \in SUBSET S
    BY <1>2
  <2>2. Cardinality({a, b} \cup {w}) = 3
    <3>1. Cardinality({a, b} \cup {w}) = Cardinality({a, b}) + 1
      BY <1>4, FS_AddElement
    <3> QED BY <3>1, <1>4
  <2>3. S = {a, b} \cup {w}
    BY <1>2, <1>6, <2>1, <2>2, FS_Subset
  <2>4. a \in Nat /\ b \in Nat /\ w \in Nat /\ a <= w /\ w <= b /\ a # w /\ w # b
    BY <1>2
  <2> QED BY <2>3, <2>4
<1>7. a < b
  <2>1. a \in Nat /\ b \in Nat /\ a <= b
    BY <1>2
  <2> QED BY <2>1, <1>3
<1> QED BY <1>2, <1>5, <1>6, <1>7 DEF a, b

\* What the operation j that copies what i read has to do with it.
LEMMA Copied ==
  ASSUME IInv, NEW i \in DOMAIN code, NEW j, Copies(i, j)
  PROVE  /\ code[i].k = "read" /\ code[j].k = "assign" /\ j \in DOMAIN code /\ i < j
         /\ code[i].ref \in Reference /\ code[j].ref \in Reference
         /\ Refs(code[i]) = {code[i].ref} /\ Refs(code[j]) = {code[j].ref}
         /\ UsesOf(code[i].res) = {j}
         /\ TypeOf(code[i].ref) = TypeOf(code[j].ref)
<1>1. code[i].k = "read" /\ code[j].k = "assign" /\ UsesOf(code[i].res) = {j}
  BY DEF Copies, OnlyUse
<1>2. j \in DOMAIN code /\ code[i].res \in Values(code[j])
  BY <1>1 DEF UsesOf
<1>3. code[i] \in Operation /\ code[j] \in Operation /\ i \in Nat /\ j \in Nat
  BY <1>2, CodeFacts DEF IInv
<1>4. code[j].val = code[i].res /\ code[i].ref \in Reference /\ code[j].ref \in Reference
  BY <1>1, <1>2, <1>3, OpFacts
<1>5. i < j
  <2>1. PICK n \in 1..j - 1 : code[n].k \in {"read", "call"} /\ code[n].res = code[i].res
    BY <1>2 DEF IInv, DefinedBeforeUse
  <2>2. n \in DOMAIN code /\ n < j
    BY <1>2, <1>3, <2>1, CodeFacts DEF IInv
  <2>3. n = i
    BY <1>1, <2>1, <2>2 DEF IInv, Once, GivesValue
  <2> QED BY <2>2, <2>3
<1>6. TypeOf(code[i].ref) = TypeOf(code[j].ref)
  BY <1>1, <1>2, <1>4 DEF IInv, TypeOK, Of
<1>7. Refs(code[i]) = {code[i].ref} /\ Refs(code[j]) = {code[j].ref}
  BY <1>1, <1>3, RefsFacts
<1> QED BY <1>1, <1>2, <1>4, <1>5, <1>6, <1>7

\* A user of a temporary that reads or assigns refers to the whole of it.
LEMMA UserFacts ==
  ASSUME IInv, NEW t \in Temporary
  PROVE  /\ UsersOf(t) \in SUBSET (1..Len(code))
         /\ \A i \in UsersOf(t) :
              /\ code[i].k \in {"read", "assign", "call"}
              /\ code[i].k \in {"read", "assign"} => code[i].ref = Whole(t)
<1>1. /\ Len(code) \in Nat /\ DOMAIN code = 1..Len(code)
      /\ \A i \in DOMAIN code : code[i] \in Operation /\ i \in Nat
  BY CodeFacts DEF IInv
<1>2. ASSUME NEW i \in UsersOf(t)
      PROVE  /\ code[i].k \in {"read", "assign", "call"}
             /\ code[i].k \in {"read", "assign"} => code[i].ref = Whole(t)
  <2>1. i \in DOMAIN code /\ code[i] \in Operation
    BY <1>1 DEF UsersOf
  <2>2. PICK r \in Refs(code[i]) : r.root = t
    BY DEF UsersOf
  <2>3. code[i].k \in {"read", "assign", "call"}
    BY <2>1, <2>2, RefsFacts, OpFacts
  <2>4. r \in Reference /\ r = Whole(t)
    BY <2>1, <2>2, RefsFacts, ReferenceFacts, Names
  <2> QED BY <2>1, <2>2, <2>3, <2>4, RefsFacts
<1> QED BY <1>1, <1>2 DEF UsersOf

LEMMA CopyOutReplaces ==
  ASSUME IInv, NEW v \in Of("variable"), NEW m \in CopyOuts(v)
  PROVE  \E w : CanReplace(v, code[v].res, m.aliasee, w, m.drop)
<1>1. PICK t : t = code[v].res
  OBVIOUS
<1>2. PICK S : S = UsersOf(t)
  OBVIOUS
<1>3. PICK w, r : w = Min(S) /\ r = Max(S)
  OBVIOUS
<1>4. /\ Cardinality(S) = 2
      /\ \E x \in DOMAIN code :
           /\ m = [aliasee |-> code[x].ref, drop |-> {v, x, r}]
           /\ Copies(r, x) /\ Dominates(code[x].ref, w)
           /\ OperandsAllow(w, t, code[x].ref, {"write"})
  BY <1>1, <1>2, <1>3 DEF CopyOuts
<1>5. PICK x \in DOMAIN code :
        /\ m = [aliasee |-> code[x].ref, drop |-> {v, x, r}]
        /\ Copies(r, x) /\ Dominates(code[x].ref, w)
        /\ OperandsAllow(w, t, code[x].ref, {"write"})
  BY <1>4
<1>6. PICK a : a = code[x].ref
  OBVIOUS
<1>7. m.aliasee = a /\ m.drop = {v, x, r}
  BY <1>5, <1>6
<1>8. /\ v \in DOMAIN code /\ code[v].k = "variable" /\ code[v] \in Operation
      /\ Len(code) \in Nat /\ DOMAIN code = 1..Len(code) /\ t \in Temporary
  BY <1>1, CodeFacts, OpFacts DEF IInv, Of
<1>9. w \in S /\ r \in S /\ w < r /\ S = {w, r} /\ S \in SUBSET (1..Len(code))
  <2>1. S \in SUBSET (1..Len(code))
    BY <1>2, <1>8, UserFacts
  <2> QED BY <1>3, <1>4, <1>8, <2>1, Users
<1>10. /\ code[r].k = "read" /\ code[x].k = "assign" /\ r < x /\ a \in Reference
       /\ UsesOf(code[r].res) = {x} /\ TypeOf(code[r].ref) = TypeOf(a)
       /\ Refs(code[x]) = {a}
  BY <1>5, <1>6, <1>8, <1>9, Copied
<1>11. w \in Nat /\ r \in Nat /\ x \in Nat
  BY <1>8, <1>9
<1>12. w \notin {v, x, r}
  <2>1. code[w].k # "variable"
    BY <1>2, <1>8, <1>9, UserFacts
  <2> QED BY <2>1, <1>8, <1>9, <1>10, <1>11
<1>13. a.root # t
  <2>1. ASSUME a.root = t PROVE FALSE
    <3>1. x \in S
      BY <1>2, <1>5, <1>10, <2>1 DEF UsersOf
    <3> QED BY <3>1, <1>9, <1>10, <1>11
  <2> QED BY <2>1
<1>14. TypeOf(Whole(t)) = TypeOf(a)
  <2>1. code[r].ref = Whole(t)
    BY <1>2, <1>8, <1>9, <1>10, UserFacts
  <2>2. PICK y : y = code[r].ref
    OBVIOUS
  <2> QED BY <2>1, <1>10
<1>15. Available(a, w)
  <2>1. \A j \in Of("variable") : j < w => j \in 1..w - 1 /\ GivesName(code[j])
    BY <1>8, <1>11 DEF Of, GivesName
  <2>2. /\ a.def # <<>> => \E j \in 1..w - 1 : code[j].k = "symbol_ref" /\ code[j].res = a.def
        /\ a.root \notin Variable => \E j \in Of("variable") : j < w /\ code[j].res = a.root
    BY <1>5, <1>6 DEF Dominates
  <2> QED BY <2>1, <2>2 DEF Available, GivesName
<1>16. \A e \in Effects(code[w]) : e.ref.root = t \/ ~MayAlias(a, e.ref)
  BY <1>5, <1>6 DEF OperandsAllow
<1>17. CanReplace(v, t, a, w, {v, x, r})
  <2>1. UsersOf(t) \subseteq {v, x, r} \cup {w}
    BY <1>2, <1>9
  <2>2. \A i \in {v, x, r} : i # v => code[i].k \in {"read", "assign"}
    BY <1>10
  <2>3. \A i \in {v, x, r} : code[i].k = "read" => UsesOf(code[i].res) \subseteq {v, x, r}
    BY <1>8, <1>10
  <2>4. w \in DOMAIN code
    BY <1>8, <1>9
  <2> QED BY <2>1, <2>2, <2>3, <2>4, <1>1, <1>10, <1>12, <1>13, <1>14, <1>15, <1>16
          DEF CanReplace
<1> QED BY <1>1, <1>7, <1>17

LEMMA CopyInOutReplaces ==
  ASSUME IInv, NEW v \in Of("variable"), NEW m \in CopyInOuts(v)
  PROVE  \E w : CanReplace(v, code[v].res, m.aliasee, w, m.drop)
<1>1. PICK t : t = code[v].res
  OBVIOUS
<1>2. PICK S : S = UsersOf(t)
  OBVIOUS
<1>3. PICK in, r : in = Min(S) /\ r = Max(S)
  OBVIOUS
<1>4. /\ Cardinality(S) = 3
      /\ \E w \in S \ {in, r} : \E x \in DOMAIN code : \E r0 \in DOMAIN code :
           /\ m = [aliasee |-> code[x].ref, drop |-> {v, x, in, r, r0}]
           /\ Copies(r, x) /\ Copies(r0, in) /\ code[r0].ref = code[x].ref
           /\ OperandsAllow(w, t, code[x].ref, {"read", "write"})
  <2> DEFINE Good(w, x, r0) ==
        LET aliasee == code[x].ref
        IN /\ Copies(r, x)
           /\ Copies(r0, in) /\ code[in].ref.root = t
           /\ code[r0].ref = aliasee
           /\ OperandsAllow(w, t, aliasee, {"read", "write"})
           /\ NoIntervening(w, x, aliasee, {"read", "write"})
           /\ NoIntervening(r0, w, aliasee, {"write"})
      T == {n \in (S \ {in, r}) \X (DOMAIN code) \X (DOMAIN code) : Good(n[1], n[2], n[3])}
  <2>1. /\ Cardinality(S) = 3
        /\ m \in {[aliasee |-> code[n[2]].ref, drop |-> {v, n[2], in, r, n[3]}] : n \in T}
    BY <1>1, <1>2, <1>3 DEF CopyInOuts
  <2>2. PICK n \in T : m = [aliasee |-> code[n[2]].ref, drop |-> {v, n[2], in, r, n[3]}]
    BY <2>1
  <2>3. /\ n[1] \in S \ {in, r} /\ n[2] \in DOMAIN code /\ n[3] \in DOMAIN code
        /\ Good(n[1], n[2], n[3])
    BY <2>2
  <2> QED BY <2>1, <2>2, <2>3
<1>5. PICK w \in S \ {in, r} : \E x \in DOMAIN code : \E r0 \in DOMAIN code :
        /\ m = [aliasee |-> code[x].ref, drop |-> {v, x, in, r, r0}]
        /\ Copies(r, x) /\ Copies(r0, in) /\ code[r0].ref = code[x].ref
        /\ OperandsAllow(w, t, code[x].ref, {"read", "write"})
  BY <1>4
<1>6. PICK x \in DOMAIN code, r0 \in DOMAIN code :
        /\ m = [aliasee |-> code[x].ref, drop |-> {v, x, in, r, r0}]
        /\ Copies(r, x) /\ Copies(r0, in) /\ code[r0].ref = code[x].ref
        /\ OperandsAllow(w, t, code[x].ref, {"read", "write"})
  BY <1>5
<1>7. PICK a : a = code[x].ref
  OBVIOUS
<1>8. m.aliasee = a /\ m.drop = {v, x, in, r, r0}
  BY <1>6, <1>7
<1>9. /\ v \in DOMAIN code /\ code[v].k = "variable" /\ code[v] \in Operation
      /\ Len(code) \in Nat /\ DOMAIN code = 1..Len(code) /\ t \in Temporary
  BY <1>1, CodeFacts, OpFacts DEF IInv, Of
<1>10. /\ in \in S /\ r \in S /\ w \in S /\ S = {in, w, r} /\ in < w /\ w < r
       /\ S \in SUBSET (1..Len(code))
  <2>1. S \in SUBSET (1..Len(code))
    BY <1>2, <1>9, UserFacts
  <2> QED BY <1>3, <1>4, <1>5, <1>9, <2>1, Users
<1>11. /\ code[r].k = "read" /\ code[x].k = "assign" /\ r < x /\ a \in Reference
       /\ UsesOf(code[r].res) = {x} /\ TypeOf(code[r].ref) = TypeOf(a)
       /\ Refs(code[x]) = {a}
  BY <1>6, <1>7, <1>9, <1>10, Copied
<1>12. /\ code[r0].k = "read" /\ code[in].k = "assign" /\ r0 < in
       /\ UsesOf(code[r0].res) = {in} /\ Refs(code[r0]) = {a} /\ code[r0].ref = a
  BY <1>6, <1>7, <1>9, <1>10, Copied
<1>13. w \in Nat /\ r \in Nat /\ x \in Nat /\ in \in Nat /\ r0 \in Nat
  BY <1>9, <1>10
<1>14. a.root # t
  <2>1. ASSUME a.root = t PROVE FALSE
    <3>1. r0 \in S
      BY <1>2, <1>6, <1>12, <2>1 DEF UsersOf
    <3> QED BY <3>1, <1>10, <1>12, <1>13
  <2> QED BY <2>1
<1>15. w \notin {v, x, in, r, r0}
  <2>1. code[w].k # "variable"
    BY <1>2, <1>9, <1>10, UserFacts
  <2>2. w # x
    BY <1>2, <1>10, <1>11, <1>14 DEF UsersOf
  <2>3. w # r0
    BY <1>10, <1>12, <1>13
  <2> QED BY <2>1, <2>2, <2>3, <1>9, <1>10, <1>13
<1>16. TypeOf(Whole(t)) = TypeOf(a)
  <2>1. code[r].ref = Whole(t)
    BY <1>2, <1>9, <1>10, <1>11, UserFacts
  <2> QED BY <2>1, <1>11
<1>17. Available(a, w)
  <2>1. a \in Refs(code[r0])
    BY <1>12
  <2>2. /\ a.def # <<>> => \E j \in 1..r0 - 1 : GivesName(code[j]) /\ code[j].res = a.def
        /\ a.root \notin Variable =>
             \E j \in 1..r0 - 1 : GivesName(code[j]) /\ code[j].res = a.root
    BY <2>1 DEF IInv, DefinedBeforeUse, GivesName
  <2>3. \A j \in 1..r0 - 1 : j \in 1..w - 1
    BY <1>10, <1>12, <1>13
  <2> QED BY <2>2, <2>3 DEF Available
<1>18. \A e \in Effects(code[w]) : e.ref.root = t \/ ~MayAlias(a, e.ref)
  BY <1>6, <1>7 DEF OperandsAllow
<1>19. CanReplace(v, t, a, w, {v, x, in, r, r0})
  <2> DEFINE drop == {v, x, in, r, r0}
  <2>1. UsersOf(t) \subseteq drop \cup {w}
    BY <1>2, <1>10
  <2>2. \A i \in drop : i # v => code[i].k \in {"read", "assign"}
    BY <1>11, <1>12
  <2>3. \A i \in drop : code[i].k = "read" => UsesOf(code[i].res) \subseteq drop
    BY <1>9, <1>11, <1>12
  <2>4. w \in DOMAIN code
    BY <1>9, <1>10
  <2> QED BY <2>1, <2>2, <2>3, <2>4, <1>1, <1>11, <1>14, <1>15, <1>16, <1>17, <1>18
          DEF CanReplace
<1> QED BY <1>1, <1>8, <1>19

LEMMA NextStep == IInv /\ [Next]_vars => IInv'
<1> SUFFICES ASSUME IInv, [Next]_vars PROVE IInv'
  OBVIOUS
<1>1. ASSUME NEW v, NEW t, NEW r, NEW w, NEW drop, Replaces(v, t, r, w, drop) PROVE IInv'
  BY <1>1, NewCode, OnceStep, NoAliasedStep, DefinedStep, TypeStep DEF IInv
<1>2. ASSUME NEW v \in Of("variable"), Eliminate(v, CopyOuts(v)) PROVE IInv'
  <2>1. PICK m \in CopyOuts(v) : code' = Replaced(code[v].res, m.aliasee, m.drop)
    BY <1>2 DEF Eliminate
  <2>2. PICK w : CanReplace(v, code[v].res, m.aliasee, w, m.drop)
    BY CopyOutReplaces
  <2>3. Replaces(v, code[v].res, m.aliasee, w, m.drop)
    BY <1>2, <2>1, <2>2 DEF Replaces, Eliminate
  <2> QED BY <1>1, <2>3
<1>3. ASSUME NEW v \in Of("variable"), Eliminate(v, CopyInOuts(v)) PROVE IInv'
  <2>1. PICK m \in CopyInOuts(v) : code' = Replaced(code[v].res, m.aliasee, m.drop)
    BY <1>3 DEF Eliminate
  <2>2. PICK w : CanReplace(v, code[v].res, m.aliasee, w, m.drop)
    BY CopyInOutReplaces
  <2>3. Replaces(v, code[v].res, m.aliasee, w, m.drop)
    BY <1>3, <2>1, <2>2 DEF Replaces, Eliminate
  <2> QED BY <1>1, <2>3
<1>4. ASSUME code' = code, phase' \in {phase, "done"} PROVE IInv'
  <2>1. phase' \in {"rewrite", "done"}
    BY <1>4 DEF IInv, TypeOK
  <2>2. Of("read")' = Of("read") /\ Of("assign")' = Of("assign")
    BY <1>4 DEF Of
  <2>3. ASSUME NEW y PROVE TypeOf(y)' = TypeOf(y)
    BY <1>4 DEF TypeOf, Of
  <2>4. TypeOK'
    <3>1. ASSUME NEW i \in Of("read"), NEW j \in Of("assign"), code[i].res = code[j].val
          PROVE  (TypeOf(code[i].ref) = TypeOf(code[j].ref))'
      <4>1. PICK y, z : y = code[i].ref /\ z = code[j].ref
        OBVIOUS
      <4>2. TypeOf(y) = TypeOf(z)
        BY <3>1, <4>1 DEF IInv, TypeOK
      <4>3. TypeOf(y)' = TypeOf(z)'
        BY <2>3, <4>2
      <4> QED BY <1>4, <4>1, <4>3
    <3>2. \A i \in DOMAIN code : code[i].k \in {"variable", "symbol_ref", "read", "assign", "call"}
      BY DEF IInv, TypeOK
    <3> QED BY <1>4, <2>1, <2>2, <3>1, <3>2 DEF TypeOK
  <2>5. Once' /\ code' \in Seq(Operation)
    BY <1>4 DEF IInv, Once
  <2>6. NoAliasedArguments'
    BY <1>4 DEF IInv, NoAliasedArguments, Of
  <2>7. DefinedBeforeUse'
    BY <1>4 DEF IInv, DefinedBeforeUse
  <2> QED BY <2>4, <2>5, <2>6, <2>7 DEF IInv
<1> QED BY <1>2, <1>3, <1>4
        DEF Next, CopyOutElimination, CopyInOutElimination, Finish, Finished, vars

-----------------------------------------------------------------------------
(* The code of a call, put together from blocks *)

GivenValues(s) == {s[i].res : i \in {j \in DOMAIN s : GivesValue(s[j])}}
GivenNames(s) == {s[i].res : i \in {j \in DOMAIN s : GivesName(s[j])}}

\* The names an operation needs.
Needed(op) ==
  ({r.def : r \in Refs(op)} \ {<<>>}) \cup ({r.root : r \in Refs(op)} \ Variable)

\* A block of operations of O that may use the values V and the names N, gives
\* every value of U once, no other value, and the names M.
Block(s, O, V, N, U, M) ==
  /\ s \in Seq(O)
  /\ \A i \in DOMAIN s :
       /\ \A x \in Values(s[i]) :
            x \in V \/ \E j \in 1..i - 1 : GivesValue(s[j]) /\ s[j].res = x
       /\ \A x \in Needed(s[i]) :
            x \in N \/ \E j \in 1..i - 1 : GivesName(s[j]) /\ s[j].res = x
  /\ \A i, j \in DOMAIN s :
       GivesValue(s[i]) /\ GivesValue(s[j]) /\ s[i].res = s[j].res => i = j
  /\ GivenValues(s) = U /\ GivenNames(s) = M

LEMMA Weaker ==
  ASSUME NEW s, NEW O, NEW V, NEW N, NEW U, NEW M, Block(s, O, V, N, U, M),
         NEW V2, NEW N2, V \subseteq V2, N \subseteq N2
  PROVE  Block(s, O, V2, N2, U, M)
BY DEF Block

LEMMA NoBlock ==
  ASSUME NEW O, NEW V, NEW N
  PROVE  Block(<<>>, O, V, N, {}, {})
<1>1. <<>> \in Seq(O) /\ DOMAIN <<>> = {}
  OBVIOUS
<1> QED BY <1>1 DEF Block, GivenValues, GivenNames

LEMMA OneOperation ==
  ASSUME NEW O, NEW op \in O, NEW V, NEW N,
         Values(op) \subseteq V, Needed(op) \subseteq N
  PROVE  Block(<<op>>, O, V, N, IF GivesValue(op) THEN {op.res} ELSE {},
               IF GivesName(op) THEN {op.res} ELSE {})
<1>1. <<op>> \in Seq(O) /\ DOMAIN <<op>> = {1} /\ <<op>>[1] = op
  OBVIOUS
<1>2. \A s : DOMAIN s = {1} /\ s[1] = op =>
        /\ GivenValues(s) = IF GivesValue(op) THEN {op.res} ELSE {}
        /\ GivenNames(s) = IF GivesName(op) THEN {op.res} ELSE {}
  BY DEF GivenValues, GivenNames
<1> QED BY <1>1, <1>2 DEF Block

LEMMA Concatenated ==
  ASSUME NEW O, NEW V, NEW N, NEW U, NEW M, NEW U2, NEW M2, NEW a, NEW b,
         Block(a, O, V, N, U, M), Block(b, O, V \cup U, N \cup M, U2, M2),
         U \cap U2 = {}
  PROVE  Block(a \o b, O, V, N, U \cup U2, M \cup M2)
<1>0. a \in Seq(O) /\ b \in Seq(O)
  BY DEF Block
<1>1. PICK s : s = a \o b
  OBVIOUS
<1>2. PICK l \in Nat, n \in Nat : l = Len(a) /\ n = Len(b)
  BY <1>0
<1>3. /\ s \in Seq(O) /\ DOMAIN s = 1..l + n
      /\ DOMAIN a = 1..l /\ DOMAIN b = 1..n
      /\ \A i \in 1..l : s[i] = a[i]
      /\ \A i \in 1..n : s[l + i] = b[i]
  <2>1. /\ s \in Seq(O) /\ Len(s) = l + n
        /\ \A i \in 1..l + n : s[i] = IF i <= l THEN a[i] ELSE b[i - l]
    BY <1>0, <1>1, <1>2, ConcatProperties
  <2>2. ASSUME NEW i \in 1..n PROVE s[l + i] = b[i]
    <3>1. l + i \in 1..l + n /\ ~(l + i <= l) /\ (l + i) - l = i
      OBVIOUS
    <3> QED BY <2>1, <3>1
  <2>3. \A i \in 1..l : i \in 1..l + n /\ i <= l
    OBVIOUS
  <2> QED BY <1>0, <1>2, <2>1, <2>2, <2>3
<1>4. \A i \in 1..l + n : i \in 1..l \/ \E j \in 1..n : i = l + j
  <2> SUFFICES ASSUME NEW i \in 1..l + n, i \notin 1..l PROVE \E j \in 1..n : i = l + j
    OBVIOUS
  <2>1. i - l \in 1..n /\ i = l + (i - l)
    OBVIOUS
  <2> QED BY <2>1
<1>5. \A i \in 1..l : i \in 1..l + n
  OBVIOUS
<1>6. \A i \in 1..n : l + i \in 1..l + n
  OBVIOUS
<1>7. GivenValues(s) = U \cup U2
  <2>1. \A x : x \in GivenValues(s) <=> x \in GivenValues(a) \/ x \in GivenValues(b)
    <3>1. ASSUME NEW x \in GivenValues(s) PROVE x \in GivenValues(a) \/ x \in GivenValues(b)
      <4>1. PICK i \in 1..l + n : GivesValue(s[i]) /\ s[i].res = x
        BY <1>3, <3>1 DEF GivenValues
      <4>2. CASE i \in 1..l
        BY <1>3, <4>1, <4>2 DEF GivenValues
      <4>3. ASSUME NEW j \in 1..n, i = l + j PROVE x \in GivenValues(b)
        BY <1>3, <4>1, <4>3 DEF GivenValues
      <4> QED BY <1>4, <4>2, <4>3
    <3>2. ASSUME NEW x \in GivenValues(a) PROVE x \in GivenValues(s)
      BY <1>3, <1>5 DEF GivenValues
    <3>3. ASSUME NEW x \in GivenValues(b) PROVE x \in GivenValues(s)
      BY <1>3, <1>6 DEF GivenValues
    <3> QED BY <3>1, <3>2, <3>3
  <2> QED BY <2>1 DEF Block
<1>8. GivenNames(s) = M \cup M2
  <2>1. \A x : x \in GivenNames(s) <=> x \in GivenNames(a) \/ x \in GivenNames(b)
    <3>1. ASSUME NEW x \in GivenNames(s) PROVE x \in GivenNames(a) \/ x \in GivenNames(b)
      <4>1. PICK i \in 1..l + n : GivesName(s[i]) /\ s[i].res = x
        BY <1>3, <3>1 DEF GivenNames
      <4>2. CASE i \in 1..l
        BY <1>3, <4>1, <4>2 DEF GivenNames
      <4>3. ASSUME NEW j \in 1..n, i = l + j PROVE x \in GivenNames(b)
        BY <1>3, <4>1, <4>3 DEF GivenNames
      <4> QED BY <1>4, <4>2, <4>3
    <3>2. ASSUME NEW x \in GivenNames(a) PROVE x \in GivenNames(s)
      BY <1>3, <1>5 DEF GivenNames
    <3>3. ASSUME NEW x \in GivenNames(b) PROVE x \in GivenNames(s)
      BY <1>3, <1>6 DEF GivenNames
    <3> QED BY <3>1, <3>2, <3>3
  <2> QED BY <2>1 DEF Block
<1>a. /\ \A i, j \in 1..l : GivesValue(a[i]) /\ GivesValue(a[j]) /\ a[i].res = a[j].res => i = j
      /\ \A i, j \in 1..n : GivesValue(b[i]) /\ GivesValue(b[j]) /\ b[i].res = b[j].res => i = j
  <2>1. \A i, j \in DOMAIN a :
          GivesValue(a[i]) /\ GivesValue(a[j]) /\ a[i].res = a[j].res => i = j
    BY DEF Block
  <2>2. \A i, j \in DOMAIN b :
          GivesValue(b[i]) /\ GivesValue(b[j]) /\ b[i].res = b[j].res => i = j
    BY DEF Block
  <2> QED BY <2>1, <2>2, <1>3
<1>b. /\ \A i \in 1..l : GivesValue(a[i]) => a[i].res \in U
      /\ \A x \in U : \E i \in 1..l : GivesValue(a[i]) /\ a[i].res = x
      /\ \A x \in M : \E i \in 1..l : GivesName(a[i]) /\ a[i].res = x
      /\ \A i \in 1..n : GivesValue(b[i]) => b[i].res \in U2
  <2>1. U = GivenValues(a) /\ M = GivenNames(a) /\ U2 = GivenValues(b)
    BY DEF Block
  <2> QED BY <2>1, <1>3 DEF GivenValues, GivenNames
<1>9. ASSUME NEW i \in 1..l + n, NEW j \in 1..l + n,
             GivesValue(s[i]), GivesValue(s[j]), s[i].res = s[j].res
      PROVE  i = j
  <2>1. CASE i \in 1..l /\ j \in 1..l
    BY <1>3, <1>9, <1>a, <2>1
  <2>2. CASE i \notin 1..l /\ j \notin 1..l
    <3>1. PICK p \in 1..n, q \in 1..n : i = l + p /\ j = l + q
      BY <1>4, <2>2
    <3>2. s[i] = b[p] /\ s[j] = b[q]
      BY <1>3, <3>1
    <3>3. p = q
      BY <1>9, <1>a, <3>2
    <3> QED BY <3>1, <3>3
  <2>3. ASSUME NEW g \in 1..l, NEW h \in 1..l + n, h \notin 1..l,
               GivesValue(s[g]), GivesValue(s[h])
        PROVE  s[g].res # s[h].res
    <3>1. PICK q \in 1..n : h = l + q
      BY <1>4, <2>3
    <3>2. s[g] = a[g] /\ s[h] = b[q]
      BY <1>3, <3>1
    <3> QED BY <1>b, <2>3, <3>2
  <2> QED BY <1>9, <2>1, <2>2, <2>3
<1>c. \A i \in 1..l :
        /\ \A x \in Values(a[i]) :
             x \in V \/ \E j \in 1..i - 1 : GivesValue(a[j]) /\ a[j].res = x
        /\ \A x \in Needed(a[i]) :
             x \in N \/ \E j \in 1..i - 1 : GivesName(a[j]) /\ a[j].res = x
  <2>1. l = Len(a) /\ DOMAIN a = 1..l
    BY <1>2, <1>3
  <2> QED BY <2>1 DEF Block
<1>d. \A i \in 1..n :
        /\ \A x \in Values(b[i]) :
             x \in V \cup U \/ \E j \in 1..i - 1 : GivesValue(b[j]) /\ b[j].res = x
        /\ \A x \in Needed(b[i]) :
             x \in N \cup M \/ \E j \in 1..i - 1 : GivesName(b[j]) /\ b[j].res = x
  <2>1. DOMAIN b = 1..n
    BY <1>3
  <2> QED BY <2>1 DEF Block
<1>10. ASSUME NEW i \in 1..l + n
       PROVE  /\ \A x \in Values(s[i]) :
                   x \in V \/ \E j \in 1..i - 1 : GivesValue(s[j]) /\ s[j].res = x
              /\ \A x \in Needed(s[i]) :
                   x \in N \/ \E j \in 1..i - 1 : GivesName(s[j]) /\ s[j].res = x
  <2>1. CASE i \in 1..l
    <3>1. s[i] = a[i] /\ \A j \in 1..i - 1 : j \in 1..l
      BY <1>3, <2>1
    <3>2. \A j \in 1..i - 1 : s[j] = a[j]
      BY <1>3, <3>1
    <3> QED BY <1>c, <2>1, <3>1, <3>2
  <2>2. CASE i \notin 1..l
    <3>1. PICK k \in 1..n : i = l + k
      BY <1>4, <2>2
    <3>2. \A j \in 1..k - 1 : l + j \in 1..i - 1 /\ s[l + j] = b[j]
      <4>1. \A j \in 1..k - 1 : l + j \in 1..i - 1 /\ j \in 1..n
        BY <3>1
      <4> QED BY <1>3, <4>1
    <3>3. \A j \in 1..l : j \in 1..i - 1
      BY <3>1
    <3>4. \A x \in U : \E j \in 1..i - 1 : GivesValue(s[j]) /\ s[j].res = x
      <4> TAKE x \in U
      <4>1. PICK j \in 1..l : GivesValue(a[j]) /\ a[j].res = x
        BY <1>b
      <4>2. s[j] = a[j]
        BY <1>3
      <4> QED BY <3>3, <4>1, <4>2
    <3>5. \A x \in M : \E j \in 1..i - 1 : GivesName(s[j]) /\ s[j].res = x
      <4> TAKE x \in M
      <4>1. PICK j \in 1..l : GivesName(a[j]) /\ a[j].res = x
        BY <1>b
      <4>2. s[j] = a[j]
        BY <1>3
      <4> QED BY <3>3, <4>1, <4>2
    <3>6. s[i] = b[k]
      BY <1>3, <3>1
    <3>7. \A x \in Values(s[i]) :
            x \in V \/ \E j \in 1..i - 1 : GivesValue(s[j]) /\ s[j].res = x
      <4> TAKE x \in Values(s[i])
      <4>1. x \in V \/ x \in U \/ \E j \in 1..k - 1 : GivesValue(b[j]) /\ b[j].res = x
        BY <1>d, <3>6
      <4>2. ASSUME NEW j \in 1..k - 1, GivesValue(b[j]), b[j].res = x
            PROVE  \E h \in 1..i - 1 : GivesValue(s[h]) /\ s[h].res = x
        BY <3>2, <4>2
      <4> QED BY <3>4, <4>1, <4>2
    <3>8. \A x \in Needed(s[i]) :
            x \in N \/ \E j \in 1..i - 1 : GivesName(s[j]) /\ s[j].res = x
      <4> TAKE x \in Needed(s[i])
      <4>1. \/ x \in N \/ x \in M
            \/ \E j \in 1..k - 1 : GivesName(b[j]) /\ b[j].res = x
        BY <1>d, <3>6
      <4>2. ASSUME NEW j \in 1..k - 1, GivesName(b[j]), b[j].res = x
            PROVE  \E h \in 1..i - 1 : GivesName(s[h]) /\ s[h].res = x
        BY <3>2, <4>2
      <4> QED BY <3>5, <4>1, <4>2
    <3> QED BY <3>7, <3>8
  <2> QED BY <2>1, <2>2
<1>11. Block(s, O, V, N, U \cup U2, M \cup M2)
  <2>1. s \in Seq(O) /\ DOMAIN s = 1..l + n
    BY <1>3
  <2>2. \A i, j \in DOMAIN s :
          GivesValue(s[i]) /\ GivesValue(s[j]) /\ s[i].res = s[j].res => i = j
    BY <1>9, <2>1
  <2>3. \A i \in DOMAIN s :
          /\ \A x \in Values(s[i]) :
               x \in V \/ \E j \in 1..i - 1 : GivesValue(s[j]) /\ s[j].res = x
          /\ \A x \in Needed(s[i]) :
               x \in N \/ \E j \in 1..i - 1 : GivesName(s[j]) /\ s[j].res = x
    BY <1>10, <2>1
  <2> QED BY <1>7, <1>8, <2>1, <2>2, <2>3 DEF Block
<1> QED BY <1>1, <1>11

Joint(F, n) == UNION {F[i] : i \in 1..n}

\* Blocks that do not need each other, one after the other.
LEMMA Flattened ==
  ASSUME NEW O, NEW V, NEW N, NEW U, NEW M, NEW seqs \in Seq(Seq(O)),
         NEW n \in Nat, n = Len(seqs),
         \A i \in 1..n : Block(seqs[i], O, V, N, U[i], M[i]),
         \A i, j \in 1..n : i # j => U[i] \cap U[j] = {}
  PROVE  Block(FlattenSeq(seqs), O, V, N, Joint(U, n), Joint(M, n))
<1>1. CASE n = 0
  <2>1. seqs = <<>>
    BY <1>1, EmptySeq
  <2>2. FlattenSeq(seqs) = seqs
    BY <1>1 DEF FlattenSeq
  <2>3. Joint(U, n) = {} /\ Joint(M, n) = {}
    BY <1>1 DEF Joint
  <2>4. Block(FlattenSeq(seqs), O, V, N, Joint(U, n), Joint(M, n))
    <3> QED BY <2>1, <2>2, <2>3, NoBlock
  <2> QED BY <2>4
<1>2. CASE n # 0
  <2>1. PICK f : /\ FlattenSeq(seqs) = f[n]
                 /\ \A i \in 1..n : f[i] = IF i = 1 THEN seqs[i] ELSE f[i - 1] \o seqs[i]
    BY <1>2, FlattenSteps
  <2> DEFINE T == {m \in Nat : m \in 1..n => Block(f[m], O, V, N, Joint(U, m), Joint(M, m))}
  <2>2. 0 \in T
    OBVIOUS
  <2>3. ASSUME NEW m \in Nat, m \in T, m + 1 \in 1..n
        PROVE  Block(f[m + 1], O, V, N, Joint(U, m + 1), Joint(M, m + 1))
    <3>1. CASE m = 0
      <4>1. f[1] = seqs[1] /\ 1 \in 1..n
        BY <2>1, <2>3, <3>1
      <4>2. Joint(U, 1) = U[1] /\ Joint(M, 1) = M[1]
        <5>1. \A F : {F[i] : i \in 1..1} = {F[1]}
          OBVIOUS
        <5> QED BY <5>1 DEF Joint
      <4>3. m + 1 = 1
        BY <3>1
      <4> QED BY <4>1, <4>2, <4>3
    <3>2. CASE m # 0
      <4>1. m \in 1..n /\ f[m + 1] = f[m] \o seqs[m + 1]
        <5>1. m \in 1..n /\ m + 1 # 1 /\ (m + 1) - 1 = m
          BY <2>3, <3>2
        <5> QED BY <2>1, <2>3, <5>1
      <4>2. Block(f[m], O, V, N, Joint(U, m), Joint(M, m))
        BY <2>3, <4>1
      <4>3. Block(seqs[m + 1], O, V, N, U[m + 1], M[m + 1])
        BY <2>3
      <4>4. Block(seqs[m + 1], O, V \cup Joint(U, m), N \cup Joint(M, m), U[m + 1], M[m + 1])
        <5> QED BY <4>3, Weaker
      <4>5. Joint(U, m) \cap U[m + 1] = {}
        <5>1. \A i \in 1..m : i \in 1..n /\ i # m + 1
          BY <2>3
        <5> QED BY <2>3, <5>1 DEF Joint
      <4>6. \A F : Joint(F, m + 1) = Joint(F, m) \cup F[m + 1]
        <5> TAKE F
        <5>1. \A i : i \in 1..m + 1 <=> i \in 1..m \/ i = m + 1
          OBVIOUS
        <5>2. {F[i] : i \in 1..m + 1} = {F[i] : i \in 1..m} \cup {F[m + 1]}
          BY <5>1
        <5> QED BY <5>2 DEF Joint
      <4>7. Block(f[m] \o seqs[m + 1], O, V, N, Joint(U, m) \cup U[m + 1],
                  Joint(M, m) \cup M[m + 1])
        BY <4>2, <4>4, <4>5, Concatenated
      <4> QED BY <4>1, <4>6, <4>7
    <3> QED BY <3>1, <3>2
  <2>4. n \in T
    <3>1. ASSUME NEW m \in Nat, m \in T PROVE m + 1 \in T
      <4>1. m + 1 \in Nat
        OBVIOUS
      <4> QED BY <2>3, <3>1, <4>1
    <3> HIDE DEF T
    <3> QED BY <2>2, <3>1, Induction
  <2>5. n \in 1..n
    BY <1>2
  <2> QED BY <2>1, <2>4, <2>5
<1> QED BY <1>1, <1>2

-----------------------------------------------------------------------------
(* The blocks of a call.  `sh` is the type of each argument of each call. *)

Key(x) == <<x[1], x[2]>>

Typed(r, x, sh) == IF r.root \in Variable THEN Shape(r) = sh[Key(x)] ELSE sh[Key(r.root)] = sh[Key(x)]

\* Operations that are well typed, and a call that has no argument twice.
Lawful(sh) ==
  {op \in Operation :
     /\ op.k = "variable" => op.fields = sh[Key(op.res)]
     /\ op.k = "read" => Typed(op.ref, op.res, sh)
     /\ op.k = "assign" => Typed(op.ref, op.val, sh)
     /\ op.k = "call" => \A i, j \in DOMAIN op.args :
          i # j /\ op.args[i].dir # "in" /\ op.args[j].dir # "in" =>
            op.args[i].ref.root # op.args[j].ref.root}

LEMMA NewNames ==
  ASSUME NEW k \in Nat, NEW i \in Nat
  PROVE  /\ Temp(k, i) \in Temporary /\ Key(Temp(k, i)) = <<k, i>>
         /\ InVal(k, i) \in Value /\ Key(InVal(k, i)) = <<k, i>>
         /\ OutVal(k, i) \in Value /\ Key(OutVal(k, i)) = <<k, i>>
         /\ Result(k) \in Value
         /\ <<k, i, "in">> \in Symbol /\ <<k, i, "out">> \in Symbol
         /\ Whole(Temp(k, i)) \in Reference /\ Whole(Temp(k, i)).root = Temp(k, i)
         /\ Whole(Temp(k, i)).def = <<>>
BY DEF Temp, InVal, OutVal, Result, Temporary, Value, Symbol, Key, Reference, Whole, Ref

LEMMA VariableBlock ==
  ASSUME NEW k \in Nat, NEW i \in Nat, NEW f \in Shapes, NEW sh, sh[<<k, i>>] = f, NEW V, NEW N
  PROVE  Block(<<VariableOp(Temp(k, i), f, k)>>, Lawful(sh), V, N, {}, {Temp(k, i)})
<1>1. PICK op : op = VariableOp(Temp(k, i), f, k)
  OBVIOUS
<1>2. /\ op.k = "variable" /\ op.res = Temp(k, i) /\ op.fields = f
      /\ op \in [k : {"variable"}, res : Temporary, fields : Shapes, blk : Nat]
  BY <1>1, NewNames DEF VariableOp
<1>3. op \in Operation
  BY <1>2 DEF Operation
<1>4. op \in Lawful(sh)
  BY <1>2, <1>3, NewNames DEF Lawful
<1>5. Values(op) = {} /\ Needed(op) = {} /\ ~GivesValue(op) /\ GivesName(op)
  BY <1>2, <1>3, OpFacts, RefsFacts DEF Needed, GivesValue, GivesName
<1> QED BY <1>1, <1>2, <1>4, <1>5, OneOperation

LEMMA SymbolBlock ==
  ASSUME NEW r, r.def \in Symbol, NEW k \in Nat, NEW sh, NEW V, NEW N
  PROVE  Block(<<SymRefOp(r, k)>>, Lawful(sh), V, N, {}, {r.def})
<1>1. PICK op : op = SymRefOp(r, k)
  OBVIOUS
<1>2. /\ op.k = "symbol_ref" /\ op.res = r.def
      /\ op \in [k : {"symbol_ref"}, res : Symbol, blk : Nat]
  BY <1>1 DEF SymRefOp
<1>3. op \in Operation
  BY <1>2 DEF Operation
<1>4. op \in Lawful(sh)
  BY <1>2, <1>3 DEF Lawful
<1>5. Values(op) = {} /\ Needed(op) = {} /\ ~GivesValue(op) /\ GivesName(op)
  BY <1>2, <1>3, OpFacts, RefsFacts DEF Needed, GivesValue, GivesName
<1> QED BY <1>1, <1>2, <1>4, <1>5, OneOperation

LEMMA ReadBlock ==
  ASSUME NEW k \in Nat, NEW r \in Reference, NEW x \in Value, NEW slice \in BOOLEAN,
         NEW sh, Typed(r, x, sh), NEW V, NEW N,
         r.root \in Variable \cup N, r.def \in {<<>>} \cup N
  PROVE  Block(<<ReadOp(r, x, slice, k)>>, Lawful(sh), V, N, {x}, {})
<1>1. PICK op : op = ReadOp(r, x, slice, k)
  OBVIOUS
<1>2. /\ op.k = "read" /\ op.res = x /\ op.ref = r
      /\ op \in [k : {"read"}, ref : Reference, res : Value, slice : BOOLEAN, blk : Nat]
  BY <1>1 DEF ReadOp
<1>3. op \in Operation
  BY <1>2 DEF Operation
<1>4. op \in Lawful(sh)
  BY <1>2, <1>3 DEF Lawful
<1>5. Values(op) = {} /\ Refs(op) = {r} /\ GivesValue(op) /\ ~GivesName(op)
  BY <1>2, <1>3, OpFacts, RefsFacts DEF GivesValue, GivesName
<1>6. Needed(op) \subseteq N
  BY <1>5 DEF Needed
<1> QED BY <1>1, <1>2, <1>4, <1>5, <1>6, OneOperation

LEMMA AssignBlock ==
  ASSUME NEW k \in Nat, NEW r \in Reference, NEW x \in Value, NEW slice \in BOOLEAN,
         NEW sh, Typed(r, x, sh), NEW V, NEW N, x \in V,
         r.root \in Variable \cup N, r.def \in {<<>>} \cup N
  PROVE  Block(<<AssignOp(x, r, slice, k)>>, Lawful(sh), V, N, {}, {})
<1>1. PICK op : op = AssignOp(x, r, slice, k)
  OBVIOUS
<1>2. /\ op.k = "assign" /\ op.val = x /\ op.ref = r
      /\ op \in [k : {"assign"}, ref : Reference, val : Value, slice : BOOLEAN, blk : Nat]
  BY <1>1 DEF AssignOp
<1>3. op \in Operation
  BY <1>2 DEF Operation
<1>4. op \in Lawful(sh)
  BY <1>2, <1>3 DEF Lawful
<1>5. Values(op) = {x} /\ Refs(op) = {r} /\ ~GivesValue(op) /\ ~GivesName(op)
  BY <1>2, <1>3, OpFacts, RefsFacts DEF GivesValue, GivesName
<1>6. Needed(op) \subseteq N
  BY <1>5 DEF Needed
<1> QED BY <1>1, <1>4, <1>5, <1>6, OneOperation

\* Resolving the reference of an argument gives the name it needs.
Resolves(r, k, sh) ==
  \E M : /\ r.def \in {<<>>} \cup M
         /\ \A V, N : Block(Resolution(r, k), Lawful(sh), V, N, {}, M)

LEMMA ResolvedFacts ==
  ASSUME NEW c, NEW k \in Nat, NEW i \in Nat, IsPlain(c.args[i]),
         NEW when, when = "in" \/ when = "out", NEW sh, sh[<<k, i>>] = Shape(c.args[i].ref),
         NEW r, r = Resolved(c, c.args[i], k, i, when)
  PROVE  /\ r \in Reference /\ r.root \in Variable /\ Shape(r) = sh[<<k, i>>]
         /\ Resolves(r, k, sh)
<1> DEFINE a == c.args[i]
<1>0. PICK x \in Variable : \E f \in {"all"} \cup Fields[x] : a.ref = Ref(x, f)
  BY DEF IsPlain, IsReference
<1>1. PICK f \in {"all"} \cup Fields[x] : a.ref = Ref(x, f)
  BY <1>0
<1>2. /\ r.root = x /\ r.field = f /\ r.def \in Symbol \cup {<<>>}
      /\ r = [root |-> x, field |-> f, def |-> r.def]
  <2>1. a.ref = [root |-> x, field |-> f, def |-> <<>>]
    BY <1>1 DEF Ref
  <2>2. <<k, i, when>> \in Symbol
    BY DEF Symbol
  <2>3. CASE r = a.ref
    BY <2>1, <2>3
  <2>4. CASE r = [a.ref EXCEPT !.def = <<k, i, when>>]
    BY <2>1, <2>2, <2>4
  <2> QED BY <2>3, <2>4 DEF Resolved
<1>3. f \in {"all"} \cup UNION {Fields[y] : y \in Variable}
  BY <1>1
<1> HIDE DEF a
<1>4. r \in [root : Variable, field : {"all"} \cup UNION {Fields[y] : y \in Variable},
            def : Symbol \cup {<<>>}]
  BY <1>2, <1>3
<1>5. r \in Reference
  BY <1>4 DEF Reference
<1>6. Shape(r) = Shape(a.ref)
  BY <1>1, <1>2 DEF Shape, Ref
<1>7. Resolves(r, k, sh)
  <2>1. CASE r.def = <<>>
    <3>1. \A V, N : Block(Resolution(r, k), Lawful(sh), V, N, {}, {})
      BY <2>1, NoBlock DEF Resolution
    <3> QED BY <2>1, <3>1 DEF Resolves
  <2>2. CASE r.def # <<>>
    <3>1. r.def \in Symbol
      BY <1>2, <2>2
    <3>2. \A V, N : Block(Resolution(r, k), Lawful(sh), V, N, {}, {r.def})
      BY <2>2, <3>1, SymbolBlock DEF Resolution
    <3>3. r.def \in {<<>>} \cup {r.def}
      OBVIOUS
    <3> QED BY <3>2, <3>3 DEF Resolves
  <2> QED BY <2>1, <2>2
<1> QED BY <1>2, <1>5, <1>6, <1>7 DEF a

\* The same as Concatenated, with a name for each set.
LEMMA Joined ==
  ASSUME NEW O, NEW V, NEW N, NEW U, NEW M, NEW V2, NEW N2, NEW U2, NEW M2,
         NEW U3, NEW M3, NEW a, NEW b,
         Block(a, O, V, N, U, M), Block(b, O, V2, N2, U2, M2), U \cap U2 = {},
         V2 = V \cup U, N2 = N \cup M, U3 = U \cup U2, M3 = M \cup M2
  PROVE  Block(a \o b, O, V, N, U3, M3)
BY Concatenated

LEMMA CopyInBlock ==
  ASSUME NEW c, NEW k \in Nat, NEW i \in Nat, IsPlain(c.args[i]),
         NEW sh, sh[<<k, i>>] = Shape(c.args[i].ref)
  PROVE  \E M : /\ HasOut(c.args[i]) => Temp(k, i) \in M
                /\ Block(CopyIn(c, k, i), Lawful(sh), {}, {},
                         IF c.args[i].dir = "out" THEN {} ELSE {InVal(k, i)}, M)
<1> DEFINE a == c.args[i]
           P1 == Resolution(Resolved(c, a, k, i, "in"), k)
           P2 == IF HasOut(a) THEN <<VariableOp(Temp(k, i), Shape(a.ref), k)>> ELSE <<>>
           P3 == IF a.dir = "out" THEN <<>>
                 ELSE <<ReadOp(Resolved(c, a, k, i, "in"), InVal(k, i), a.slice, k)>>
           P4 == IF a.dir = "inout"
                 THEN <<AssignOp(InVal(k, i), Whole(Temp(k, i)), FALSE, k)>> ELSE <<>>
<1>1. PICK r : r = Resolved(c, a, k, i, "in")
  OBVIOUS
<1>2. /\ r \in Reference /\ r.root \in Variable /\ Shape(r) = sh[<<k, i>>]
      /\ Resolves(r, k, sh)
  BY <1>1, ResolvedFacts
<1>3. PICK M1 : /\ r.def \in {<<>>} \cup M1
                /\ \A V, N : Block(Resolution(r, k), Lawful(sh), V, N, {}, M1)
  BY <1>2 DEF Resolves
<1>4. PICK L : L = Lawful(sh)
  OBVIOUS
<1>5. PICK M2 : M2 = IF HasOut(a) THEN {Temp(k, i)} ELSE {}
  OBVIOUS
<1>6. PICK U3 : U3 = IF a.dir = "out" THEN {} ELSE {InVal(k, i)}
  OBVIOUS
<1>7. PICK M3 : M3 = M1 \cup M2
  OBVIOUS
<1>8. a.dir \in {"in", "out", "inout"} /\ a.slice \in BOOLEAN /\ Shape(a.ref) \in Shapes
  <2>1. IsReference(a.ref) /\ a.dir \in {"in", "out", "inout"} /\ a.slice \in BOOLEAN
    BY DEF IsPlain
  <2>2. a.ref.root \in Variable
    BY <2>1 DEF IsReference, Ref
  <2> QED BY <2>1, <2>2 DEF Shape, Shapes
<1>9. Block(P1, L, {}, {}, {}, M1)
  BY <1>1, <1>3, <1>4
<1>10. Block(P2, L, {}, M1, {}, M2)
  <2>1. CASE HasOut(a)
    BY <2>1, <1>4, <1>5, <1>8, VariableBlock
  <2>2. CASE ~HasOut(a)
    BY <2>2, <1>5, NoBlock
  <2> QED BY <2>1, <2>2
<1>11. Block(P3, L, {}, M3, U3, {})
  <2>1. CASE a.dir = "out"
    BY <2>1, <1>6, NoBlock
  <2>2. CASE a.dir # "out"
    <3>1. Typed(r, InVal(k, i), sh) /\ InVal(k, i) \in Value
      BY <1>2, NewNames DEF Typed
    <3>2. r.root \in Variable \cup M3 /\ r.def \in {<<>>} \cup M3
      BY <1>2, <1>3, <1>7
    <3>3. Block(<<ReadOp(r, InVal(k, i), a.slice, k)>>, Lawful(sh), {}, M3, {InVal(k, i)}, {})
      BY <3>1, <3>2, <1>2, <1>8, ReadBlock
    <3> QED BY <2>2, <3>3, <1>1, <1>4, <1>6
  <2> QED BY <2>1, <2>2
<1>12. Block(P4, L, U3, M3, {}, {})
  <2>1. CASE a.dir = "inout"
    <3>1. /\ Whole(Temp(k, i)) \in Reference /\ InVal(k, i) \in Value /\ InVal(k, i) \in U3
          /\ Whole(Temp(k, i)).root \in Variable \cup M3 /\ Whole(Temp(k, i)).def \in {<<>>} \cup M3
      BY <2>1, <1>5, <1>6, <1>7, NewNames DEF HasOut
    <3>2. Typed(Whole(Temp(k, i)), InVal(k, i), sh)
      BY NewNames, Names DEF Typed
    <3>3. Block(<<AssignOp(InVal(k, i), Whole(Temp(k, i)), FALSE, k)>>, Lawful(sh), U3, M3, {}, {})
      BY <3>1, <3>2, AssignBlock
    <3> QED BY <2>1, <3>3, <1>4
  <2>2. CASE a.dir # "inout"
    BY <2>2, NoBlock
  <2> QED BY <2>1, <2>2
<1>13. CopyIn(c, k, i) = ((P1 \o P2) \o P3) \o P4
  BY DEF CopyIn
<1> HIDE DEF P1, P2, P3, P4
<1>14. Block(P1 \o P2, L, {}, {}, {}, M3)
  BY <1>7, <1>9, <1>10, Joined
<1>15. Block((P1 \o P2) \o P3, L, {}, {}, U3, M3)
  BY <1>14, <1>11, Joined
<1>16. Block(((P1 \o P2) \o P3) \o P4, L, {}, {}, U3, M3)
  BY <1>15, <1>12, Joined
<1>17. HasOut(a) => Temp(k, i) \in M3
  BY <1>5, <1>7
<1> QED BY <1>4, <1>6, <1>13, <1>16, <1>17

LEMMA CopyBackBlock ==
  ASSUME NEW c, NEW k \in Nat, NEW i \in Nat, IsPlain(c.args[i]),
         NEW sh, sh[<<k, i>>] = Shape(c.args[i].ref),
         NEW N, HasOut(c.args[i]) => Temp(k, i) \in N
  PROVE  \E M : Block(CopyBack(c, k, i), Lawful(sh), {}, N,
                      IF HasOut(c.args[i]) THEN {OutVal(k, i)} ELSE {}, M)
<1> DEFINE a == c.args[i]
<1>1. CASE ~HasOut(a)
  BY <1>1, NoBlock DEF CopyBack
<1>2. CASE HasOut(a)
  <2> DEFINE read == ReadOp(Whole(Temp(k, i)), OutVal(k, i), FALSE, k)
             assign == AssignOp(OutVal(k, i), Resolved(c, a, k, i, "out"), a.slice, k)
             P1 == Resolution(Resolved(c, a, k, i, "out"), k)
  <2>1. PICK r : r = Resolved(c, a, k, i, "out")
    OBVIOUS
  <2>2. /\ r \in Reference /\ r.root \in Variable /\ Shape(r) = sh[<<k, i>>]
        /\ Resolves(r, k, sh)
    BY <2>1, ResolvedFacts
  <2>3. PICK M1 : /\ r.def \in {<<>>} \cup M1
                  /\ \A V, N2 : Block(Resolution(r, k), Lawful(sh), V, N2, {}, M1)
    BY <2>2 DEF Resolves
  <2>4. PICK L, t, v, N1 : L = Lawful(sh) /\ t = Temp(k, i) /\ v = OutVal(k, i) /\ N1 = N \cup M1
    OBVIOUS
  <2>5. a.slice \in BOOLEAN
    BY DEF IsPlain
  <2>6. Block(P1, L, {}, N, {}, M1)
    BY <2>1, <2>3, <2>4
  <2>7. Block(<<read>>, L, {}, N1, {v}, {})
    <3>1. /\ Whole(t) \in Reference /\ v \in Value /\ Typed(Whole(t), v, sh)
          /\ Whole(t).root \in Variable \cup N1 /\ Whole(t).def \in {<<>>} \cup N1
      BY <1>2, <2>4, NewNames, Names DEF Typed
    <3>2. Block(<<ReadOp(Whole(t), v, FALSE, k)>>, Lawful(sh), {}, N1, {v}, {})
      BY <3>1, ReadBlock
    <3> QED BY <3>2, <2>4
  <2>8. Block(<<assign>>, L, {v}, N1, {}, {})
    <3>1. /\ v \in Value /\ Typed(r, v, sh)
          /\ r.root \in Variable \cup N1 /\ r.def \in {<<>>} \cup N1
      BY <2>2, <2>3, <2>4, NewNames DEF Typed
    <3>2. Block(<<AssignOp(v, r, a.slice, k)>>, Lawful(sh), {v}, N1, {}, {})
      BY <3>1, <2>2, <2>5, AssignBlock
    <3> QED BY <3>2, <2>1, <2>4
  <2>9. CopyBack(c, k, i) = P1 \o (<<read>> \o <<assign>>)
    <3> DEFINE O == {read, assign}
    <3>1. CopyBack(c, k, i) = P1 \o <<read, assign>>
      BY <1>2 DEF CopyBack
    <3>2. \A x, y : <<x, y>> = <<x>> \o <<y>>
      <4> TAKE x, y
      <4>1. <<x>> \in Seq({x, y}) /\ <<y>> \in Seq({x, y}) /\ <<x, y>> \in Seq({x, y})
        OBVIOUS
      <4>2. Len(<<x>>) = 1 /\ Len(<<y>>) = 1 /\ Len(<<x, y>>) = 2
        OBVIOUS
      <4>3. PICK s : s = <<x>> \o <<y>>
        OBVIOUS
      <4>4. /\ s \in Seq({x, y}) /\ Len(s) = 2
            /\ \A j \in 1..2 : s[j] = IF j <= 1 THEN <<x>>[j] ELSE <<y>>[j - 1]
        BY <4>1, <4>2, <4>3, ConcatProperties
      <4>5. s[1] = x /\ s[2] = y
        <5>1. s[1] = <<x>>[1] /\ s[2] = <<y>>[1]
          BY <4>4
        <5> QED BY <5>1
      <4>6. \A j \in 1..2 : s[j] = <<x, y>>[j]
        BY <4>5
      <4>7. s = <<x, y>>
        BY <4>1, <4>2, <4>4, <4>6, SeqEqual
      <4> QED BY <4>3, <4>7
    <3> HIDE DEF read, assign, P1
    <3> QED BY <3>1, <3>2
  <2> HIDE DEF read, assign, P1
  <2>10. Block(<<read>> \o <<assign>>, L, {}, N1, {v}, {})
    BY <2>7, <2>8, Joined
  <2>11. Block(P1 \o (<<read>> \o <<assign>>), L, {}, N, {v}, M1)
    BY <2>4, <2>6, <2>10, Joined
  <2> QED BY <1>2, <2>4, <2>9, <2>11
<1> QED BY <1>1, <1>2

\* The arguments that are a call pass a value in.
Argument(a) == IsPlain(a) \/ (IsCall(a) /\ a.dir = "in")

LEMMA CallBlock ==
  ASSUME NEW c, NEW k \in Nat, NEW n \in Nat, DOMAIN c.args = 1..n, c.callee \in Callees,
         \A i \in 1..n : Argument(c.args[i]),
         NEW sh, NEW V, NEW N,
         \A i \in 1..n : IF HasOut(c.args[i]) THEN Temp(k, i) \in N
                         ELSE (IF IsCall(c.args[i]) THEN Result(k + 1) ELSE InVal(k, i)) \in V
  PROVE  Block(<<CallOp(c, k)>>, Lawful(sh), V, N, {Result(k)}, {})
<1> DEFINE arg(i) == IF HasOut(c.args[i]) THEN [dir |-> c.args[i].dir, ref |-> Whole(Temp(k, i))]
                     ELSE [dir |-> "in",
                           val |-> IF IsCall(c.args[i]) THEN Result(k + 1) ELSE InVal(k, i)]
<1>1. PICK op : op = CallOp(c, k)
  OBVIOUS
<1>2. PICK args : args = [i \in 1..n |-> arg(i)]
  OBVIOUS
<1>3. op = [k |-> "call", callee |-> c.callee, res |-> Result(k), blk |-> k, args |-> args]
  BY <1>1, <1>2 DEF CallOp
<1>4. k + 1 \in Nat /\ \A i \in 1..n : i \in Nat
  OBVIOUS
<1>5. ASSUME NEW i \in 1..n
      PROVE  /\ arg(i) \in InArg \cup OutArg
             /\ arg(i).dir = "in" => arg(i).val \in V
             /\ arg(i).dir # "in" =>
                  arg(i).ref = Whole(Temp(k, i)) /\ Temp(k, i) \in N
  <2>1. CASE HasOut(c.args[i])
    <3>1. arg(i) = [dir |-> c.args[i].dir, ref |-> Whole(Temp(k, i))]
      BY <2>1
    <3>2. Whole(Temp(k, i)) \in Reference /\ c.args[i].dir \in {"out", "inout"} /\ Temp(k, i) \in N
      <4>1. i \in Nat
        OBVIOUS
      <4> QED BY <2>1, <4>1, NewNames DEF HasOut
    <3> HIDE DEF arg
    <3> QED BY <3>1, <3>2 DEF OutArg
  <2>2. CASE ~HasOut(c.args[i])
    <3>1. PICK x : x = IF IsCall(c.args[i]) THEN Result(k + 1) ELSE InVal(k, i)
      OBVIOUS
    <3>2. x \in Value /\ x \in V
      <4>1. Result(k + 1) \in Value /\ InVal(k, i) \in Value
        <5>1. i \in Nat /\ k + 1 \in Nat
          OBVIOUS
        <5> QED BY <5>1, NewNames
      <4> QED BY <2>2, <3>1, <4>1
    <3>3. arg(i) = [dir |-> "in", val |-> x]
      BY <2>2, <3>1
    <3> HIDE DEF arg
    <3> QED BY <3>2, <3>3 DEF InArg
  <2> QED BY <2>1, <2>2
<1> HIDE DEF arg
<1>6. args \in [1..n -> InArg \cup OutArg] /\ DOMAIN args = 1..n
  BY <1>2, <1>5
<1>7. args \in UNION {[D -> InArg \cup OutArg] : D \in SUBSET Nat}
  <2>1. 1..n \in SUBSET Nat
    OBVIOUS
  <2> QED BY <2>1, <1>6
<1>8. op.k = "call" /\ op.res = Result(k) /\ op.args = args
  BY <1>3
<1>9. op \in Operation
  <2>1. Result(k) \in Value
    BY NewNames
  <2>2. op \in [k : {"call"}, callee : Callees, res : Value, blk : Nat,
                args : UNION {[D -> InArg \cup OutArg] : D \in SUBSET Nat}]
    BY <1>3, <1>7, <2>1
  <2> QED BY <2>2 DEF Operation
<1>10. op \in Lawful(sh)
  <2>1. ASSUME NEW i \in 1..n, NEW j \in 1..n, i # j, args[i].dir # "in", args[j].dir # "in"
        PROVE  args[i].ref.root # args[j].ref.root
    <3>1. args[i].ref = Whole(Temp(k, i)) /\ args[j].ref = Whole(Temp(k, j))
      BY <2>1, <1>2, <1>5
    <3>2. args[i].ref.root = Temp(k, i) /\ args[j].ref.root = Temp(k, j)
      BY <3>1 DEF Whole, Ref
    <3> QED BY <2>1, <3>2 DEF Temp
  <2> QED BY <1>6, <1>8, <1>9, <2>1 DEF Lawful
<1>11. Values(op) \subseteq V
  <2>1. Values(op) = {op.args[i].val : i \in {j \in DOMAIN op.args : op.args[j].dir = "in"}}
    BY <1>8, <1>9, OpFacts
  <2>2. \A i \in 1..n : args[i].dir = "in" => args[i].val \in V
    BY <1>2, <1>5
  <2> QED BY <2>1, <2>2, <1>6, <1>8
<1>12. Needed(op) \subseteq N
  <2>1. ASSUME NEW r \in Refs(op) PROVE r.def = <<>> /\ r.root \in N
    <3>1. PICK i \in 1..n : args[i].dir # "in" /\ r = args[i].ref
      BY <1>6, <1>8, <1>9, RefsFacts
    <3>2. r = Whole(Temp(k, i)) /\ Temp(k, i) \in N
      BY <3>1, <1>2, <1>5
    <3> QED BY <3>2 DEF Whole, Ref
  <2> QED BY <2>1 DEF Needed
<1>13. GivesValue(op) /\ ~GivesName(op)
  BY <1>8 DEF GivesValue, GivesName
<1> QED BY <1>1, <1>8, <1>10, <1>11, <1>12, <1>13, OneOperation

\* The code of a call, given that of the call inside it.
LEMMA CodeBlock ==
  ASSUME NEW c, NEW k \in Nat, NEW n \in Nat, DOMAIN c.args = 1..n, c.callee \in Callees,
         \A i \in 1..n : Argument(c.args[i]),
         \A i, j \in 1..n : IsCall(c.args[i]) /\ IsCall(c.args[j]) => i = j,
         NEW sh, \A i \in 1..n : IsPlain(c.args[i]) => sh[<<k, i>>] = Shape(c.args[i].ref),
         NEW in, NEW I, NEW J, Block(in, Lawful(sh), {}, {}, I, J),
         \A x \in I : k < x[1],
         \A i \in 1..n : IsCall(c.args[i]) => Result(k + 1) \in I
  PROVE  \E U, M : /\ Block(CallCode(c, k, in), Lawful(sh), {}, {}, U, M)
                   /\ Result(k) \in U
                   /\ \A x \in U : x[1] = k \/ x \in I
<1>1. PICK L : L = Lawful(sh)
  OBVIOUS
<1> DEFINE before == [i \in DOMAIN c.args |-> IF IsCall(c.args[i]) THEN in ELSE CopyIn(c, k, i)]
           after == [i \in DOMAIN c.args |-> CopyBack(c, k, i)]
           Given(i) == IF IsCall(c.args[i]) THEN I
                       ELSE IF c.args[i].dir = "out" THEN {} ELSE {InVal(k, i)}
           Back(i) == IF HasOut(c.args[i]) THEN {OutVal(k, i)} ELSE {}
<1>2. ASSUME NEW i \in 1..n
      PROVE  \E M : /\ Block(before[i], L, {}, {}, Given(i), M)
                    /\ HasOut(c.args[i]) => Temp(k, i) \in M
  <2>1. CASE IsCall(c.args[i])
    <3>1. ~HasOut(c.args[i])
      BY <2>1 DEF Argument, IsPlain, HasOut
    <3> QED BY <1>1, <2>1, <3>1
  <2>2. CASE ~IsCall(c.args[i])
    <3>1. IsPlain(c.args[i])
      BY <2>2 DEF Argument
    <3>2. i \in Nat /\ sh[<<k, i>>] = Shape(c.args[i].ref)
      BY <3>1
    <3>3. before[i] = CopyIn(c, k, i) /\ Given(i) = IF c.args[i].dir = "out" THEN {} ELSE {InVal(k, i)}
      BY <2>2
    <3> HIDE DEF before, Given
    <3> QED BY <1>1, <3>1, <3>2, <3>3, CopyInBlock
  <2> QED BY <2>1, <2>2
<1> DEFINE Name(i) ==
             CHOOSE M : /\ Block(before[i], L, {}, {}, Given(i), M)
                        /\ HasOut(c.args[i]) => Temp(k, i) \in M
<1>3. \A i \in 1..n : /\ Block(before[i], L, {}, {}, Given(i), Name(i))
                      /\ HasOut(c.args[i]) => Temp(k, i) \in Name(i)
  <2> HIDE DEF before, Given
  <2> QED BY <1>2
<1>4. PICK G, H : G = [i \in 1..n |-> Given(i)] /\ H = [i \in 1..n |-> Name(i)]
  OBVIOUS
<1>5. PICK V1, N1 : V1 = Joint(G, n) /\ N1 = Joint(H, n)
  OBVIOUS
<1>6. \A i \in 1..n : \A x \in Given(i) :
        x \in I \/ (x = InVal(k, i) /\ c.args[i].dir # "out" /\ ~IsCall(c.args[i]))
  OBVIOUS
<1>7. \A i \in 1..n : InVal(k, i)[1] = k /\ OutVal(k, i)[1] = k
  BY DEF InVal, OutVal
<1>8. \A x \in I : x[1] # k
  <2> SUFFICES ASSUME NEW x \in I, x[1] = k PROVE FALSE
    OBVIOUS
  <2>1. k < x[1]
    OBVIOUS
  <2> QED BY <2>1
<1>9. ASSUME NEW i \in 1..n, NEW j \in 1..n, i # j PROVE Given(i) \cap Given(j) = {}
  <2> SUFFICES ASSUME NEW x \in Given(i), x \in Given(j) PROVE FALSE
    OBVIOUS
  <2>1. CASE x \in I
    <3>1. x[1] # k
      BY <1>8, <2>1
    <3>2. IsCall(c.args[i]) /\ IsCall(c.args[j])
      BY <1>7, <3>1
    <3> QED BY <1>9, <3>2
  <2>2. CASE x \notin I
    <3>1. x = InVal(k, i) /\ x = InVal(k, j)
      BY <1>6, <2>2
    <3> QED BY <1>9, <3>1 DEF InVal
  <2> QED BY <2>1, <2>2
<1>10. before \in Seq(Seq(L)) /\ Len(before) = n
  <2>1. \A i \in 1..n : before[i] \in Seq(L)
    <3> HIDE DEF before, Given
    <3> QED BY <1>2 DEF Block
  <2>2. DOMAIN before = 1..n
    OBVIOUS
  <2>3. before \in [1..n -> Seq(L)]
    <3>1. before = [i \in 1..n |-> before[i]]
      OBVIOUS
    <3> HIDE DEF before
    <3> QED BY <2>1, <3>1
  <2> HIDE DEF before
  <2> QED BY <2>3
<1>11. Block(FlattenSeq(before), L, {}, {}, V1, N1)
  <2> HIDE DEF before, Given, Name
  <2>1. \A i \in 1..n : Block(before[i], L, {}, {}, G[i], H[i])
    BY <1>3, <1>4
  <2>2. \A i, j \in 1..n : i # j => G[i] \cap G[j] = {}
    BY <1>4, <1>9
  <2> QED BY <2>1, <2>2, <1>5, <1>10, Flattened
<1>12. Block(<<CallOp(c, k)>>, L, V1, N1, {Result(k)}, {})
  <2>1. ASSUME NEW i \in 1..n
        PROVE  IF HasOut(c.args[i]) THEN Temp(k, i) \in N1
               ELSE (IF IsCall(c.args[i]) THEN Result(k + 1) ELSE InVal(k, i)) \in V1
    <3>1. CASE HasOut(c.args[i])
      <4> HIDE DEF before, Given, Name
      <4> QED BY <3>1, <1>3, <1>4, <1>5 DEF Joint
    <3>2. CASE ~HasOut(c.args[i]) /\ IsCall(c.args[i])
      <4>1. Result(k + 1) \in Given(i)
        BY <3>2
      <4> HIDE DEF Given
      <4> QED BY <3>2, <4>1, <1>4, <1>5 DEF Joint
    <3>3. CASE ~HasOut(c.args[i]) /\ ~IsCall(c.args[i])
      <4>1. InVal(k, i) \in Given(i)
        BY <3>3 DEF HasOut
      <4> HIDE DEF Given
      <4> QED BY <3>3, <4>1, <1>4, <1>5 DEF Joint
    <3> QED BY <3>1, <3>2, <3>3
  <2> QED BY <1>1, <2>1, CallBlock
<1>13. \A i \in 1..n : HasOut(c.args[i]) => Temp(k, i) \in N1
  <2> HIDE DEF before, Given, Name
  <2> QED BY <1>3, <1>4, <1>5 DEF Joint
<1>14. ASSUME NEW i \in 1..n PROVE \E M : Block(after[i], L, {}, N1, Back(i), M)
  <2>1. after[i] = CopyBack(c, k, i)
    OBVIOUS
  <2>2. CASE HasOut(c.args[i])
    <3>1. IsPlain(c.args[i])
      BY <2>2 DEF Argument, HasOut
    <3>2. i \in Nat /\ sh[<<k, i>>] = Shape(c.args[i].ref)
      BY <3>1
    <3>3. Temp(k, i) \in N1
      BY <1>13, <2>2
    <3>4. \E M : Block(CopyBack(c, k, i), Lawful(sh), {}, N1,
                      IF HasOut(c.args[i]) THEN {OutVal(k, i)} ELSE {}, M)
      BY <3>1, <3>2, <3>3, CopyBackBlock
    <3> HIDE DEF after
    <3> QED BY <1>1, <2>1, <3>4
  <2>3. CASE ~HasOut(c.args[i])
    <3>1. after[i] = <<>> /\ Back(i) = {}
      BY <2>3 DEF CopyBack
    <3> HIDE DEF after, Back
    <3> QED BY <3>1, NoBlock
  <2> QED BY <2>2, <2>3
<1> DEFINE Name2(i) == CHOOSE M : Block(after[i], L, {}, N1, Back(i), M)
<1>15. \A i \in 1..n : Block(after[i], L, {}, N1, Back(i), Name2(i))
  <2> HIDE DEF after, Back
  <2> QED BY <1>14
<1>16. PICK G2, H2 : G2 = [i \in 1..n |-> Back(i)] /\ H2 = [i \in 1..n |-> Name2(i)]
  OBVIOUS
<1>17. PICK V2, N2 : V2 = Joint(G2, n) /\ N2 = Joint(H2, n)
  OBVIOUS
<1>18. ASSUME NEW i \in 1..n, NEW j \in 1..n, i # j PROVE Back(i) \cap Back(j) = {}
  BY <1>18 DEF OutVal
<1>19. after \in Seq(Seq(L)) /\ Len(after) = n
  <2>1. \A i \in 1..n : after[i] \in Seq(L)
    <3> HIDE DEF after, Back
    <3> QED BY <1>14 DEF Block
  <2>2. after \in [1..n -> Seq(L)]
    <3>1. after = [i \in 1..n |-> after[i]]
      OBVIOUS
    <3> HIDE DEF after
    <3> QED BY <2>1, <3>1
  <2> HIDE DEF after
  <2> QED BY <2>2
<1>20. Block(FlattenSeq(after), L, {}, N1, V2, N2)
  <2> HIDE DEF after, Back, Name2
  <2>1. \A i \in 1..n : Block(after[i], L, {}, N1, G2[i], H2[i])
    BY <1>15, <1>16
  <2>2. \A i, j \in 1..n : i # j => G2[i] \cap G2[j] = {}
    BY <1>16, <1>18
  <2> QED BY <2>1, <2>2, <1>17, <1>19, Flattened
<1>21. \A x \in V1 : x \in I \/ \E i \in 1..n : x = InVal(k, i)
  <2> HIDE DEF Given
  <2> QED BY <1>4, <1>5, <1>6 DEF Joint
<1>22. \A x \in V2 : \E i \in 1..n : x = OutVal(k, i)
  BY <1>16, <1>17 DEF Joint
<1>23. PICK V3 : V3 = V1 \cup {Result(k)}
  OBVIOUS
<1>24. PICK A, B, C : A = FlattenSeq(before) /\ B = <<CallOp(c, k)>> /\ C = FlattenSeq(after)
  OBVIOUS
<1>25. CallCode(c, k, in) = (A \o B) \o C
  BY <1>24 DEF CallCode
<1> HIDE DEF before, after, Given, Back, Name, Name2
<1>26. Result(k)[1] = k /\ \A i \in 1..n : Result(k) # InVal(k, i) /\ Result(k) # OutVal(k, i)
  BY DEF Result, InVal, OutVal
<1>27. Block(A \o B, L, {}, {}, V3, N1)
  <2>1. V1 \cap {Result(k)} = {}
    BY <1>8, <1>21, <1>26
  <2> QED BY <2>1, <1>11, <1>12, <1>23, <1>24, Joined
<1>28. Block((A \o B) \o C, L, {}, {}, V3 \cup V2, N1 \cup N2)
  <2>1. V3 \cap V2 = {}
    <3>1. \A i, j \in 1..n : InVal(k, i) # OutVal(k, j)
      BY DEF InVal, OutVal
    <3> QED BY <3>1, <1>7, <1>8, <1>21, <1>22, <1>23, <1>26
  <2>2. Block(C, L, V3, N1, V2, N2)
    BY <1>20, <1>24, Weaker
  <2> QED BY <2>1, <2>2, <1>27, Joined
<1>29. \A x \in V3 \cup V2 : x[1] = k \/ x \in I
  BY <1>7, <1>21, <1>22, <1>23, <1>26
<1>30. Result(k) \in V3 \cup V2
  BY <1>23
<1> QED BY <1>1, <1>25, <1>28, <1>29, <1>30

\* The code of a call, and of the call inside it.
LEMMA LoweredBlock ==
  ASSUME NEW c \in Calls
  PROVE  \E sh, U, M : Block(Lowered(c), Lawful(sh), {}, {}, U, M)
<1>1. IsP4Call(c)
  BY CallsAssumption
<1>2. PICK n \in Nat : DOMAIN c.args = 1..n
  BY <1>1 DEF IsP4Call
<1>3. /\ \A i \in 1..n : Argument(c.args[i])
      /\ \A i \in 1..n : IsCall(c.args[i]) =>
           LET d == c.args[i].inner
           IN d.args \in Seq(ToSet(d.args)) /\ \A j \in DOMAIN d.args : IsPlain(d.args[j])
      /\ \A i, j \in 1..n : IsCall(c.args[i]) /\ IsCall(c.args[j]) => i = j
  BY <1>1, <1>2 DEF IsP4Call, Argument, IsPlain
<1>4. c.callee \in Callees
  BY DEF Callees
<1> DEFINE inner == {i \in DOMAIN c.args : IsCall(c.args[i])}
<1>5. CASE inner = {}
  <2>1. PICK sh : sh = [x \in Nat \X Nat |-> Shape(c.args[x[2]].ref)]
    OBVIOUS
  <2>2. \A i \in 1..n : sh[<<1, i>>] = Shape(c.args[i].ref)
    BY <2>1
  <2>3. \A i \in 1..n : ~IsCall(c.args[i])
    BY <1>2, <1>5
  <2>4. PICK in, I, J : in = <<>> /\ I = {} /\ Block(in, Lawful(sh), {}, {}, I, J)
    BY NoBlock
  <2>5. \E U, M : Block(CallCode(c, 1, in), Lawful(sh), {}, {}, U, M)
    <3>1. /\ \A x \in I : 1 < x[1]
          /\ \A i \in 1..n : IsCall(c.args[i]) => Result(1 + 1) \in I
          /\ Block(in, Lawful(sh), {}, {}, I, J)
      BY <2>3, <2>4
    <3> QED BY <2>2, <3>1, <1>2, <1>3, <1>4, CodeBlock
  <2>6. Lowered(c) = CallCode(c, 1, in)
    BY <1>5, <2>4 DEF Lowered
  <2> QED BY <2>5, <2>6
<1>6. CASE inner # {}
  <2>1. PICK j : j = CHOOSE i \in inner : TRUE
    OBVIOUS
  <2>2. j \in 1..n /\ IsCall(c.args[j])
    BY <1>2, <1>6, <2>1
  <2>3. PICK d : d = c.args[j].inner
    OBVIOUS
  <2>4. d.args \in Seq(ToSet(d.args)) /\ \A i \in DOMAIN d.args : IsPlain(d.args[i])
    BY <1>3, <2>2, <2>3
  <2>5. PICK l \in Nat : DOMAIN d.args = 1..l
    BY <2>4
  <2>6. d.callee \in Callees
    BY <1>2, <2>2, <2>3 DEF Callees
  <2>7. PICK sh : sh = [x \in Nat \X Nat |-> IF x[1] = 1 THEN Shape(c.args[x[2]].ref)
                                            ELSE Shape(d.args[x[2]].ref)]
    OBVIOUS
  <2>8. /\ \A i \in 1..n : sh[<<1, i>>] = Shape(c.args[i].ref)
        /\ \A i \in 1..l : sh[<<2, i>>] = Shape(d.args[i].ref)
    <3>1. \A i \in 1..n : <<1, i>> \in Nat \X Nat
      OBVIOUS
    <3>2. \A i \in 1..l : <<2, i>> \in Nat \X Nat
      OBVIOUS
    <3> QED BY <2>7, <3>1, <3>2
  <2>9. PICK none, E, F : none = <<>> /\ E = {} /\ Block(none, Lawful(sh), {}, {}, E, F)
    BY NoBlock
  <2>10. /\ \A i \in 1..l : Argument(d.args[i]) /\ ~IsCall(d.args[i])
         /\ \A i \in 1..l : IsPlain(d.args[i])
    BY <2>4, <2>5 DEF Argument, IsPlain
  <2>11. \E U, M : /\ Block(CallCode(d, 2, none), Lawful(sh), {}, {}, U, M)
                   /\ Result(2) \in U
                   /\ \A x \in U : x[1] = 2 \/ x \in E
    <3>1. /\ \A x \in E : 2 < x[1]
          /\ \A i \in 1..l : IsCall(d.args[i]) => Result(2 + 1) \in E
          /\ \A i, g \in 1..l : IsCall(d.args[i]) /\ IsCall(d.args[g]) => i = g
          /\ Block(none, Lawful(sh), {}, {}, E, F)
      BY <2>9, <2>10
    <3> QED BY <2>5, <2>6, <2>8, <2>10, <3>1, CodeBlock
  <2>12. PICK I, J : /\ Block(CallCode(d, 2, none), Lawful(sh), {}, {}, I, J)
                     /\ Result(2) \in I
                     /\ \A x \in I : x[1] = 2
    BY <2>9, <2>11
  <2>13. PICK in : in = CallCode(d, 2, none)
    OBVIOUS
  <2>14. \A x \in I : 1 < x[1]
    BY <2>12
  <2>15. Result(1 + 1) \in I
    BY <2>12
  <2>16. \E U, M : Block(CallCode(c, 1, in), Lawful(sh), {}, {}, U, M)
    BY <2>8, <2>12, <2>13, <2>14, <2>15, <1>2, <1>3, <1>4, CodeBlock
  <2>17. Lowered(c) = CallCode(c, 1, in)
    BY <1>6, <2>1, <2>3, <2>9, <2>13 DEF Lowered
  <2> QED BY <2>16, <2>17
<1> QED BY <1>5, <1>6

\* A block that needs nothing is well formed.
LEMMA BlockWellFormed ==
  ASSUME NEW sh, NEW U, NEW M, Block(code, Lawful(sh), {}, {}, U, M),
         phase \in {"rewrite", "done"}
  PROVE  IInv
<1>1. /\ code \in Seq(Lawful(sh)) /\ code \in Seq(Operation)
      /\ \A i \in DOMAIN code : code[i] \in Lawful(sh) /\ code[i] \in Operation
  <2>1. code \in Seq(Lawful(sh))
    BY DEF Block
  <2>2. Lawful(sh) \subseteq Operation
    BY DEF Lawful
  <2>3. code \in Seq(Operation)
    BY <2>1, <2>2, SeqMonotonic
  <2> QED BY <2>1, <2>3
<1>2. \A i \in DOMAIN code :
        /\ \A x \in Values(code[i]) : \E j \in 1..i - 1 : GivesValue(code[j]) /\ code[j].res = x
        /\ \A x \in Needed(code[i]) : \E j \in 1..i - 1 : GivesName(code[j]) /\ code[j].res = x
  BY DEF Block
<1>3. Once
  BY DEF Block, Once
<1>4. NoAliasedArguments
  <2> SUFFICES ASSUME NEW p \in DOMAIN code, code[p].k = "call",
                      NEW i \in DOMAIN code[p].args, NEW j \in DOMAIN code[p].args,
                      i # j, code[p].args[i].dir # "in", code[p].args[j].dir # "in"
               PROVE  code[p].args[i].ref.root # code[p].args[j].ref.root
    BY DEF NoAliasedArguments, Of
  <2> QED BY <1>1 DEF Lawful
<1>5. DefinedBeforeUse
  <2>1. ASSUME NEW i \in DOMAIN code, NEW r \in Refs(code[i])
        PROVE  /\ r.def = <<>> \/ \E j \in 1..i - 1 : GivesName(code[j]) /\ code[j].res = r.def
               /\ r.root \in Variable \/ \E j \in 1..i - 1 : GivesName(code[j]) /\ code[j].res = r.root
    BY <1>2 DEF Needed
  <2> QED BY <1>2, <2>1 DEF DefinedBeforeUse, GivesName, GivesValue
<1>6. ASSUME NEW i \in DOMAIN code, NEW r \in Refs(code[i]), NEW x, Typed(r, x, sh)
      PROVE  TypeOf(r) = sh[Key(x)]
  <2>1. r \in Reference
    BY <1>1, RefsFacts
  <2>2. CASE r.root \in Variable
    BY <1>6, <2>2 DEF TypeOf, Typed, Shape
  <2>3. CASE r.root \notin Variable
    <3>1. r.field = "all" /\ r.root \in Temporary
      BY <2>1, <2>3, ReferenceFacts
    <3>2. PICK j \in 1..i - 1 : GivesName(code[j]) /\ code[j].res = r.root
      BY <1>2, <2>3 DEF Needed
    <3>3. j \in DOMAIN code /\ code[j] \in Operation
      BY <1>1, CodeFacts
    <3>4. code[j].k = "variable"
      BY <3>1, <3>2, <3>3, OpFacts, Names DEF GivesName
    <3>5. \A p \in DOMAIN code :
            code[p].k = "variable" /\ code[p].res = r.root => code[p].fields = sh[Key(x)]
      BY <1>1, <1>6, <2>3 DEF Lawful, Typed
    <3>6. FieldsAt(r.root) = {sh[Key(x)]}
      BY <3>2, <3>3, <3>4, <3>5 DEF FieldsAt, Of
    <3>7. TypeOf(r) = UNION FieldsAt(r.root)
      BY <2>3, <3>1 DEF TypeOf, FieldsAt
    <3> QED BY <3>6, <3>7
  <2> QED BY <2>2, <2>3
<1>7. TypeOK
  <2>1. ASSUME NEW i \in Of("read"), NEW j \in Of("assign"), code[i].res = code[j].val
        PROVE  TypeOf(code[i].ref) = TypeOf(code[j].ref)
    <3>1. /\ i \in DOMAIN code /\ j \in DOMAIN code
          /\ code[i].k = "read" /\ code[j].k = "assign"
      BY DEF Of
    <3>2. code[i].ref \in Refs(code[i]) /\ code[j].ref \in Refs(code[j])
      BY <1>1, <3>1, RefsFacts
    <3>3. /\ Typed(code[i].ref, code[i].res, sh)
          /\ Typed(code[j].ref, code[i].res, sh)
      BY <1>1, <2>1, <3>1 DEF Lawful
    <3> QED BY <1>6, <3>1, <3>2, <3>3
  <2>2. \A i \in DOMAIN code : code[i].k \in {"variable", "symbol_ref", "read", "assign", "call"}
    BY <1>1, OpFacts
  <2> QED BY <2>1, <2>2 DEF TypeOK
<1> QED BY <1>1, <1>3, <1>4, <1>5, <1>7 DEF IInv

LEMMA InitStep == Init => IInv
<1> SUFFICES ASSUME Init PROVE IInv
  OBVIOUS
<1>1. PICK sh, U, M : Block(code, Lawful(sh), {}, {}, U, M)
  BY LoweredBlock DEF Init
<1> QED BY <1>1, BlockWellFormed DEF Init

LEMMA Inductive == Spec => []IInv
<1>1. Init => IInv
  BY InitStep
<1>2. IInv /\ [Next]_vars => IInv'
  BY NextStep
<1> QED BY <1>1, <1>2, PTL DEF Spec

-----------------------------------------------------------------------------
(* The theorems *)

\* What is assigned always has the type of the place it is assigned to: a
\* reference put for a temporary has the fields of the temporary, in any order of
\* the rewrites.
THEOREM TypeCorrect == Spec => []TypeOK
<1>1. IInv => TypeOK
  BY DEF IInv
<1> QED BY <1>1, Inductive, PTL

\* No callee gets two references to the same storage, whatever copies are
\* dropped before: what Passes.td says of function parameters stays true.
THEOREM ArgumentsNeverAlias == Spec => []NoAliasedArguments
<1>1. IInv => NoAliasedArguments
  BY DEF IInv
<1> QED BY <1>1, Inductive, PTL

\* Neither pattern drops an operation another one still needs, or moves a
\* reference to where it is not available yet.
THEOREM AlwaysDefined == Spec => []DefinedBeforeUse
<1>1. IInv => DefinedBeforeUse
  BY DEF IInv
<1> QED BY <1>1, Inductive, PTL

=============================================================================
