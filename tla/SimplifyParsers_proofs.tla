------------------------ MODULE SimplifyParsers_proofs ------------------------
(***************************************************************************)
(* For every set of finite parsers: every invariant the runs check of the  *)
(* pass.  The argument is about *places*: each state that is kept is at    *)
(* one index of the body of one state.  Consecutive places are joined by   *)
(* an edge of `succ`, the only edge of the source parser into the later.   *)
(***************************************************************************)
EXTENDS SimplifyParsers, FiniteSetTheorems, FunctionTheorems, TLAPS

\* The source state that supplied the terminator of s.
Final(s) == body[s][Len(body[s])]

\* In the source parser, q has a transition to t.
Leads(q, t) == \E i \in DOMAIN src.trans[q].next : src.trans[q].next[i] = t

\* What is left of the source parser once the unreachable states are erased.
Kept == {s \in src.states : s \in reachable \/ src.trans[s].kind = "accept"}

\* s and t belong in one chain, t next to s.
Chained(s, t) ==
  /\ s \in Kept /\ t \in Kept
  /\ src.trans[s].next = <<t>>
  /\ src.ann[s] # "other" /\ src.ann[t] = "none"
  /\ t # src.start
  /\ \A q \in Kept : Leads(q, t) => q = s

HasPred(t) == \E q \in State : succ[q] = t

\* What the walk has visited hangs together: a set of states without the entry
\* that it has got into, it has got into by an edge from outside.
InvReach ==
  /\ reachable \subseteq src.states
  /\ reachable # {} => src.start \in reachable
  /\ \A C \in SUBSET State : src.start \notin C /\ C \cap reachable # {} =>
       \E s \in reachable \ C : \E t \in C : Leads(s, t)
  /\ phase # "reach" =>
       reachable # {} /\ \A s \in reachable : NextStates(src.trans[s]) \subseteq reachable

\* Until the chains are known nothing is spliced.
InvStart ==
  /\ phase \in {"reach", "erase", "chain"} =>
       body = [s \in State |-> <<s>>] /\ trans = src.trans
  /\ phase \in {"reach", "erase"} => states = src.states
  /\ phase = "chain" => states = Kept

Chaining == phase \in {"pick", "merge", "done"}

\* The map succ, computed before the first splice, is never out of date.
InvSucc == Chaining => \A s, t \in State : succ[s] = t <=> Chained(s, t)

\* A body is a chain, and only the head of a chain has taken states in.
IsChain(s) ==
  /\ Len(body[s]) >= 1 /\ body[s][1] = s
  /\ \A i \in 1..Len(body[s]) : body[s][i] \in Kept
  /\ \A i \in 1..Len(body[s]) - 1 : succ[body[s][i]] = body[s][i + 1]
  /\ trans[s] = src.trans[Final(s)]
  /\ Len(body[s]) > 1 => ~HasPred(s)

InvBodies == Chaining => \A s \in states : IsChain(s)

HasPlace(q) == \E s \in states : \E i \in 1..Len(body[s]) : body[s][i] = q

OnePlace(s, r) ==
  \A i \in 1..Len(body[s]), j \in 1..Len(body[r]) :
    body[s][i] = body[r][j] => s = r /\ i = j

InvPlaces ==
  Chaining => /\ \A q \in Kept : HasPlace(q)
              /\ \A s, r \in states : OnePlace(s, r)

\* The heads still to process are untouched, the others have all of their chain.
InvHeads ==
  Chaining =>
    /\ \A h \in heads : h \in states /\ ~HasPred(h) /\ body[h] = <<h>>
    /\ \A s \in states : HasPred(s) \/ s \in heads \/ (phase = "merge" /\ s = head)
                           \/ succ[Final(s)] = None
    /\ phase = "merge" =>
         head \in states /\ head \notin heads /\ ~HasPred(head) /\ tail = Final(head)
    /\ phase = "done" => heads = {}

IInv ==
  /\ TypeOK /\ states \subseteq src.states
  /\ InvReach /\ InvStart /\ InvSucc /\ InvBodies /\ InvPlaces /\ InvHeads

-----------------------------------------------------------------------------
(* Facts about parsers *)

LEMMA ParserFacts ==
  ASSUME NEW p \in Parsers
  PROVE  /\ p.states \subseteq State /\ IsFiniteSet(p.states)
         /\ p.start \in p.states /\ p.start \in State
         /\ \A s \in State : /\ p.trans[s] \in Transition
                            /\ p.trans[s].next \in Seq(State)
                            /\ DOMAIN p.trans[s].next = 1..Len(p.trans[s].next)
         /\ \A s \in p.states : \A i \in DOMAIN p.trans[s].next :
              p.trans[s].next[i] \in p.states
         /\ \A s \in p.states : p.trans[s].kind = "to" <=> p.trans[s].next # <<>>
<1>1. IsParser(p)
  BY ParsersAssumption
<1>2. \A s \in State : /\ p.trans[s] \in Transition
                     /\ p.trans[s].next \in Seq(State)
                     /\ DOMAIN p.trans[s].next = 1..Len(p.trans[s].next)
  BY <1>1 DEF IsParser, Transition
<1> QED BY <1>1, <1>2 DEF IsParser, NextStates

\* What is kept leads to what is kept, and holds the entry.
LEMMA KeptFacts ==
  ASSUME TypeOK, InvReach, phase # "reach"
  PROVE  /\ Kept \subseteq src.states /\ src.start \in Kept
         /\ \A q \in Kept : \A t : Leads(q, t) => t \in Kept
<1>1. Kept \subseteq src.states /\ src.start \in Kept
  BY ParserFacts DEF TypeOK, InvReach, Kept
<1>2. ASSUME NEW q \in Kept, NEW t, Leads(q, t) PROVE t \in Kept
  <2>1. PICK i \in DOMAIN src.trans[q].next : src.trans[q].next[i] = t
    BY <1>2 DEF Leads
  <2>2. q \in src.states /\ t \in src.states
    BY <1>1, <2>1, ParserFacts DEF TypeOK
  <2>3. src.trans[q].next # <<>>
    BY <2>1
  <2>4. q \in reachable
    BY <2>2, <2>3, ParserFacts DEF Kept, TypeOK
  <2>5. t \in NextStates(src.trans[q])
    BY <2>1 DEF NextStates
  <2> QED BY <2>2, <2>4, <2>5 DEF InvReach, Kept
<1> QED BY <1>1, <1>2

\* The edges into a state of a finite parser are finitely many.
LEMMA EdgesFinite ==
  ASSUME TypeOK, states \subseteq src.states, NEW t
  PROVE  IsFiniteSet(EdgesTo(t))
<1> DEFINE E(q) == {<<q, i>> : i \in {j \in DOMAIN trans[q].next : trans[q].next[j] = t}}
           f == [q \in states |-> E(q)]
           T == {E(q) : q \in states}
<1>1. IsFiniteSet(states)
  BY ParserFacts, FS_Subset DEF TypeOK
<1>2. ASSUME NEW q \in states PROVE IsFiniteSet(E(q))
  <2>1. trans[q].next \in Seq(State)
    BY DEF TypeOK, Transition
  <2>2. DOMAIN trans[q].next = 1..Len(trans[q].next) /\ Len(trans[q].next) \in Nat
    BY <2>1
  <2>3. IsFiniteSet({q} \X (1..Len(trans[q].next)))
    <3>1. IsFiniteSet({q})
      BY FS_Singleton
    <3>2. IsFiniteSet(1..Len(trans[q].next))
      <4>1. 1 \in Int /\ Len(trans[q].next) \in Int
        BY <2>2
      <4> QED BY <4>1, FS_Interval
    <3> QED BY <3>1, <3>2, FS_Product
  <2>4. E(q) \subseteq {q} \X (1..Len(trans[q].next))
    BY <2>2
  <2> QED BY <2>3, <2>4, FS_Subset
<1>3. IsFiniteSet(T)
  <2>1. f \in Surjection(states, T)
    BY DEF Surjection
  <2> QED BY <1>1, <2>1, FS_Surjection
<1>4. IsFiniteSet(UNION T)
  BY <1>2, <1>3, FS_UNION
<1> QED BY <1>4 DEF EdgesTo

\* A state that s alone leads to, once and not as the entry, has indegree one.
LEMMA IndegreeOne ==
  ASSUME TypeOK, states \subseteq src.states,
         NEW s \in states, NEW t \in State, trans[s].next = <<t>>
  PROVE  Indegree(t) = 1 <=>
           /\ t # src.start
           /\ \A q \in states : \A i \in DOMAIN trans[q].next :
                trans[q].next[i] = t => q = s
<1>1. /\ IsFiniteSet(EdgesTo(t)) /\ Cardinality(EdgesTo(t)) \in Nat
  BY EdgesFinite, FS_CardinalityType
<1>2. <<s, 1>> \in EdgesTo(t)
  BY DEF EdgesTo
<1>3. Cardinality(EdgesTo(t)) # 0
  BY <1>1, <1>2, FS_EmptySet
<1>4. Indegree(t) = 1 <=> t # src.start /\ Cardinality(EdgesTo(t)) = 1
  BY <1>1, <1>3 DEF Indegree
<1>5. Cardinality(EdgesTo(t)) = 1 <=> EdgesTo(t) = {<<s, 1>>}
  BY <1>1, <1>2, FS_Singleton
<1>6. \A q \in states : \A i \in DOMAIN trans[q].next :
        trans[q].next[i] = t => <<q, i>> \in EdgesTo(t)
  BY DEF EdgesTo
<1>7. ASSUME \A q \in states : \A i \in DOMAIN trans[q].next :
               trans[q].next[i] = t => q = s,
             NEW e \in EdgesTo(t)
      PROVE  e = <<s, 1>>
  <2>1. PICK q \in states : \E i \in DOMAIN trans[q].next :
          e = <<q, i>> /\ trans[q].next[i] = t
    BY DEF EdgesTo
  <2>2. q = s
    BY <2>1, <1>7
  <2> QED BY <2>1, <2>2
<1> QED BY <1>2, <1>4, <1>5, <1>6, <1>7

-----------------------------------------------------------------------------
(* The steps before the chains are known *)

LEMMA InitStep == Init => IInv
<1> SUFFICES ASSUME Init PROVE IInv
  OBVIOUS
<1>1. TypeOK /\ states \subseteq src.states
  <2>1. src \in Parsers /\ IsParser(src)
    BY ParsersAssumption DEF Init
  <2>2. trans \in [State -> Transition] /\ states \in SUBSET State /\ states \subseteq src.states
    BY <2>1 DEF Init, IsParser
  <2>3. body \in [State -> Seq(State)]
    BY DEF Init
  <2>4. succ \in [State -> State \cup {None}]
    BY DEF Init
  <2>5. /\ phase \in {"reach", "erase", "chain", "pick", "merge", "done"}
        /\ reachable \in SUBSET State
        /\ errors \in SUBSET {"never ends", "unreachable accept"}
        /\ heads \in SUBSET State
        /\ head \in State \cup {None} /\ tail \in State \cup {None}
    BY DEF Init
  <2> QED BY <2>1, <2>2, <2>3, <2>4, <2>5 DEF TypeOK
<1>2. InvReach
  BY DEF Init, InvReach
<1>3. InvStart
  BY DEF Init, InvStart
<1>4. ~Chaining
  BY DEF Init, Chaining
<1> QED BY <1>1, <1>2, <1>3, <1>4 DEF IInv, InvSucc, InvBodies, InvPlaces, InvHeads

\* While nothing is chained the later parts of the invariant ask nothing.
LEMMA BeforeChaining == ASSUME ~Chaining PROVE InvSucc /\ InvBodies /\ InvPlaces /\ InvHeads
  BY DEF InvSucc, InvBodies, InvPlaces, InvHeads

LEMMA VisitStep ==
  ASSUME IInv, NEW s \in State, Visit(s)
  PROVE  IInv'
<1>1. /\ phase = "reach" /\ phase' = "reach" /\ src' = src /\ s \in Frontier
      /\ reachable' = reachable \cup {s} /\ states' = states /\ body' = body
      /\ trans' = trans /\ states = src.states /\ trans = src.trans
      /\ TypeOK /\ InvReach /\ src \in Parsers
  BY DEF Visit, IInv, InvStart, TypeOK
<1>2. TypeOK' /\ states' \subseteq src'.states
  BY DEF IInv, TypeOK, Visit
<1>3. \A q, t : Leads(q, t)' <=> Leads(q, t)
  BY <1>1 DEF Leads
<1>4. reachable = {} => s = src.start
  BY <1>1 DEF Frontier
<1>5. reachable # {} => \E q \in reachable : Leads(q, s)
  BY <1>1 DEF Frontier, NextStates, Leads
<1>6. s \in src.states
  <2>1. CASE reachable = {}
    BY <2>1, <1>1, <1>4, ParserFacts
  <2>2. CASE reachable # {}
    BY <2>2, <1>1, <1>5, ParserFacts DEF Leads, InvReach
  <2> QED BY <2>1, <2>2
<1>7. InvReach'
  <2>1. ASSUME NEW C \in SUBSET State, src.start \notin C, C \cap reachable' # {}
        PROVE  \E q \in reachable' \ C : \E t \in C : Leads(q, t)
    <3>1. CASE C \cap reachable # {}
      BY <3>1, <2>1, <1>1 DEF InvReach
    <3>2. CASE C \cap reachable = {}
      <4>1. s \in C /\ reachable # {}
        BY <3>2, <2>1, <1>1, <1>4
      <4> QED BY <4>1, <3>2, <1>1, <1>5
    <3> QED BY <3>1, <3>2
  <2>2. reachable' \subseteq src.states /\ src.start \in reachable'
    BY <1>1, <1>4, <1>6 DEF InvReach
  <2> QED BY <2>1, <2>2, <1>1, <1>3 DEF InvReach
<1>8. InvStart'
  BY <1>1 DEF IInv, InvStart
<1>9. ~Chaining'
  BY <1>1 DEF Chaining
<1> QED BY <1>2, <1>7, <1>8, <1>9 DEF IInv, InvSucc, InvBodies, InvPlaces, InvHeads

LEMMA FinishReachStep ==
  ASSUME IInv, FinishReach
  PROVE  IInv'
<1>1. /\ phase = "reach" /\ phase' = "erase" /\ src' = src /\ Frontier = {}
      /\ reachable' = reachable /\ states' = states /\ body' = body
      /\ trans' = trans /\ trans = src.trans /\ TypeOK /\ InvReach
  BY DEF FinishReach, IInv, InvStart
<1>2. TypeOK' /\ states' \subseteq src'.states
  BY DEF IInv, TypeOK, FinishReach
<1>3. \A q, t : Leads(q, t)' <=> Leads(q, t)
  BY <1>1 DEF Leads
<1>4. reachable # {} /\ \A q \in reachable : NextStates(src.trans[q]) \subseteq reachable
  <2>1. reachable # {}
    BY <1>1 DEF Frontier
  <2>2. UNION {NextStates(trans[q]) : q \in reachable} \subseteq reachable
    BY <1>1, <2>1 DEF Frontier
  <2>3. ASSUME NEW q \in reachable PROVE NextStates(trans[q]) \subseteq reachable
    BY <2>2
  <2> QED BY <1>1, <2>1, <2>3
<1>5. InvReach'
  BY <1>1, <1>3, <1>4 DEF InvReach
<1>6. InvStart'
  BY <1>1 DEF IInv, InvStart
<1>7. ~Chaining'
  BY <1>1 DEF Chaining
<1> QED BY <1>2, <1>5, <1>6, <1>7 DEF IInv, InvSucc, InvBodies, InvPlaces, InvHeads

LEMMA EraseStep ==
  ASSUME IInv, EraseUnreachable
  PROVE  IInv'
<1>1. /\ phase = "erase" /\ phase' = "chain" /\ src' = src
      /\ reachable' = reachable /\ body' = body /\ trans' = trans
      /\ states' = {s \in states : s \in reachable \/ IsEnd(s, "accept")}
      /\ trans = src.trans /\ states = src.states
      /\ TypeOK /\ InvReach
  BY DEF EraseUnreachable, IInv, InvStart
<1>2. TypeOK' /\ states' \subseteq src'.states
  BY DEF IInv, TypeOK, EraseUnreachable
<1>3. \A q, t : Leads(q, t)' <=> Leads(q, t)
  BY <1>1 DEF Leads
<1>4. InvReach'
  BY <1>1, <1>3 DEF InvReach
<1>5. states' = Kept'
  BY <1>1 DEF Kept, IsEnd
<1>6. InvStart'
  BY <1>1, <1>5 DEF IInv, InvStart
<1>7. ~Chaining'
  BY <1>1 DEF Chaining
<1> QED BY <1>2, <1>4, <1>6, <1>7 DEF IInv, InvSucc, InvBodies, InvPlaces, InvHeads

\* Where nothing is spliced yet, the indegrees of the pass are those of the source.
LEMMA CanChainIsChained ==
  ASSUME TypeOK, states \subseteq src.states, states = Kept, trans = src.trans,
         NEW s \in states, NEW t \in states
  PROVE  CanChain(s, t) <=> Chained(s, t)
<1>1. t \in State
  BY DEF TypeOK
<1>2. CASE trans[s].next = <<t>>
  BY <1>1, <1>2, IndegreeOne DEF CanChain, Chained, Leads
<1>3. CASE trans[s].next # <<t>>
  BY <1>3 DEF CanChain, Chained
<1> QED BY <1>2, <1>3

LEMMA FindChainsStep ==
  ASSUME IInv, FindChains
  PROVE  IInv'
<1>1. /\ phase = "chain" /\ phase' = "pick" /\ src' = src
      /\ reachable' = reachable /\ body' = body /\ trans' = trans /\ states' = states
      /\ trans = src.trans /\ states = Kept /\ body = [s \in State |-> <<s>>]
      /\ TypeOK /\ InvReach /\ states \subseteq src.states
  BY DEF FindChains, IInv, InvStart
<1>2. /\ succ' = [s \in State |-> IF s \in states /\ \E t \in states : CanChain(s, t)
                                  THEN CHOOSE t \in states : CanChain(s, t) ELSE None]
      /\ heads' = {s \in states : succ'[s] # None /\ \A q \in states : succ'[q] # s}
  BY DEF FindChains
<1>3. TypeOK' /\ states' \subseteq src'.states
  <2>1. succ' \in [State -> State \cup {None}]
    <3>1. ASSUME NEW s \in State
          PROVE  (IF s \in states /\ \E t \in states : CanChain(s, t)
                  THEN CHOOSE t \in states : CanChain(s, t) ELSE None) \in State \cup {None}
      BY <1>1 DEF TypeOK
    <3> QED BY <3>1, <1>2
  <2> QED BY <1>1, <1>2, <2>1 DEF TypeOK, FindChains
<1>4. /\ \A q, t : Leads(q, t)' <=> Leads(q, t)
      /\ Kept' = Kept
      /\ \A q, t : Chained(q, t)' <=> Chained(q, t)
  BY <1>1 DEF Leads, Kept, Chained
<1>5. InvReach'
  BY <1>1, <1>4 DEF InvReach
<1>6. InvStart'
  BY <1>1 DEF InvStart
<1>7. \A s, t \in State : succ'[s] = t <=> Chained(s, t)
  <2> SUFFICES ASSUME NEW s \in State, NEW t \in State
               PROVE  succ'[s] = t <=> Chained(s, t)
    OBVIOUS
  <2>1. ASSUME NEW x \in states, NEW y \in states, s \in states,
               CanChain(s, x), CanChain(s, y)
        PROVE  x = y
    BY <2>1 DEF CanChain
  <2>2. CASE s \in states /\ \E x \in states : CanChain(s, x)
    <3>1. PICK x \in states : CanChain(s, x) /\ succ'[s] = x
      BY <2>2, <1>2
    <3>2. Chained(s, x) /\ x \in State
      BY <2>2, <3>1, <1>1, CanChainIsChained DEF TypeOK
    <3>3. Chained(s, t) => t = x
      BY <3>2 DEF Chained
    <3> QED BY <3>1, <3>2, <3>3
  <2>3. CASE ~(s \in states /\ \E x \in states : CanChain(s, x))
    <3>1. succ'[s] = None
      BY <2>3, <1>2
    <3>2. ~Chained(s, t)
      BY <2>3, <1>1, CanChainIsChained DEF Chained
    <3> QED BY <3>1, <3>2, NoneAssumption
  <2> QED BY <2>2, <2>3
<1>8. \A s \in State : body'[s] = <<s>> /\ Len(body'[s]) = 1 /\ body'[s][1] = s
  BY <1>1
<1>9. \A s \in states : s \in State /\ Final(s)' = s
  BY <1>1, <1>8 DEF Final, TypeOK
<1>10. InvSucc'
  BY <1>4, <1>7 DEF InvSucc
<1>11. InvBodies'
  <2>1. ASSUME NEW s \in states PROVE IsChain(s)'
    <3>1. /\ Len(body'[s]) = 1 /\ body'[s][1] = s /\ Final(s)' = s
          /\ s \in Kept' /\ trans'[s] = src'.trans[s]
      BY <1>1, <1>4, <1>8, <1>9
    <3>2. 1..Len(body'[s]) = {1} /\ 1..Len(body'[s]) - 1 = {}
      BY <3>1
    <3> QED BY <3>1, <3>2 DEF IsChain
  <2> QED BY <1>1, <2>1 DEF InvBodies
<1>12. InvPlaces'
  <2>1. \A s \in states : body'[s][1] = s /\ 1..Len(body'[s]) = {1}
    <3>1. ASSUME NEW s \in states PROVE 1..Len(body'[s]) = {1}
      <4>1. Len(body'[s]) = 1
        BY <1>8, <1>9
      <4> QED BY <4>1
    <3> QED BY <1>8, <1>9, <3>1
  <2>2. \A q \in Kept' : HasPlace(q)'
    BY <1>1, <1>4, <2>1 DEF HasPlace
  <2>3. \A s, r \in states' : OnePlace(s, r)'
    BY <1>1, <2>1 DEF OnePlace
  <2> QED BY <2>2, <2>3 DEF InvPlaces
<1>13. \A t \in State : HasPred(t)' => \E q \in states : succ'[q] = t
  BY <1>1, <1>7 DEF HasPred, Chained
<1>14. InvHeads'
  BY <1>1, <1>2, <1>8, <1>9, <1>13 DEF InvHeads, HasPred
<1> QED BY <1>3, <1>5, <1>6, <1>10, <1>11, <1>12, <1>14 DEF IInv

-----------------------------------------------------------------------------
(* The steps that splice *)

\* Once the chains are known, a step that leaves the parser and the maps alone
\* keeps what only speaks of them.
LEMMA SameParser ==
  ASSUME IInv, Chaining, Chaining', src' = src, reachable' = reachable, succ' = succ
  PROVE  /\ InvReach' /\ InvStart' /\ InvSucc'
         /\ \A q, t : Leads(q, t)' <=> Leads(q, t)
         /\ Kept' = Kept
         /\ \A t : HasPred(t)' <=> HasPred(t)
<1>1. /\ \A q, t : Leads(q, t)' <=> Leads(q, t)
      /\ Kept' = Kept
      /\ \A t : HasPred(t)' <=> HasPred(t)
      /\ \A q, t : Chained(q, t)' <=> Chained(q, t)
  BY DEF Leads, Kept, HasPred, Chained
<1>2. phase # "reach" /\ phase' \notin {"reach", "erase", "chain"}
  BY DEF Chaining
<1>3. InvReach'
  BY <1>1, <1>2 DEF IInv, InvReach
<1>4. InvStart'
  BY <1>2 DEF InvStart
<1>5. InvSucc'
  BY <1>1 DEF IInv, InvSucc
<1> QED BY <1>1, <1>3, <1>4, <1>5

\* And one that also splices nothing keeps the chains and the places.
LEMMA SameBodies ==
  ASSUME IInv, Chaining, Chaining', src' = src, reachable' = reachable, succ' = succ,
         states' = states, body' = body, trans' = trans
  PROVE  /\ InvReach' /\ InvStart' /\ InvSucc' /\ InvBodies' /\ InvPlaces'
         /\ \A t : HasPred(t)' <=> HasPred(t)
         /\ \A s : Final(s)' = Final(s)
<1>1. /\ InvReach' /\ InvStart' /\ InvSucc'
      /\ Kept' = Kept
      /\ \A t : HasPred(t)' <=> HasPred(t)
  BY SameParser
<1>2. \A s : Final(s)' = Final(s)
  BY DEF Final
<1>3. \A s : IsChain(s)' <=> IsChain(s)
  BY <1>1, <1>2 DEF IsChain
<1>4. InvBodies'
  BY <1>3 DEF IInv, InvBodies
<1>5. \A s, r : OnePlace(s, r)' <=> OnePlace(s, r)
  BY DEF OnePlace
<1>6. \A q : HasPlace(q)' <=> HasPlace(q)
  BY DEF HasPlace
<1>7. InvPlaces'
  BY <1>1, <1>5, <1>6 DEF IInv, InvPlaces
<1> QED BY <1>1, <1>2, <1>4, <1>7

LEMMA PickHeadStep ==
  ASSUME IInv, NEW h \in State, PickHead(h)
  PROVE  IInv'
<1>1. /\ phase = "pick" /\ phase' = "merge" /\ h \in heads /\ heads' = heads \ {h}
      /\ head' = h /\ tail' = h /\ Chaining /\ Chaining'
      /\ src' = src /\ reachable' = reachable /\ succ' = succ
      /\ states' = states /\ body' = body /\ trans' = trans
  BY DEF PickHead, Chaining
<1>2. TypeOK' /\ states' \subseteq src'.states
  BY <1>1 DEF IInv, TypeOK, PickHead
<1>3. /\ InvReach' /\ InvStart' /\ InvSucc' /\ InvBodies' /\ InvPlaces'
      /\ \A t : HasPred(t)' <=> HasPred(t)
      /\ \A s : Final(s)' = Final(s)
  BY <1>1, SameBodies
<1>4. h \in states /\ ~HasPred(h) /\ Final(h) = h
  BY <1>1 DEF IInv, InvHeads, Final
<1>5. InvHeads'
  BY <1>1, <1>3, <1>4 DEF IInv, InvHeads
<1> QED BY <1>2, <1>3, <1>5 DEF IInv

LEMMA ChainDoneStep ==
  ASSUME IInv, ChainDone
  PROVE  IInv'
<1>1. /\ phase = "merge" /\ phase' = "pick" /\ succ[tail] = None /\ heads' = heads
      /\ Chaining /\ Chaining'
      /\ src' = src /\ reachable' = reachable /\ succ' = succ
      /\ states' = states /\ body' = body /\ trans' = trans
  BY DEF ChainDone, Chaining
<1>2. TypeOK' /\ states' \subseteq src'.states
  BY <1>1 DEF IInv, TypeOK, ChainDone
<1>3. /\ InvReach' /\ InvStart' /\ InvSucc' /\ InvBodies' /\ InvPlaces'
      /\ \A t : HasPred(t)' <=> HasPred(t)
      /\ \A s : Final(s)' = Final(s)
  BY <1>1, SameBodies
<1>4. succ[Final(head)] = None
  BY <1>1 DEF IInv, InvHeads
<1>5. InvHeads'
  BY <1>1, <1>3, <1>4 DEF IInv, InvHeads
<1> QED BY <1>2, <1>3, <1>5 DEF IInv

LEMMA FinishStep ==
  ASSUME IInv, Finish
  PROVE  IInv'
<1>1. /\ phase = "pick" /\ phase' = "done" /\ heads = {} /\ heads' = heads
      /\ Chaining /\ Chaining'
      /\ src' = src /\ reachable' = reachable /\ succ' = succ
      /\ states' = states /\ body' = body /\ trans' = trans
  BY DEF Finish, Chaining
<1>2. TypeOK' /\ states' \subseteq src'.states
  BY <1>1 DEF IInv, TypeOK, Finish
<1>3. /\ InvReach' /\ InvStart' /\ InvSucc' /\ InvBodies' /\ InvPlaces'
      /\ \A t : HasPred(t)' <=> HasPred(t)
      /\ \A s : Final(s)' = Final(s)
  BY <1>1, SameBodies
<1>4. InvHeads'
  BY <1>1, <1>3 DEF IInv, InvHeads
<1> QED BY <1>2, <1>3, <1>4 DEF IInv

LEMMA BodyType ==
  ASSUME TypeOK
  PROVE  \A s \in states : s \in State /\ body[s] \in Seq(State) /\ Len(body[s]) \in Nat
<1>1. \A s \in states : s \in State /\ body[s] \in Seq(State)
  BY DEF TypeOK
<1> QED BY <1>1

\* The state to splice next is still whole, and no part of any chain: the only
\* edge into it comes from the end of the chain it is spliced into.
LEMMA NextIsWhole ==
  ASSUME IInv, MergeNext, NEW n, n = succ[tail]
  PROVE  /\ n \in State /\ n \in Kept /\ Chained(tail, n) /\ HasPred(n)
         /\ n \in states /\ n # head
         /\ body[n] = <<n>> /\ trans[n] = src.trans[n]
<1>1. /\ phase = "merge" /\ Chaining /\ n # None /\ TypeOK
      /\ head \in states /\ head \in State /\ ~HasPred(head) /\ tail = Final(head)
      /\ InvSucc /\ InvBodies /\ InvPlaces /\ InvReach
  BY DEF MergeNext, Chaining, IInv, InvHeads, TypeOK
<1>2. Kept \subseteq State
  BY <1>1, KeptFacts, ParserFacts DEF TypeOK
<1>3. IsChain(head) /\ Len(body[head]) \in 1..Len(body[head]) /\ tail \in Kept
  <2>1. IsChain(head)
    BY <1>1 DEF InvBodies
  <2>2. Len(body[head]) \in Nat
    BY <1>1, BodyType
  <2>3. Len(body[head]) \in 1..Len(body[head])
    BY <2>1, <2>2 DEF IsChain
  <2> QED BY <1>1, <2>1, <2>3 DEF IsChain, Final
<1>4. n \in State
  BY <1>1, <1>2, <1>3 DEF TypeOK
<1>5. Chained(tail, n) /\ n \in Kept
  <2>1. Chained(tail, n)
    BY <1>1, <1>2, <1>3, <1>4 DEF InvSucc
  <2> QED BY <2>1 DEF Chained
<1>6. HasPred(n)
  BY <1>2, <1>3 DEF HasPred
<1>7. \A q \in State : succ[q] = n => q = tail
  <2>1. ASSUME NEW q \in State, succ[q] = n PROVE q = tail
    <3>1. Chained(q, n)
      BY <2>1, <1>1, <1>4 DEF InvSucc
    <3>2. q \in Kept /\ src.trans[q].next = <<n>>
      BY <3>1 DEF Chained
    <3>3. Leads(q, n)
      BY <3>2 DEF Leads
    <3> QED BY <1>5, <3>2, <3>3 DEF Chained
  <2> QED BY <2>1
<1>8. n \in states
  <2>0. PICK s \in states : \E i \in 1..Len(body[s]) : body[s][i] = n
    BY <1>1, <1>5 DEF InvPlaces, HasPlace
  <2>1. PICK i \in 1..Len(body[s]) : body[s][i] = n
    BY <2>0
  <2>2. IsChain(s) /\ Len(body[s]) \in Nat
    BY <1>1, BodyType DEF InvBodies
  <2>3. CASE i = 1
    BY <2>1, <2>2, <2>3 DEF IsChain
  <2>4. CASE i # 1
    <3>1. PICK j : j = i - 1
      OBVIOUS
    <3>2. j \in 1..Len(body[s]) - 1 /\ j \in 1..Len(body[s]) /\ j + 1 = i
      BY <3>1, <2>2, <2>4
    <3>3. succ[body[s][j]] = n /\ body[s][j] \in State
      BY <3>2, <2>1, <2>2, <1>2 DEF IsChain
    <3>4. body[s][j] = body[head][Len(body[head])]
      BY <3>3, <1>1, <1>7 DEF Final
    <3>5. s = head /\ j = Len(body[head])
      BY <3>2, <3>4, <1>1, <1>3 DEF InvPlaces, OnePlace
    <3> QED BY <3>2, <3>5, <2>2
  <2> QED BY <2>3, <2>4
<1>9. n # head
  BY <1>1, <1>6
<1>10. body[n] = <<n>> /\ trans[n] = src.trans[n]
  <2>1. IsChain(n) /\ body[n] \in Seq(State) /\ Len(body[n]) \in Nat
    BY <1>1, <1>8, BodyType DEF InvBodies
  <2>2. PICK k \in Nat : k = Len(body[n])
    BY <2>1
  <2>3. Len(body[n]) = 1
    <3>1. ~(Len(body[n]) > 1) /\ Len(body[n]) >= 1
      BY <2>1, <1>6 DEF IsChain
    <3>2. ~(k > 1) /\ k >= 1
      BY <2>2, <3>1
    <3>3. k = 1
      BY <3>2
    <3> QED BY <3>3, <2>2
  <2>4. body[n][1] = n /\ trans[n] = src.trans[Final(n)]
    BY <2>1 DEF IsChain
  <2> QED BY <2>1, <2>3, <2>4 DEF Final
<1> QED BY <1>4, <1>5, <1>6, <1>8, <1>9, <1>10

\* What a splice does to the bodies.
LEMMA Spliced ==
  ASSUME IInv, MergeNext, NEW n, n = succ[tail]
  PROVE  /\ states' = states \ {n} /\ head' = head /\ tail' = n
         /\ body'[head] = Append(body[head], n)
         /\ trans'[head] = src.trans[n]
         /\ \A s \in states : s # head => body'[s] = body[s] /\ trans'[s] = trans[s]
         /\ body' \in [State -> Seq(State)] /\ trans' \in [State -> Transition]
<1>1. /\ body' = [body EXCEPT ![head] = @ \o body[n]]
      /\ trans' = [trans EXCEPT ![head] = trans[n]]
      /\ states' = states \ {n} /\ tail' = n /\ head' = head
  BY DEF MergeNext
<1>2. /\ n \in State /\ body[n] = <<n>> /\ trans[n] = src.trans[n]
  BY NextIsWhole
<1>3. head \in states
  BY DEF IInv, InvHeads, MergeNext, Chaining
<1>4. TypeOK /\ head \in State /\ body[head] \in Seq(State)
  BY <1>3, BodyType DEF IInv
<1>5. body[head] \o <<n>> = Append(body[head], n) /\ body[head] \o <<n>> \in Seq(State)
  BY <1>2, <1>4
<1>6. body' \in [State -> Seq(State)] /\ body'[head] = Append(body[head], n)
  BY <1>1, <1>2, <1>4, <1>5 DEF TypeOK
<1>7. trans' \in [State -> Transition] /\ trans'[head] = src.trans[n]
  BY <1>1, <1>2, <1>4 DEF TypeOK
<1>8. \A s \in states : s # head => body'[s] = body[s] /\ trans'[s] = trans[s]
  BY <1>1, <1>4, BodyType DEF TypeOK
<1> QED BY <1>1, <1>6, <1>7, <1>8

\* The same index by index.
LEMMA SplicedHead ==
  ASSUME IInv, MergeNext, NEW n, n = succ[tail]
  PROVE  /\ Len(body[head]) \in Nat /\ Len(body[head]) >= 1
         /\ Len(body'[head]) = Len(body[head]) + 1
         /\ \A i \in 1..Len(body[head]) : body'[head][i] = body[head][i]
         /\ body'[head][Len(body[head]) + 1] = n
         /\ body[head][Len(body[head])] = tail
<1>1. head \in states /\ tail = Final(head) /\ IsChain(head) /\ TypeOK
  BY DEF IInv, InvHeads, InvBodies, MergeNext, Chaining
<1>2. body[head] \in Seq(State) /\ Len(body[head]) \in Nat /\ Len(body[head]) >= 1
  BY <1>1, BodyType DEF IsChain
<1>3. body'[head] = Append(body[head], n)
  BY Spliced
<1>4. n \in State
  BY NextIsWhole
<1>5. /\ Len(Append(body[head], n)) = Len(body[head]) + 1
      /\ \A i \in 1..Len(body[head]) : Append(body[head], n)[i] = body[head][i]
      /\ Append(body[head], n)[Len(body[head]) + 1] = n
  BY <1>2, <1>4
<1> QED BY <1>1, <1>2, <1>3, <1>5 DEF Final

LEMMA MergeNextChains ==
  ASSUME IInv, MergeNext
  PROVE  InvBodies'
<1>0. PICK n : n = succ[tail]
  OBVIOUS
<1>1. /\ Chaining /\ Chaining' /\ src' = src /\ reachable' = reachable /\ succ' = succ
      /\ head' = head
      /\ head \in states /\ ~HasPred(head) /\ head \in State /\ TypeOK /\ InvBodies
  BY DEF MergeNext, Chaining, IInv, InvHeads, TypeOK
<1>2. Kept' = Kept /\ \A t : HasPred(t)' <=> HasPred(t)
  BY <1>1, SameParser
<1>3. n \in Kept /\ n \in states /\ n # head
  BY <1>0, NextIsWhole
<1>4. /\ states' = states \ {n}
      /\ trans'[head] = src.trans[n]
      /\ \A s \in states : s # head => body'[s] = body[s] /\ trans'[s] = trans[s]
  BY <1>0, Spliced
<1>5. PICK L \in Nat :
        /\ L >= 1 /\ L = Len(body[head]) /\ Len(body'[head]) = L + 1
        /\ \A i \in 1..L : body'[head][i] = body[head][i]
        /\ body'[head][L + 1] = n /\ succ[body[head][L]] = n
  BY <1>0, SplicedHead
<1>6. IsChain(head)'
  <2>1. /\ body[head][1] = head
        /\ \A i \in 1..L : body[head][i] \in Kept
        /\ \A i \in 1..L - 1 : succ[body[head][i]] = body[head][i + 1]
    BY <1>1, <1>5 DEF InvBodies, IsChain
  <2>2. body'[head][1] = head
    BY <2>1, <1>5
  <2>3. \A i \in 1..L + 1 : body'[head][i] \in Kept
    BY <2>1, <1>3, <1>5
  <2>4. ASSUME NEW i \in 1..L PROVE succ[body'[head][i]] = body'[head][i + 1]
    <3>1. CASE i = L
      BY <3>1, <1>5
    <3>2. CASE i # L
      <4>1. i \in 1..L - 1 /\ i + 1 \in 1..L
        BY <3>2
      <4> QED BY <4>1, <2>1, <1>5
    <3> QED BY <3>1, <3>2
  <2>5. (L + 1) - 1 = L /\ L + 1 >= 1
    BY <1>5
  <2>6. Final(head)' = n
    BY <1>1, <1>5 DEF Final
  <2>7. ~HasPred(head)'
    BY <1>1, <1>2
  <2>8. /\ Len(body'[head']) >= 1 /\ body'[head'][1] = head'
        /\ trans'[head'] = src'.trans[Final(head)']
    BY <1>1, <1>4, <1>5, <2>2, <2>5, <2>6
  <2>9. \A i \in 1..Len(body'[head']) : body'[head'][i] \in Kept'
    BY <1>1, <1>2, <1>5, <2>3
  <2>10. \A i \in 1..Len(body'[head']) - 1 : succ'[body'[head'][i]] = body'[head'][i + 1]
    BY <1>1, <1>5, <2>4, <2>5
  <2> QED BY <2>7, <2>8, <2>9, <2>10 DEF IsChain
<1>7. ASSUME NEW s \in states', s # head PROVE IsChain(s)'
  <2>1. IsChain(s) /\ body'[s] = body[s] /\ trans'[s] = trans[s]
    BY <1>1, <1>4, <1>7 DEF InvBodies
  <2> QED BY <2>1, <1>1, <1>2 DEF IsChain, Final
<1> QED BY <1>1, <1>6, <1>7 DEF InvBodies

LEMMA MergeNextPlaces ==
  ASSUME IInv, MergeNext
  PROVE  InvPlaces'
<1>0. PICK n : n = succ[tail]
  OBVIOUS
<1>1. /\ Chaining /\ Chaining' /\ src' = src /\ reachable' = reachable /\ succ' = succ
      /\ head \in states /\ TypeOK /\ InvPlaces
  BY DEF MergeNext, Chaining, IInv, InvHeads, TypeOK
<1>2. Kept' = Kept
  BY <1>1, SameParser
<1>3. n \in Kept /\ n \in states /\ n # head /\ body[n] = <<n>>
  BY <1>0, NextIsWhole
<1>4. /\ states' = states \ {n}
      /\ \A s \in states : s # head => body'[s] = body[s]
  BY <1>0, Spliced
<1>5. PICK L \in Nat :
        /\ L >= 1 /\ L = Len(body[head]) /\ Len(body'[head]) = L + 1
        /\ \A i \in 1..L : body'[head][i] = body[head][i]
        /\ body'[head][L + 1] = n
  BY <1>0, SplicedHead
<1>6. \A s \in states \ {n} : \A i \in 1..Len(body[s]) : body[s][i] # n
  <2>1. ASSUME NEW s \in states, s # n, NEW i \in 1..Len(body[s]), body[s][i] = n
        PROVE  FALSE
    <3>1. OnePlace(n, s)
      BY <1>1, <1>3 DEF InvPlaces
    <3>2. Len(body[n]) = 1 /\ body[n][1] = n
      BY <1>3
    <3>3. 1 \in 1..Len(body[n])
      BY <3>2
    <3> QED BY <2>1, <3>1, <3>2, <3>3 DEF OnePlace
  <2> QED BY <2>1
<1>7. ASSUME NEW q \in Kept' PROVE HasPlace(q)'
  <2>1. PICK s \in states : \E i \in 1..Len(body[s]) : body[s][i] = q
    BY <1>1, <1>2 DEF InvPlaces, HasPlace
  <2>2. PICK i \in 1..Len(body[s]) : body[s][i] = q
    BY <2>1
  <2>3. CASE s = n
    <3>1. q = n
      BY <2>2, <2>3, <1>3
    <3>2. L + 1 \in 1..Len(body'[head])
      BY <1>5
    <3> QED BY <3>1, <3>2, <1>1, <1>3, <1>4, <1>5 DEF HasPlace
  <2>4. CASE s = head
    <3>1. i \in 1..Len(body'[head]) /\ body'[head][i] = q
      BY <1>5, <2>2, <2>4
    <3> QED BY <3>1, <1>1, <1>3, <1>4 DEF HasPlace
  <2>5. CASE s # n /\ s # head
    BY <2>2, <2>5, <1>4 DEF HasPlace
  <2> QED BY <2>3, <2>4, <2>5
<1>8. ASSUME NEW s \in states', s # head,
             NEW i \in 1..Len(body'[s]), NEW j \in 1..Len(body'[head]),
             body'[s][i] = body'[head][j]
      PROVE  FALSE
  <2>1. s \in states \ {n} /\ body'[s] = body[s]
    BY <1>4, <1>8
  <2>2. CASE j = L + 1
    BY <1>5, <1>6, <1>8, <2>1, <2>2
  <2>3. CASE j # L + 1
    <3>1. j \in 1..L
      BY <1>5, <2>3
    <3>2. OnePlace(s, head)
      BY <1>1, <2>1 DEF InvPlaces
    <3> QED BY <3>1, <3>2, <1>5, <1>8, <2>1 DEF OnePlace
  <2> QED BY <2>2, <2>3
<1>9. ASSUME NEW i \in 1..L + 1, NEW j \in 1..L + 1, body'[head][i] = body'[head][j]
      PROVE  i = j
  <2>1. \A k \in 1..L + 1 : k = L + 1 \/ k \in 1..L
    OBVIOUS
  <2>2. \A k \in 1..L : body'[head][k] = body[head][k] /\ body[head][k] # n
    BY <1>1, <1>3, <1>5, <1>6
  <2>3. OnePlace(head, head)
    BY <1>1 DEF InvPlaces
  <2> QED BY <1>5, <1>9, <2>1, <2>2, <2>3 DEF OnePlace
<1>10. ASSUME NEW s \in states', NEW r \in states' PROVE OnePlace(s, r)'
  <2>1. CASE s = head /\ r = head
    BY <2>1, <1>5, <1>9 DEF OnePlace
  <2>2. CASE s # head /\ r = head
    BY <2>2, <1>8 DEF OnePlace
  <2>3. CASE s = head /\ r # head
    BY <2>3, <1>8 DEF OnePlace
  <2>4. CASE s # head /\ r # head
    <3>1. OnePlace(s, r) /\ body'[s] = body[s] /\ body'[r] = body[r]
      BY <2>4, <1>1, <1>4 DEF InvPlaces
    <3> QED BY <3>1 DEF OnePlace
  <2> QED BY <2>1, <2>2, <2>3, <2>4
<1> QED BY <1>7, <1>10 DEF InvPlaces

LEMMA MergeNextStep ==
  ASSUME IInv, MergeNext
  PROVE  IInv'
<1>0. PICK n : n = succ[tail]
  OBVIOUS
<1>1. /\ phase = "merge" /\ phase' = "merge" /\ Chaining /\ Chaining'
      /\ src' = src /\ reachable' = reachable /\ succ' = succ /\ heads' = heads
      /\ errors' = errors /\ TypeOK /\ InvHeads
  BY DEF MergeNext, Chaining, IInv
<1>2. /\ n \in State /\ n \in states /\ n # head /\ HasPred(n)
  BY <1>0, NextIsWhole
<1>3. /\ states' = states \ {n} /\ head' = head /\ tail' = n
      /\ \A s \in states : s # head => body'[s] = body[s]
      /\ body' \in [State -> Seq(State)] /\ trans' \in [State -> Transition]
  BY <1>0, Spliced
<1>4. TypeOK' /\ states' \subseteq src'.states
  BY <1>1, <1>2, <1>3 DEF IInv, TypeOK
<1>5. InvReach' /\ InvStart' /\ InvSucc' /\ \A t : HasPred(t)' <=> HasPred(t)
  BY <1>1, SameParser
<1>6. Final(head)' = n
  <2>1. body'[head][Len(body'[head])] = n
    BY <1>0, SplicedHead
  <2> QED BY <2>1, <1>3 DEF Final
<1>7. \A s \in states : s # head => Final(s)' = Final(s)
  BY <1>3 DEF Final
<1>8. InvHeads'
  <2>1. ASSUME NEW h \in heads' PROVE h \in states' /\ ~HasPred(h)' /\ body'[h] = <<h>>
    <3>1. h \in heads /\ h # head /\ h \in states /\ ~HasPred(h) /\ body[h] = <<h>>
      BY <1>1, <2>1 DEF InvHeads
    <3> QED BY <3>1, <1>2, <1>3, <1>5
  <2>2. ASSUME NEW s \in states'
        PROVE  HasPred(s)' \/ s \in heads' \/ s = head \/ succ'[Final(s)'] = None
    BY <1>1, <1>3, <1>5, <1>7 DEF InvHeads
  <2>3. head \in states' /\ head \notin heads' /\ ~HasPred(head)'
    BY <1>1, <1>2, <1>3, <1>5 DEF InvHeads
  <2> QED BY <2>1, <2>2, <2>3, <1>1, <1>3, <1>6 DEF InvHeads
<1> QED BY <1>4, <1>5, <1>8, MergeNextChains, MergeNextPlaces DEF IInv

-----------------------------------------------------------------------------
(* The invariant *)

LEMMA StutterStep ==
  ASSUME IInv, UNCHANGED vars
  PROVE  IInv'
<1>1. TypeOK' /\ states' \subseteq src'.states
  BY DEF IInv, TypeOK, vars
<1>2. CASE Chaining
  <2>1. Chaining' /\ InvReach' /\ InvStart' /\ InvSucc' /\ InvBodies' /\ InvPlaces'
        /\ (\A t : HasPred(t)' <=> HasPred(t)) /\ (\A s : Final(s)' = Final(s))
    BY <1>2, SameBodies DEF vars, Chaining
  <2>2. InvHeads'
    BY <1>2, <2>1 DEF vars, IInv, InvHeads
  <2> QED BY <1>1, <2>1, <2>2 DEF IInv
<1>3. CASE ~Chaining
  <2>1. ~Chaining'
    BY <1>3 DEF Chaining, vars
  <2>2. InvReach'
    BY DEF vars, IInv, InvReach, Leads
  <2>3. InvStart'
    BY DEF vars, IInv, InvStart, Kept
  <2>4. InvSucc' /\ InvBodies' /\ InvPlaces' /\ InvHeads'
    BY <2>1 DEF InvSucc, InvBodies, InvPlaces, InvHeads
  <2> QED BY <1>1, <2>2, <2>3, <2>4 DEF IInv
<1> QED BY <1>2, <1>3

LEMMA NextStep == IInv /\ [Next]_vars => IInv'
<1> SUFFICES ASSUME IInv, [Next]_vars PROVE IInv'
  OBVIOUS
<1>1. ASSUME NEW s \in State, Visit(s) PROVE IInv'
  BY <1>1, VisitStep
<1>2. CASE FinishReach
  BY <1>2, FinishReachStep
<1>3. CASE EraseUnreachable
  BY <1>3, EraseStep
<1>4. CASE FindChains
  BY <1>4, FindChainsStep
<1>5. ASSUME NEW h \in State, PickHead(h) PROVE IInv'
  BY <1>5, PickHeadStep
<1>6. CASE MergeNext
  BY <1>6, MergeNextStep
<1>7. CASE ChainDone
  BY <1>7, ChainDoneStep
<1>8. CASE Finish
  BY <1>8, FinishStep
<1>9. CASE UNCHANGED vars
  BY <1>9, StutterStep
<1> QED BY <1>1, <1>2, <1>3, <1>4, <1>5, <1>6, <1>7, <1>8, <1>9 DEF Next, Finished

LEMMA Inductive == Spec => []IInv
BY InitStep, NextStep, PTL DEF Spec

\* For every set of finite parsers, every variable of the pass has its type.
THEOREM TypeCorrect == Spec => []TypeOK
<1>1. IInv => TypeOK
  BY DEF IInv
<1> QED BY <1>1, Inductive, PTL

-----------------------------------------------------------------------------
(* What the invariant implies *)

\* Each state of the pass is one of the source, the first of its body.
LEMMA ChainFacts ==
  ASSUME IInv, Chaining, NEW s \in states
  PROVE  /\ s \in State /\ s \in Kept /\ Final(s) \in Kept
         /\ Len(body[s]) \in Nat /\ Len(body[s]) >= 1 /\ body[s][1] = s
         /\ trans[s] = src.trans[Final(s)]
         /\ HasPred(s) => body[s] = <<s>>
         /\ \A i \in 1..Len(body[s]) - 1 : Chained(body[s][i], body[s][i + 1])
<1>1. IsChain(s) /\ s \in State /\ body[s] \in Seq(State) /\ Len(body[s]) \in Nat
  BY BodyType DEF IInv, InvBodies
<1>2. PICK L \in Nat : L = Len(body[s])
  BY <1>1
<1>3. L >= 1 /\ body[s][1] = s /\ body[s] \in Seq(State)
  BY <1>1, <1>2 DEF IsChain
<1>4. 1 \in 1..L /\ L \in 1..L
  BY <1>3
<1>5. s \in Kept /\ Final(s) \in Kept
  BY <1>1, <1>2, <1>3, <1>4 DEF IsChain, Final
<1>6. HasPred(s) => body[s] = <<s>>
  <2>1. HasPred(s) => ~(L > 1)
    BY <1>1, <1>2 DEF IsChain
  <2>2. HasPred(s) => L = 1
    BY <1>3, <2>1
  <2> QED BY <1>2, <1>3, <2>2
<1>7. ASSUME NEW i \in 1..L - 1 PROVE Chained(body[s][i], body[s][i + 1])
  <2>1. i \in 1..L /\ i + 1 \in 1..L
    BY <1>2
  <2>2. body[s][i] \in State /\ body[s][i + 1] \in State
    BY <1>1, <1>2, <2>1
  <2>3. succ[body[s][i]] = body[s][i + 1]
    BY <1>1, <1>2 DEF IsChain
  <2> QED BY <2>2, <2>3 DEF IInv, InvSucc
<1> QED BY <1>1, <1>2, <1>3, <1>5, <1>6, <1>7 DEF IsChain

\* The place of a state that is kept: if the end of a body, then its transition
\* is that of the state the body is of, and else the only transition is to the
\* next in the body.
LEMMA PlaceFacts ==
  ASSUME IInv, Chaining, NEW q \in Kept
  PROVE  \E r \in states :
           \/ q = Final(r)
           \/ \E j \in 1..Len(body[r]) - 1 :
                body[r][j] = q /\ Chained(q, body[r][j + 1])
<1>1. PICK r \in states : \E j \in 1..Len(body[r]) : body[r][j] = q
  BY DEF IInv, InvPlaces, HasPlace
<1>2. PICK j \in 1..Len(body[r]) : body[r][j] = q
  BY <1>1
<1>3. PICK L \in Nat : L = Len(body[r])
  BY ChainFacts
<1>4. CASE j = L
  BY <1>2, <1>3, <1>4 DEF Final
<1>5. CASE j # L
  <2>1. j \in 1..L - 1
    BY <1>3, <1>5
  <2> QED BY <1>2, <1>3, <2>1, ChainFacts
<1> QED BY <1>4, <1>5

\* A state that is a later part of a body is no more a state of the parser.
LEMMA LaterParts ==
  ASSUME IInv, Chaining, NEW r \in states, NEW j \in 1..Len(body[r]) - 1
  PROVE  body[r][j + 1] \notin states
<1>1. PICK L \in Nat : L = Len(body[r])
  BY ChainFacts
<1>2. j + 1 \in 1..L /\ j + 1 # 1
  BY <1>1
<1>3. ASSUME NEW t \in states, t = body[r][j + 1] PROVE FALSE
  <2>1. OnePlace(t, r)
    BY DEF IInv, InvPlaces
  <2>2. 1 \in 1..Len(body[t]) /\ body[t][1] = t
    BY ChainFacts
  <2> QED BY <1>1, <1>2, <1>3, <2>1, <2>2 DEF OnePlace
<1> QED BY <1>3

\* A state that was dissolved is next to another in some body.
LEMMA Dissolved ==
  ASSUME IInv, Chaining, NEW t \in Kept, t \notin states
  PROVE  \E r \in states : \E j \in 1..Len(body[r]) - 1 :
           body[r][j + 1] = t /\ Chained(body[r][j], t)
<1>1. PICK r \in states : \E i \in 1..Len(body[r]) : body[r][i] = t
  BY DEF IInv, InvPlaces, HasPlace
<1>2. PICK i \in 1..Len(body[r]) : body[r][i] = t
  BY <1>1
<1>3. PICK L \in Nat : L = Len(body[r]) /\ body[r][1] = r
  BY ChainFacts
<1>4. i # 1
  BY <1>2, <1>3
<1>5. PICK j \in 1..L - 1 : i = j + 1
  <2>1. i - 1 \in 1..L - 1 /\ i = (i - 1) + 1
    BY <1>3, <1>4
  <2> QED BY <2>1
<1> QED BY <1>2, <1>3, <1>5, ChainFacts

LEMMA NoDanglingInv == IInv => NoDangling
<1> SUFFICES ASSUME IInv PROVE NoDangling
  OBVIOUS
<1>1. CASE phase \in {"reach", "erase"}
  <2>1. states = src.states /\ trans = src.trans
    BY <1>1 DEF IInv, InvStart
  <2> QED BY <2>1, ParserFacts DEF IInv, TypeOK, NoDangling, NextStates
<1>2. CASE phase = "chain"
  <2>1. states = Kept /\ trans = src.trans
    BY <1>2 DEF IInv, InvStart
  <2>2. src.start \in Kept /\ \A q \in Kept : \A t : Leads(q, t) => t \in Kept
    BY <1>2, KeptFacts DEF IInv
  <2> QED BY <2>1, <2>2 DEF NoDangling, NextStates, Leads
<1>3. CASE Chaining
  <2>1. src.start \in Kept /\ \A q \in Kept : \A t : Leads(q, t) => t \in Kept
    BY <1>3, KeptFacts DEF IInv, Chaining
  <2>2. src.start \in states
    <3>1. CASE src.start \notin states
      <4>1. PICK q : Chained(q, src.start)
        BY <3>1, <1>3, <2>1, Dissolved
      <4> QED BY <4>1 DEF Chained
    <3> QED BY <3>1
  <2>3. ASSUME NEW s \in states, NEW t \in NextStates(trans[s]), t \notin states
        PROVE  FALSE
    <3>1. Final(s) \in Kept /\ trans[s] = src.trans[Final(s)]
      BY <1>3, ChainFacts
    <3>2. Leads(Final(s), t)
      BY <3>1 DEF NextStates, Leads
    <3>3. t \in Kept
      BY <2>1, <3>1, <3>2
    <3>4. PICK r \in states :
            \E j \in 1..Len(body[r]) - 1 : body[r][j + 1] = t /\ Chained(body[r][j], t)
      BY <1>3, <2>3, <3>3, Dissolved
    <3>5. PICK j \in 1..Len(body[r]) - 1 : Chained(body[r][j], t)
      BY <3>4
    <3>6. Final(s) = body[r][j]
      BY <3>1, <3>2, <3>5 DEF Chained
    <3>7. PICK L \in Nat, M \in Nat : L = Len(body[r]) /\ M = Len(body[s]) /\ M >= 1
      BY <1>3, ChainFacts
    <3>8. j \in 1..L - 1 /\ j \in 1..L /\ M \in 1..M
      BY <3>7
    <3>9. OnePlace(s, r)
      BY <1>3 DEF IInv, InvPlaces
    <3>10. s = r /\ M = j
      BY <3>6, <3>7, <3>8, <3>9 DEF OnePlace, Final
    <3> QED BY <3>7, <3>8, <3>10
  <2> QED BY <2>2, <2>3 DEF NoDangling
<1> QED BY <1>1, <1>2, <1>3 DEF IInv, TypeOK, Chaining

LEMMA BodiesArePathsInv == IInv => BodiesArePaths
<1> SUFFICES ASSUME IInv, NEW s \in states
             PROVE  /\ body[s] # <<>> /\ body[s][1] = s
                    /\ \A i \in 1..Len(body[s]) - 1 :
                         src.trans[body[s][i]].next = <<body[s][i + 1]>>
                    /\ trans[s] = src.trans[body[s][Len(body[s])]]
  BY DEF BodiesArePaths
<1>1. CASE Chaining
  <2>1. Len(body[s]) >= 1 /\ body[s] # <<>>
    <3>1. Len(body[s]) \in Nat /\ Len(body[s]) >= 1
      BY <1>1, ChainFacts
    <3> QED BY <3>1
  <2> QED BY <1>1, <2>1, ChainFacts DEF Chained, Final
<1>2. CASE ~Chaining
  <2>1. s \in State
    BY DEF IInv, TypeOK
  <2>2. body[s] = <<s>> /\ trans = src.trans
    BY <1>2, <2>1 DEF IInv, InvStart, TypeOK, Chaining
  <2> QED BY <2>2
<1> QED BY <1>1, <1>2

LEMMA AnnotationsKeptInv == IInv => AnnotationsKept
<1> SUFFICES ASSUME IInv, NEW s \in states, NEW i \in 2..Len(body[s])
             PROVE  src.ann[body[s][i]] = "none" /\ src.ann[s] # "other"
  BY DEF AnnotationsKept
<1>1. CASE Chaining
  <2>1. PICK L \in Nat : L = Len(body[s]) /\ body[s][1] = s
    BY <1>1, ChainFacts
  <2>2. PICK j \in 1..L - 1 : i = j + 1
    <3>1. i - 1 \in 1..L - 1 /\ i = (i - 1) + 1
      BY <2>1
    <3> QED BY <3>1
  <2>3. 1 \in 1..L - 1
    BY <2>2
  <2>4. Chained(body[s][j], body[s][j + 1]) /\ Chained(body[s][1], body[s][1 + 1])
    BY <1>1, <2>1, <2>2, <2>3, ChainFacts
  <2> QED BY <2>1, <2>2, <2>4 DEF Chained
<1>2. CASE ~Chaining
  <2>1. s \in State
    BY DEF IInv, TypeOK
  <2>2. body[s] = <<s>>
    BY <1>2, <2>1 DEF IInv, InvStart, TypeOK, Chaining
  <2>3. Len(body[s]) = 1
    BY <2>2
  <2> QED BY <2>3
<1> QED BY <1>1, <1>2

LEMMA NothingLostInv == IInv => NothingLost
<1> SUFFICES ASSUME IInv, phase \notin {"reach", "erase"}, NEW q \in reachable
             PROVE  \E s \in states :
                      /\ Cardinality({i \in DOMAIN body[s] : body[s][i] = q}) = 1
                      /\ \A r \in states \ {s} : \A i \in DOMAIN body[r] : body[r][i] # q
  BY DEF NothingLost
<1>1. q \in Kept /\ \A s \in states : DOMAIN body[s] = 1..Len(body[s])
  BY BodyType DEF IInv, InvReach, Kept
<1>2. CASE Chaining
  <2>1. PICK s \in states : \E i \in 1..Len(body[s]) : body[s][i] = q
    BY <1>1, <1>2 DEF IInv, InvPlaces, HasPlace
  <2>2. PICK i \in 1..Len(body[s]) : body[s][i] = q
    BY <2>1
  <2>3. \A r \in states : \A j \in 1..Len(body[r]) : body[r][j] = q => r = s /\ j = i
    BY <1>2, <2>2 DEF IInv, InvPlaces, OnePlace
  <2>4. {j \in DOMAIN body[s] : body[s][j] = q} = {i}
    BY <1>1, <2>2, <2>3
  <2>5. Cardinality({j \in DOMAIN body[s] : body[s][j] = q}) = 1
    BY <2>4, FS_Singleton
  <2>6. \A r \in states \ {s} : \A j \in DOMAIN body[r] : body[r][j] # q
    BY <1>1, <2>3
  <2> QED BY <2>5, <2>6
<1>3. CASE phase = "chain"
  <2>1. states = Kept /\ \A s \in states : body[s] = <<s>>
    BY <1>3 DEF IInv, InvStart, TypeOK
  <2>2. \A s \in states : DOMAIN body[s] = {1} /\ body[s][1] = s
    <3>1. \A s : DOMAIN <<s>> = 1..1 /\ 1..1 = {1}
      OBVIOUS
    <3> QED BY <2>1, <3>1
  <2>3. {j \in DOMAIN body[q] : body[q][j] = q} = {1}
    BY <1>1, <2>1, <2>2
  <2>4. Cardinality({1}) = 1
    BY FS_Singleton
  <2> QED BY <1>1, <2>1, <2>2, <2>3, <2>4
<1> QED BY <1>2, <1>3 DEF IInv, TypeOK, Chaining

\* What can be chained in the parser as it is now, the source had in one chain:
\* the end of the first state's body and the second state.
LEMMA CanChainIsSource ==
  ASSUME IInv, Chaining, NEW s \in states, NEW t \in states, CanChain(s, t)
  PROVE  Chained(Final(s), t)
<1>1. /\ trans[s].next = <<t>> /\ src.ann[s] # "other"
      /\ Indegree(t) = 1 /\ src.ann[t] = "none"
  BY DEF CanChain
<1>2. /\ t # src.start
      /\ \A q \in states : \A i \in DOMAIN trans[q].next : trans[q].next[i] = t => q = s
  <2>1. t \in State
    BY DEF IInv, TypeOK
  <2> QED BY <1>1, <2>1, IndegreeOne DEF IInv
<1>3. Final(s) \in Kept /\ t \in Kept /\ src.trans[Final(s)].next = <<t>>
  BY <1>1, ChainFacts
<1>4. src.ann[Final(s)] # "other"
  <2>1. PICK L \in Nat : L = Len(body[s])
    BY ChainFacts
  <2>2. CASE L = 1
    BY <1>1, <2>1, <2>2, ChainFacts DEF Final
  <2>3. CASE L # 1
    <3>1. L \in 2..L
      <4>1. L >= 1
        BY <2>1, ChainFacts
      <4> QED BY <4>1, <2>3
    <3>2. src.ann[body[s][L]] = "none"
      BY <2>1, <3>1, AnnotationsKeptInv DEF AnnotationsKept
    <3> QED BY <2>1, <3>2 DEF Final
  <2> QED BY <2>2, <2>3
<1>5. ASSUME NEW q \in Kept, Leads(q, t) PROVE q = Final(s)
  <2>1. PICK r \in states :
           \/ q = Final(r)
           \/ \E j \in 1..Len(body[r]) - 1 :
                body[r][j] = q /\ Chained(q, body[r][j + 1])
    BY PlaceFacts
  <2>2. CASE q = Final(r)
    <3>1. trans[r] = src.trans[q]
      BY <2>2, ChainFacts
    <3>2. r = s
      BY <1>2, <1>5, <3>1 DEF Leads
    <3> QED BY <2>2, <3>2
  <2>3. CASE \E j \in 1..Len(body[r]) - 1 :
               body[r][j] = q /\ Chained(q, body[r][j + 1])
    <3>1. PICK j \in 1..Len(body[r]) - 1 : Chained(q, body[r][j + 1])
      BY <2>3
    <3>2. t = body[r][j + 1]
      BY <1>5, <3>1 DEF Chained, Leads
    <3> QED BY <3>2, LaterParts
  <2> QED BY <2>1, <2>2, <2>3
<1> QED BY <1>1, <1>2, <1>3, <1>4, <1>5 DEF Chained

\* If a state still had a next one in its chain, so would the one before it, and
\* so on for ever: a set of states that all lead to each other, which the walk
\* could not have got into.
LEMMA NoChainLeft ==
  ASSUME IInv, phase = "done", NEW s \in states
  PROVE  succ[Final(s)] = None
<1> SUFFICES ASSUME succ[Final(s)] # None PROVE FALSE
  OBVIOUS
<1> DEFINE C == {x \in states : succ[Final(x)] # None}
<1>1. Chaining /\ heads = {} /\ TypeOK /\ InvReach
  BY DEF Chaining, IInv, InvHeads
<1>2. Kept \subseteq State /\ \A x \in states : x \in State /\ Final(x) \in State
  BY <1>1, ChainFacts, KeptFacts, ParserFacts DEF TypeOK, Chaining
<1>3. ASSUME NEW x \in C PROVE HasPred(x) /\ body[x] = <<x>> /\ Final(x) = x
  <2>1. HasPred(x)
    BY <1>1, <1>3 DEF IInv, InvHeads
  <2>2. body[x] = <<x>>
    BY <1>1, <2>1, ChainFacts
  <2> QED BY <2>1, <2>2 DEF Final
<1>4. ASSUME NEW x \in C PROVE \E r \in C : Chained(r, x)
  <2>1. PICK q \in State : succ[q] = x
    BY <1>3, <1>4 DEF HasPred
  <2>2. Chained(q, x)
    BY <1>1, <1>2, <2>1 DEF IInv, InvSucc
  <2>3. q \in Kept
    BY <2>2 DEF Chained
  <2>4. PICK r \in states :
           \/ q = Final(r)
           \/ \E j \in 1..Len(body[r]) - 1 :
                body[r][j] = q /\ Chained(q, body[r][j + 1])
    BY <1>1, <2>3, PlaceFacts
  <2>5. CASE q = Final(r)
    <3>1. r \in C
      BY <1>2, <2>1, <2>5, NoneAssumption
    <3> QED BY <3>1, <1>3, <2>2, <2>5
  <2>6. CASE \E j \in 1..Len(body[r]) - 1 :
               body[r][j] = q /\ Chained(q, body[r][j + 1])
    <3>1. PICK j \in 1..Len(body[r]) - 1 : Chained(q, body[r][j + 1])
      BY <2>6
    <3>2. x = body[r][j + 1]
      BY <2>2, <3>1 DEF Chained
    <3> QED BY <1>1, <3>2, LaterParts
  <2> QED BY <2>4, <2>5, <2>6
<1>5. C \in SUBSET State /\ s \in C
  BY <1>2
<1>6. src.start \notin C
  BY <1>4 DEF Chained
<1>7. s \in reachable
  <2>1. succ[s] \in State
    BY <1>1, <1>2, <1>3, <1>5 DEF TypeOK
  <2>2. Chained(s, succ[s])
    BY <1>1, <1>2, <2>1 DEF IInv, InvSucc
  <2>3. s \in Kept /\ src.trans[s].next # <<>>
    BY <2>2 DEF Chained
  <2>4. s \in src.states /\ src.trans[s].kind = "to"
    BY <1>1, <2>3, ParserFacts DEF Kept, TypeOK
  <2> QED BY <2>3, <2>4 DEF Kept
<1>8. PICK y \in reachable \ C : \E z \in C : Leads(y, z)
  BY <1>1, <1>5, <1>6, <1>7 DEF InvReach
<1>9. PICK z \in C : Leads(y, z)
  BY <1>8
<1>10. PICK r \in C : Chained(r, z)
  BY <1>4
<1>11. y \in Kept
  BY <1>1 DEF InvReach, Kept
<1> QED BY <1>8, <1>9, <1>10, <1>11 DEF Chained

LEMMA SimplifiedInv == IInv => Simplified
<1> SUFFICES ASSUME IInv, phase = "done" PROVE Simplified
  BY DEF Simplified
<1>1. Chaining /\ TypeOK
  BY DEF Chaining, IInv
<1>2. ASSUME NEW s \in states, NEW t \in states, CanChain(s, t) PROVE FALSE
  <2>1. Chained(Final(s), t)
    BY <1>1, <1>2, CanChainIsSource
  <2>2. Final(s) \in State /\ t \in State
    BY <1>1, ChainFacts, KeptFacts, ParserFacts DEF TypeOK, Chaining, IInv
  <2>3. succ[Final(s)] = t
    BY <1>1, <2>1, <2>2 DEF IInv, InvSucc
  <2> QED BY <2>2, <2>3, NoChainLeft, NoneAssumption
<1>3. ASSUME NEW s \in states, s \notin reachable PROVE IsEnd(s, "accept")
  <2>1. s \in Kept
    BY <1>1, ChainFacts
  <2>2. s \in src.states /\ src.trans[s].kind = "accept"
    BY <1>3, <2>1 DEF Kept
  <2>3. src.trans[s].next = <<>>
    <3>1. src.trans[s].kind # "to"
      BY <2>2
    <3> QED BY <1>1, <2>2, <3>1, ParserFacts DEF TypeOK
  <2>4. PICK L \in Nat : L = Len(body[s])
    BY <1>1, ChainFacts
  <2>5. L = 1
    <3>1. ASSUME L # 1 PROVE FALSE
      <4>1. 1 \in 1..L - 1
        <5>1. L >= 1
          BY <1>1, <2>4, ChainFacts
        <5> QED BY <5>1, <3>1
      <4>2. PICK t : Chained(s, t)
        BY <1>1, <2>4, <4>1, ChainFacts
      <4>3. <<>> = <<t>>
        BY <2>3, <4>2 DEF Chained
      <4>4. Len(<<t>>) = 1 /\ Len(<<>>) = 0
        OBVIOUS
      <4> QED BY <4>3, <4>4
    <3> QED BY <3>1
  <2>6. trans[s] = src.trans[s]
    <3>1. Final(s) = s
      BY <1>1, <2>4, <2>5, ChainFacts DEF Final
    <3> QED BY <1>1, <3>1, ChainFacts
  <2> QED BY <2>2, <2>6 DEF IsEnd
<1> QED BY <1>2, <1>3 DEF Simplified

-----------------------------------------------------------------------------
(* The theorems *)

\* For every set of finite parsers, at no moment does a transition of the parser,
\* or its entry, lead to a state the pass has erased.
THEOREM NothingDangles == Spec => []NoDangling
BY Inductive, NoDanglingInv, PTL

\* For every set of finite parsers, what a state executes is always a path of the
\* source parser that has no choice on it, and ends in the path's last transition.
THEOREM PathsOfTheSource == Spec => []BodiesArePaths
BY Inductive, BodiesArePathsInv, PTL

\* For every set of finite parsers, no annotated state is dissolved in another, and
\* none with more than a name takes another in.
THEOREM AnnotationsSurvive == Spec => []AnnotationsKept
BY Inductive, AnnotationsKeptInv, PTL

\* For every set of finite parsers, once the unreachable states are erased the
\* operations of each reachable state are in exactly one place.
THEOREM OperationsSurvive == Spec => []NothingLost
BY Inductive, NothingLostInv, PTL

\* For every set of finite parsers, when the pass ends there is nothing left that
\* it would do: no two states to chain, in loops neither, and no state to erase.
THEOREM SecondRunIdle == Spec => []Simplified
BY Inductive, SimplifiedInv, PTL

=============================================================================
