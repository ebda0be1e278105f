-------------------------- MODULE SymbolDCE_proofs --------------------------
(***************************************************************************)
(* For every program and every set of programs: the marking of SymbolDCE   *)
(* closes the live symbols under uses, and the sweep loses no live symbol; *)
(* SymbolDCE implements DeadSymbols, that is, the pass takes out exactly   *)
(* the operations nothing that stays needs; and computeLiveness is never   *)
(* active twice for one table.                                             *)
(***************************************************************************)
EXTENDS SymbolDCE, SequenceTheorems, FiniteSetTheorems, WellFoundedInduction, TLAPS

Calls == 1..Len(stack)

\* Waiting to be processed: in some worklist, or a nested table whose call is
\* active, so that its caller still has to look at its uses.
Pending(o) ==
  \E i \in Calls : o \in stack[i].worklist \/ (i > 1 /\ o = stack[i].table)

IsMarked(o) == MarkedBy(o) \subseteq live

\* The call for t has seen to every entry of t that is no symbol.
IsEntered(t) == \A c \in NonSymbols(t) : Pending(c) \/ IsMarked(c)

InsideLive(t) == t = Module \/ t \in live

InvPhase ==
  /\ phase = "mark" <=> Len(stack) > 0
  /\ phase = "start" => live = {}
  /\ phase \in {"start", "mark"} => erased = {} /\ swept = {}

InvLive ==
  \A o \in live : IsSymbol(prog, o) /\ \A a \in prog.anc[o] : InsideLive(a)

\* What may wait in a worklist: a live symbol, an entry of a live table that is
\* no symbol, or an operation nested in an entry.
MayWait(o) ==
  /\ o # Module
  /\ \/ o \in live
     \/ /\ ~IsSymbol(prog, o)
        /\ IsTable(prog, prog.parent[o]) => InsideLive(prog.parent[o])

InvStack ==
  \A i \in Calls :
    /\ IsTable(prog, stack[i].table)
    /\ InsideLive(stack[i].table)
    /\ i > 1 => stack[i].table # Module
    /\ IsEntered(stack[i].table)
    /\ \A o \in stack[i].worklist : MayWait(o)

InvMark ==
  phase # "start" =>
    /\ IsEntered(Module)
    /\ \A o \in live :
         Pending(o) \/ (IsMarked(o) /\ (IsTable(prog, o) => IsEntered(o)))

InvSweep ==
  /\ \A o \in erased : IsSymbol(prog, o) /\ o \notin live
  /\ \A t \in swept : \A c \in Children(prog, t) :
       IsSymbol(prog, c) => c \in live \/ Gone(c)
  /\ phase = "done" => \A t \in Op : IsTable(prog, t) /\ ~Gone(t) => t \in swept

IInv == TypeOK /\ InvPhase /\ InvLive /\ InvStack /\ InvMark /\ InvSweep

-----------------------------------------------------------------------------
(* Facts about programs *)

LEMMA ProgFacts ==
  ASSUME NEW p \in Programs
  PROVE  /\ IsProgram(p)
         /\ \A o \in Op : o # Module => p.parent[o] \in Op
         /\ IsTable(p, Module) /\ ~IsSymbol(p, Module)
         /\ \A o \in Op : IsTable(p, o) /\ o # Module => IsSymbol(p, o)
         /\ \A o \in Op : IsSymbol(p, o) => o # Module
         /\ \A o \in Op : IsSymbol(p, o) => IsTable(p, p.parent[o])
<1>1. IsProgram(p)
  BY ProgramsAssumption
<1>2. \A o \in Op : o # Module => p.parent[o] \in Op
  BY <1>1, OpAssumption DEF IsProgram
<1>3. IsTable(p, Module) /\ ~IsSymbol(p, Module)
  BY <1>1, OpAssumption DEF IsProgram, IsTable, IsSymbol
<1>4. \A o \in Op : IsTable(p, o) /\ o # Module => IsSymbol(p, o)
  BY <1>1 DEF IsProgram, IsTable, IsSymbol, Kind
<1>5. \A o \in Op : IsSymbol(p, o) => o # Module
  BY <1>3
<1>6. \A o \in Op : IsSymbol(p, o) => IsTable(p, p.parent[o])
  BY <1>1, <1>5 DEF IsProgram
<1> QED BY <1>1, <1>2, <1>3, <1>4, <1>5, <1>6

\* A path starting in a table whose surroundings are in L consists of symbols
\* whose surroundings are in L or on the path.
LEMMA PathInside ==
  ASSUME NEW p \in Programs, NEW L \in SUBSET Op, NEW ref, NEW t \in Op,
         t = Module \/ t \in L,
         \A a \in p.anc[t] : a = Module \/ a \in L,
         NEW s \in RootIn(p, t, ref) \cup PathIn(p, t, ref)
  PROVE  /\ s \in Op /\ IsSymbol(p, s)
         /\ \A a \in p.anc[s] : a = Module \/ a \in L \cup PathIn(p, t, ref)
         /\ s \in RootIn(p, t, ref) => \A a \in p.anc[s] : a = Module \/ a \in L
<1>0. IsProgram(p)
  BY ProgFacts
<1>1. CASE s \in RootIn(p, t, ref)
  <2>1. s \in Op /\ IsSymbol(p, s) /\ p.parent[s] = t
    BY <1>1 DEF RootIn, Children
  <2>2. p.anc[s] = {t} \cup p.anc[t]
    BY <2>1, <1>0, ProgFacts DEF IsProgram
  <2> QED BY <2>1, <2>2
<1>2. CASE s \notin RootIn(p, t, ref)
  <2>1. s \in LeafIn(p, t, ref) /\ ref.leaf # None
    BY <1>2 DEF PathIn
  <2>2. s \in Op /\ IsSymbol(p, s) /\ p.parent[s] \in RootIn(p, t, ref)
    BY <2>1 DEF LeafIn
  <2>3. p.parent[s] \in Op /\ p.parent[p.parent[s]] = t
        /\ IsSymbol(p, p.parent[s]) /\ p.parent[s] \in PathIn(p, t, ref)
    BY <2>2 DEF RootIn, Children, PathIn
  <2>4. p.anc[s] = {p.parent[s]} \cup p.anc[p.parent[s]]
    BY <2>2, <1>0, ProgFacts DEF IsProgram
  <2>5. p.anc[p.parent[s]] = {t} \cup p.anc[t]
    BY <2>3, <1>0, ProgFacts DEF IsProgram
  <2> QED BY <1>2, <2>2, <2>3, <2>4, <2>5
<1> QED BY <1>1, <1>2

\* What an entry of a live table marks is symbols inside live symbols.
LEMMA UsedInside ==
  ASSUME NEW p \in Programs, NEW L \in SUBSET Op, NEW o \in Op, o # Module,
         p.parent[o] = Module \/ p.parent[o] \in L,
         \A l \in L : \A a \in p.anc[l] : a = Module \/ a \in L,
         NEW s \in UsedBy(p, o)
  PROVE  /\ s \in Op /\ IsSymbol(p, s)
         /\ \A a \in p.anc[s] : a = Module \/ a \in L \cup UsedBy(p, o)
<1>0. IsProgram(p) /\ p.parent[o] \in Op /\ Module \in Op /\ p.anc[Module] = {}
  BY ProgFacts, OpAssumption DEF IsProgram
<1>1. PICK ref \in p.uses[o] : s \in Resolved(p, o, ref)
  BY DEF UsedBy
<1>2. Resolved(p, o, ref) \subseteq UsedBy(p, o)
  BY <1>1 DEF UsedBy
<1>3. \A a \in p.anc[p.parent[o]] : a = Module \/ a \in L
  BY <1>0
<1>4. CASE ResolvesIn(p, p.parent[o], ref)
  <2>1. s \in PathIn(p, p.parent[o], ref)
        /\ PathIn(p, p.parent[o], ref) \subseteq UsedBy(p, o)
    BY <1>1, <1>2, <1>4 DEF Resolved
  <2> QED BY <2>1, <1>0, <1>3, PathInside
<1>5. CASE ~ResolvesIn(p, p.parent[o], ref)
  <2>1. ResolvesIn(p, Module, ref)
    BY <1>1, <1>5 DEF Resolved
  <2>2. s \in RootIn(p, p.parent[o], ref) \cup PathIn(p, Module, ref)
        /\ PathIn(p, Module, ref) \subseteq UsedBy(p, o)
    BY <1>1, <1>2, <1>5, <2>1 DEF Resolved
  <2>3. CASE s \in RootIn(p, p.parent[o], ref)
    BY <2>3, <1>0, <1>3, PathInside
  <2>4. CASE s \in PathIn(p, Module, ref)
    BY <2>2, <2>4, <1>0, PathInside
  <2> QED BY <2>2, <2>3, <2>4
<1> QED BY <1>4, <1>5

-----------------------------------------------------------------------------
(* Type correctness, and the shape of the stack after each marking step *)

LEMMA UsedType == ASSUME NEW p \in Programs, NEW o PROVE UsedBy(p, o) \subseteq Op
  BY DEF UsedBy, Resolved, PathIn, RootIn, LeafIn, Children

LEMMA CallType ==
  ASSUME TypeOK, NEW t \in Op, NEW hide \in BOOLEAN
  PROVE  Call(t, hide) \in Frame /\ Undiscardable(t, hide) \subseteq Op
  BY DEF Call, Frame, NonSymbols, Undiscardable, Children

LEMMA TopFrame ==
  ASSUME TypeOK, InvPhase, phase = "mark"
  PROVE  /\ Len(stack) \in Nat \ {0} /\ Len(stack) \in Calls
         /\ DOMAIN stack = Calls
         /\ \A i \in Calls : stack[i] \in Frame
         /\ Top = stack[Len(stack)] /\ Top \in Frame
  BY DEF TypeOK, InvPhase, Top, Calls

\* A function on 1..n with frames as values is a stack of n frames.
LEMMA StackOf ==
  ASSUME NEW n \in Nat, NEW f, f \in [1..n -> Frame]
  PROVE  f \in Seq(Frame) /\ Len(f) = n
  OBVIOUS

LEMMA EnterShape ==
  ASSUME TypeOK, InvPhase, NEW o \in Op, EnterTable(o)
  PROVE  \E hide \in BOOLEAN :
           /\ live' = live \cup Undiscardable(o, hide) /\ live' \in SUBSET Op
           /\ stack' \in Seq(Frame) /\ Len(stack') = Len(stack) + 1
           /\ \A i \in Calls : /\ stack'[i].table = stack[i].table
                              /\ stack'[i].worklist =
                                   IF i = Len(stack) THEN stack[i].worklist \ {o}
                                   ELSE stack[i].worklist
           /\ stack'[Len(stack) + 1] = Call(o, hide)
<1> DEFINE hide == Top.hidden \/ ~IsSymbol(prog, o) \/ IsPrivate(prog, o)
           low == [stack EXCEPT ![Len(stack)].worklist = @ \ {o}]
<1>1. phase = "mark" /\ hide \in BOOLEAN
  BY DEF EnterTable, Popped
<1>2. live' = live \cup Undiscardable(o, hide) /\ stack' = Append(low, Call(o, hide))
  BY DEF EnterTable
<1> HIDE DEF hide
<1>3. Call(o, hide) \in Frame /\ Undiscardable(o, hide) \subseteq Op
  BY <1>1, CallType
<1>4. low \in [Calls -> Frame]
  BY <1>1, TopFrame DEF Frame
<1>5. low \in Seq(Frame) /\ Len(low) = Len(stack)
  BY <1>1, <1>4, TopFrame, StackOf DEF Calls
<1>6. \A i \in Calls : /\ low[i].table = stack[i].table
                     /\ low[i].worklist =
                          IF i = Len(stack) THEN stack[i].worklist \ {o}
                          ELSE stack[i].worklist
  BY <1>1, TopFrame DEF Frame
<1> HIDE DEF low
<1>7. /\ stack' \in Seq(Frame) /\ Len(stack') = Len(stack) + 1
      /\ \A i \in Calls : stack'[i] = low[i]
      /\ stack'[Len(stack) + 1] = Call(o, hide)
  BY <1>2, <1>3, <1>5, AppendProperties DEF Calls
<1>8. live' \in SUBSET Op
  BY <1>2, <1>3 DEF TypeOK
<1> QED BY <1>1, <1>2, <1>6, <1>7, <1>8

LEMMA MarkedType == ASSUME TypeOK, NEW o PROVE MarkedBy(o) \subseteq Op
  BY UsedType DEF MarkedBy, TypeOK

LEMMA VisitShape ==
  ASSUME TypeOK, InvPhase, NEW o \in Op, VisitOp(o)
  PROVE  /\ live' = live \cup MarkedBy(o) /\ live' \in SUBSET Op
         /\ stack' \in Seq(Frame) /\ Len(stack') = Len(stack)
         /\ \A i \in Calls : /\ stack'[i].table = stack[i].table
                            /\ stack'[i].worklist =
                                 IF i = Len(stack)
                                 THEN (stack[i].worklist \ {o}) \cup Children(prog, o)
                                         \cup (MarkedBy(o) \ live)
                                 ELSE stack[i].worklist
<1>1. phase = "mark" /\ live' = live \cup MarkedBy(o)
      /\ stack' = [stack EXCEPT ![Len(stack)].worklist =
                     (@ \ {o}) \cup Children(prog, o) \cup (MarkedBy(o) \ live)]
  BY DEF VisitOp, Popped
<1>2. MarkedBy(o) \subseteq Op /\ Children(prog, o) \subseteq Op
  BY MarkedType DEF Children
<1>3. stack' \in [Calls -> Frame]
  BY <1>1, <1>2, TopFrame DEF Frame
<1>4. stack' \in Seq(Frame) /\ Len(stack') = Len(stack)
  BY <1>1, <1>3, TopFrame, StackOf DEF Calls
<1>5. live' \in SUBSET Op
  BY <1>1, <1>2 DEF TypeOK
<1>6. \A i \in Calls : /\ stack'[i].table = stack[i].table
                     /\ stack'[i].worklist =
                          IF i = Len(stack)
                          THEN (stack[i].worklist \ {o}) \cup Children(prog, o)
                                  \cup (MarkedBy(o) \ live)
                          ELSE stack[i].worklist
  BY <1>1, TopFrame DEF Frame
<1> QED BY <1>1, <1>4, <1>5, <1>6

LEMMA ReturnShape ==
  ASSUME TypeOK, InvPhase, ReturnFromTable
  PROVE  LET o == Top.table
             n == Len(stack) - 1
         IN /\ o \in Op /\ n \in Nat \ {0}
            /\ live' = live \cup MarkedBy(o) /\ live' \in SUBSET Op
            /\ stack' \in Seq(Frame) /\ Len(stack') = n
            /\ \A i \in 1..n : /\ stack'[i].table = stack[i].table
                              /\ stack'[i].worklist =
                                   IF i = n
                                   THEN stack[i].worklist \cup (MarkedBy(o) \ live)
                                   ELSE stack[i].worklist
<1> DEFINE o == Top.table
           n == Len(stack) - 1
           low == SubSeq(stack, 1, n)
<1>1. phase = "mark" /\ Len(stack) > 1 /\ live' = live \cup MarkedBy(o)
      /\ stack' = [low EXCEPT ![n].worklist = @ \cup (MarkedBy(o) \ live)]
  BY DEF ReturnFromTable
<1>2. o \in Op /\ n \in Nat \ {0} /\ n \in 1..n
  BY <1>1, TopFrame DEF Frame
<1>3. MarkedBy(o) \subseteq Op
  BY MarkedType
<1>4. low \in [1..n -> Frame] /\ \A i \in 1..n : low[i] = stack[i]
  <2>1. \A i \in 1..n : stack[i] \in Frame
    BY <1>1, <1>2, TopFrame DEF Calls
  <2>2. low \in Seq(Frame) /\ Len(low) = n /\ \A i \in 1..n : low[i] = stack[i]
    BY <1>2, <2>1, SubSeqProperties, Z3
  <2> HIDE DEF low
  <2> QED BY <1>2, <2>2
<1> HIDE DEF low, o
<1>5. stack' \in [1..n -> Frame]
  BY <1>1, <1>2, <1>3, <1>4 DEF Frame
<1>6. stack' \in Seq(Frame) /\ Len(stack') = n
  BY <1>2, <1>5, StackOf
<1>7. live' \in SUBSET Op
  BY <1>1, <1>3 DEF TypeOK
<1>8. \A i \in 1..n : /\ stack'[i].table = stack[i].table
                    /\ stack'[i].worklist =
                         IF i = n THEN stack[i].worklist \cup (MarkedBy(o) \ live)
                         ELSE stack[i].worklist
  BY <1>1, <1>2, <1>4 DEF Frame
<1>9. /\ o \in Op /\ n \in Nat \ {0}
      /\ live' = live \cup MarkedBy(o) /\ live' \in SUBSET Op
      /\ stack' \in Seq(Frame) /\ Len(stack') = n
      /\ \A i \in 1..n : /\ stack'[i].table = stack[i].table
                        /\ stack'[i].worklist =
                             IF i = n
                             THEN stack[i].worklist \cup (MarkedBy(o) \ live)
                             ELSE stack[i].worklist
  BY <1>1, <1>2, <1>6, <1>7, <1>8
<1> QED BY <1>9 DEF o

-----------------------------------------------------------------------------
(* The marking steps *)

LEMMA InvLiveStep ==
  ASSUME TypeOK, InvLive, prog' = prog, NEW S \in SUBSET Op, live' = live \cup S,
         \A s \in S : /\ IsSymbol(prog, s)
                    /\ \A a \in prog.anc[s] : a = Module \/ a \in live \cup S
  PROVE  InvLive'
BY DEF InvLive, InsideLive

LEMMA EnterStep ==
  ASSUME IInv, NEW o \in Op, EnterTable(o)
  PROVE  IInv'
<1> USE DEF Calls
<1>1. /\ phase = "mark" /\ phase' = "mark" /\ prog' = prog /\ prog \in Programs
      /\ erased' = erased /\ swept' = swept /\ IsTable(prog, o)
      /\ TypeOK /\ InvPhase
  BY DEF EnterTable, Popped, IInv, TypeOK
<1>2. /\ Len(stack) \in Nat \ {0} /\ Len(stack) \in Calls
      /\ o \in stack[Len(stack)].worklist /\ MayWait(o)
  BY <1>1, TopFrame DEF EnterTable, Popped, IInv, InvStack
<1>3. PICK hide \in BOOLEAN :
           /\ live' = live \cup Undiscardable(o, hide) /\ live' \in SUBSET Op
           /\ stack' \in Seq(Frame) /\ Len(stack') = Len(stack) + 1
           /\ \A i \in Calls : /\ stack'[i].table = stack[i].table
                              /\ stack'[i].worklist =
                                   IF i = Len(stack) THEN stack[i].worklist \ {o}
                                   ELSE stack[i].worklist
           /\ stack'[Len(stack) + 1] = Call(o, hide)
  BY <1>1, EnterShape
<1>4. /\ stack'[Len(stack) + 1].table = o
      /\ stack'[Len(stack) + 1].worklist
           = NonSymbols(o) \cup (Undiscardable(o, hide) \ live)
  BY <1>3 DEF Call
<1>5. o \in live /\ o # Module /\ IsSymbol(prog, o)
  BY <1>1, <1>2, ProgFacts DEF MayWait
<1>6. TypeOK'
  BY <1>1, <1>3 DEF TypeOK
<1>7. InvPhase'
  BY <1>1, <1>2, <1>3 DEF InvPhase
<1>8. InvLive'
  <2>1. \A s \in Undiscardable(o, hide) :
          s \in Op /\ IsSymbol(prog, s) /\ prog.parent[s] = o
    BY DEF Undiscardable, Children
  <2>2. \A s \in Undiscardable(o, hide) : prog.anc[s] = {o} \cup prog.anc[o]
    BY <2>1, <1>1, ProgFacts DEF IsProgram
  <2>3. \A a \in prog.anc[o] : a = Module \/ a \in live
    BY <1>5 DEF IInv, InvLive, InsideLive
  <2>4. \A s \in Undiscardable(o, hide) :
           \A a \in prog.anc[s] : a = Module \/ a \in live \cup Undiscardable(o, hide)
    BY <2>2, <2>3, <1>5
  <2>5. Undiscardable(o, hide) \in SUBSET Op /\ InvLive
    BY <2>1 DEF IInv
  <2> QED BY <1>1, <1>3, <2>1, <2>4, <2>5, InvLiveStep
<1>9. \A x : Pending(x) => Pending(x)'
  <2> SUFFICES ASSUME NEW x, Pending(x) PROVE Pending(x)'
    OBVIOUS
  <2>1. PICK i \in Calls : x \in stack[i].worklist \/ (i > 1 /\ x = stack[i].table)
    BY DEF Pending
  <2>2. CASE x = o
    <3>1. Len(stack) + 1 \in 1..Len(stack') /\ Len(stack) + 1 > 1
      BY <1>2, <1>3
    <3> QED BY <2>2, <3>1, <1>4 DEF Pending
  <2>3. CASE x # o
    <3>1. i \in 1..Len(stack')
      BY <1>2, <1>3, <2>1
    <3>2. x \in stack'[i].worklist \/ (i > 1 /\ x = stack'[i].table)
      BY <1>3, <2>1, <2>3
    <3> QED BY <3>1, <3>2 DEF Pending
  <2> QED BY <2>2, <2>3
<1>10. \A x \in NonSymbols(o) \cup (Undiscardable(o, hide) \ live) : Pending(x)'
  <2>1. Len(stack) + 1 \in 1..Len(stack')
    BY <1>2, <1>3
  <2> QED BY <2>1, <1>4 DEF Pending
<1>11. \A x : IsMarked(x) => IsMarked(x)'
  BY <1>1, <1>3 DEF IsMarked, MarkedBy
<1>12. \A t : NonSymbols(t)' = NonSymbols(t)
  BY <1>1 DEF NonSymbols
<1>13. \A t : IsEntered(t) => IsEntered(t)'
  BY <1>9, <1>11, <1>12 DEF IsEntered
<1>14. IsEntered(o)'
  BY <1>10, <1>12 DEF IsEntered
<1>15. InvMark'
  <2>1. /\ IsEntered(Module)
        /\ \A x \in live :
             Pending(x) \/ (IsMarked(x) /\ (IsTable(prog, x) => IsEntered(x)))
    BY <1>1 DEF IInv, InvMark
  <2>2. \A x \in live : Pending(x)' \/ (IsMarked(x)' /\ (IsTable(prog, x) => IsEntered(x)'))
    BY <2>1, <1>9, <1>11, <1>13
  <2>3. \A x \in live' \ live : Pending(x)'
    BY <1>3, <1>10
  <2>4. IsEntered(Module)'
    BY <2>1, <1>13
  <2>5. \A x \in live' :
           Pending(x)' \/ (IsMarked(x)' /\ (IsTable(prog', x) => IsEntered(x)'))
    BY <2>2, <2>3, <1>1
  <2> QED BY <2>4, <2>5 DEF InvMark
<1>16. \A x : MayWait(x) => MayWait(x)'
  BY <1>1, <1>3 DEF MayWait, InsideLive
<1>17. InvStack'
  <2> SUFFICES ASSUME NEW i \in 1..Len(stack')
               PROVE  /\ IsTable(prog', stack'[i].table)
                      /\ InsideLive(stack[i].table)'
                      /\ i > 1 => stack'[i].table # Module
                      /\ IsEntered(stack[i].table)'
                      /\ \A x \in stack'[i].worklist : MayWait(x)'
    BY DEF InvStack
  <2>1. CASE i \in Calls
    <3>1. /\ IsTable(prog, stack[i].table) /\ InsideLive(stack[i].table)
          /\ i > 1 => stack[i].table # Module
          /\ IsEntered(stack[i].table)
          /\ \A x \in stack[i].worklist : MayWait(x)
      BY <2>1 DEF IInv, InvStack
    <3>2. stack'[i].table = stack[i].table
          /\ stack'[i].worklist \subseteq stack[i].worklist
      BY <2>1, <1>3
    <3>3. InsideLive(stack[i].table)'
      BY <3>1, <3>2, <1>3 DEF InsideLive
    <3>4. IsEntered(stack[i].table)'
      BY <3>1, <3>2, <1>13
    <3> QED BY <1>1, <1>16, <3>1, <3>2, <3>3, <3>4
  <2>2. CASE i = Len(stack) + 1
    <3>1. stack'[i].table = o
      BY <2>2, <1>4
    <3>2. InsideLive(stack[i].table)'
      BY <3>1, <1>3, <1>5 DEF InsideLive
    <3>3. IsEntered(stack[i].table)'
      BY <3>1, <1>14
    <3>4. ASSUME NEW x \in stack'[i].worklist PROVE MayWait(x)'
      <4>1. x \in NonSymbols(o) \cup (Undiscardable(o, hide) \ live)
        BY <3>4, <2>2, <1>4
      <4>2. x \in Op /\ prog.parent[x] = o
        BY <4>1 DEF NonSymbols, Undiscardable, Children
      <4>3. x # Module
        BY <4>2, <1>1, OpAssumption, ProgFacts DEF IsProgram
      <4>4. x \in live' \/ ~IsSymbol(prog, x)
        BY <4>1, <1>3 DEF NonSymbols
      <4> QED BY <4>2, <4>3, <4>4, <1>1, <1>3, <1>5 DEF MayWait, InsideLive
    <3> QED BY <3>1, <3>2, <3>3, <3>4, <1>1, <1>5
  <2>3. i \in Calls \/ i = Len(stack) + 1
    BY <1>2, <1>3
  <2> QED BY <2>1, <2>2, <2>3
<1>18. InvSweep'
  BY <1>1 DEF IInv, InvPhase, InvSweep
<1> QED BY <1>6, <1>7, <1>8, <1>15, <1>17, <1>18 DEF IInv

\* What an entry marks extends the live symbols as InvLive asks.
LEMMA MarkStep ==
  ASSUME IInv, prog' = prog, NEW o \in Op, MayWait(o), live' = live \cup MarkedBy(o)
  PROVE  InvLive'
<1>1. TypeOK /\ InvLive /\ prog \in Programs /\ o # Module
  BY DEF IInv, TypeOK, MayWait
<1>2. CASE ~IsTable(prog, prog.parent[o])
  BY <1>1, <1>2 DEF MarkedBy, InvLive, InsideLive
<1>3. CASE IsTable(prog, prog.parent[o])
  <2>1. prog.anc[o] = {prog.parent[o]} \cup prog.anc[prog.parent[o]]
    BY <1>1, ProgFacts DEF IsProgram
  <2>2. prog.parent[o] = Module \/ prog.parent[o] \in live
    BY <1>1, <1>3, <2>1 DEF MayWait, InvLive, InsideLive
  <2>3. \A l \in live : \A a \in prog.anc[l] : a = Module \/ a \in live
    BY <1>1 DEF InvLive, InsideLive
  <2>4. live \in SUBSET Op
    BY <1>1 DEF TypeOK
  <2>5. \A s \in UsedBy(prog, o) :
           /\ s \in Op /\ IsSymbol(prog, s)
           /\ \A a \in prog.anc[s] : a = Module \/ a \in live \cup UsedBy(prog, o)
    BY <1>1, <2>2, <2>3, <2>4, UsedInside
  <2>6. live' = live \cup UsedBy(prog, o) /\ UsedBy(prog, o) \in SUBSET Op
    BY <1>3, <2>5 DEF MarkedBy
  <2> QED BY <1>1, <2>5, <2>6, InvLiveStep
<1> QED BY <1>2, <1>3

\* Symbols o marks may wait in a worklist.
LEMMA MarkedMayWait ==
  ASSUME IInv, prog' = prog, NEW o \in Op, MayWait(o), live' = live \cup MarkedBy(o),
         NEW x, MayWait(x) \/ x \in MarkedBy(o)
  PROVE  MayWait(x)'
<1>1. CASE MayWait(x)
  BY <1>1 DEF MayWait, InsideLive
<1>2. CASE x \in MarkedBy(o)
  <2>1. InvLive' /\ x \in live'
    BY <1>2, MarkStep
  <2>2. IsSymbol(prog, x) /\ x \in Op
    BY <1>2, <2>1, MarkedType DEF InvLive, IInv
  <2>3. x # Module
    BY <2>2, ProgFacts DEF IInv, TypeOK
  <2> QED BY <2>1, <2>3 DEF MayWait
<1> QED BY <1>1, <1>2

LEMMA VisitStep ==
  ASSUME IInv, NEW o \in Op, VisitOp(o)
  PROVE  IInv'
<1> USE DEF Calls
<1>1. /\ phase = "mark" /\ phase' = "mark" /\ prog' = prog /\ prog \in Programs
      /\ erased' = erased /\ swept' = swept /\ ~IsTable(prog, o)
      /\ TypeOK /\ InvPhase
  BY DEF VisitOp, Popped, IInv, TypeOK
<1>2. /\ Len(stack) \in Nat \ {0} /\ Len(stack) \in Calls
      /\ o \in stack[Len(stack)].worklist /\ MayWait(o)
  BY <1>1, TopFrame DEF VisitOp, Popped, IInv, InvStack
<1>3. /\ live' = live \cup MarkedBy(o) /\ live' \in SUBSET Op
      /\ stack' \in Seq(Frame) /\ Len(stack') = Len(stack)
      /\ \A i \in Calls : /\ stack'[i].table = stack[i].table
                         /\ stack'[i].worklist =
                              IF i = Len(stack)
                              THEN (stack[i].worklist \ {o}) \cup Children(prog, o)
                                      \cup (MarkedBy(o) \ live)
                              ELSE stack[i].worklist
  BY <1>1, VisitShape
<1>4. TypeOK'
  BY <1>1, <1>3 DEF TypeOK
<1>5. InvPhase'
  BY <1>1, <1>2, <1>3 DEF InvPhase
<1>6. InvLive'
  BY <1>1, <1>2, <1>3, MarkStep
<1>7. \A x : x # o /\ Pending(x) => Pending(x)'
  <2> SUFFICES ASSUME NEW x, x # o, Pending(x) PROVE Pending(x)'
    OBVIOUS
  <2>1. PICK i \in Calls : x \in stack[i].worklist \/ (i > 1 /\ x = stack[i].table)
    BY DEF Pending
  <2>2. x \in stack'[i].worklist \/ (i > 1 /\ x = stack'[i].table)
    BY <1>3, <2>1
  <2> QED BY <1>3, <2>1, <2>2 DEF Pending
<1>8. \A x \in MarkedBy(o) \ live : Pending(x)'
  BY <1>2, <1>3 DEF Pending
<1>9. IsMarked(o)'
  BY <1>1, <1>3 DEF IsMarked, MarkedBy
<1>10. \A x : IsMarked(x) => IsMarked(x)'
  BY <1>1, <1>3 DEF IsMarked, MarkedBy
<1>11. \A t : IsEntered(t) => IsEntered(t)'
  BY <1>1, <1>7, <1>9, <1>10 DEF IsEntered, NonSymbols
<1>12. InvMark'
  <2>1. /\ IsEntered(Module)
        /\ \A x \in live :
             Pending(x) \/ (IsMarked(x) /\ (IsTable(prog, x) => IsEntered(x)))
    BY <1>1 DEF IInv, InvMark
  <2>2. \A x \in live : Pending(x)' \/ (IsMarked(x)' /\ (IsTable(prog, x) => IsEntered(x)'))
    BY <2>1, <1>1, <1>7, <1>9, <1>10, <1>11
  <2>3. \A x \in live' \ live : Pending(x)'
    BY <1>3, <1>8
  <2>4. IsEntered(Module)'
    BY <2>1, <1>11
  <2>5. \A x \in live' :
           Pending(x)' \/ (IsMarked(x)' /\ (IsTable(prog', x) => IsEntered(x)'))
    BY <2>2, <2>3, <1>1
  <2> QED BY <2>4, <2>5 DEF InvMark
<1>13. InvStack'
  <2> SUFFICES ASSUME NEW i \in Calls
               PROVE  /\ IsTable(prog', stack'[i].table)
                      /\ InsideLive(stack[i].table)'
                      /\ i > 1 => stack'[i].table # Module
                      /\ IsEntered(stack[i].table)'
                      /\ \A x \in stack'[i].worklist : MayWait(x)'
    BY <1>3 DEF InvStack
  <2>1. /\ IsTable(prog, stack[i].table) /\ InsideLive(stack[i].table)
        /\ i > 1 => stack[i].table # Module
        /\ IsEntered(stack[i].table)
        /\ \A x \in stack[i].worklist : MayWait(x)
    BY DEF IInv, InvStack
  <2>2. stack'[i].table = stack[i].table
    BY <1>3
  <2>3. InsideLive(stack[i].table)' /\ IsEntered(stack[i].table)'
    BY <1>3, <1>11, <2>1, <2>2 DEF InsideLive
  <2>4. ASSUME NEW x \in stack'[i].worklist PROVE MayWait(x)'
    <3>1. CASE x \in stack[i].worklist \/ x \in MarkedBy(o)
      BY <3>1, <2>1, <1>1, <1>2, <1>3, MarkedMayWait
    <3>2. CASE x \in Children(prog, o)
      <4>1. x \in Op /\ prog.parent[x] = o
        BY <3>2 DEF Children
      <4>2. x # Module
        BY <4>1, <1>1, OpAssumption, ProgFacts DEF IsProgram
      <4>3. ~IsSymbol(prog, x)
        BY <4>1, <1>1, ProgFacts
      <4> QED BY <4>1, <4>2, <4>3, <1>1 DEF MayWait
    <3> QED BY <3>1, <3>2, <1>3
  <2> QED BY <1>1, <2>1, <2>2, <2>3, <2>4
<1>14. InvSweep'
  BY <1>1 DEF IInv, InvPhase, InvSweep
<1> QED BY <1>4, <1>5, <1>6, <1>12, <1>13, <1>14 DEF IInv

LEMMA ReturnStep ==
  ASSUME IInv, ReturnFromTable
  PROVE  IInv'
<1> USE DEF Calls
<1>0. PICK o, n : o = Top.table /\ n = Len(stack) - 1
  OBVIOUS
<1>1. /\ phase = "mark" /\ phase' = "mark" /\ prog' = prog /\ prog \in Programs
      /\ erased' = erased /\ swept' = swept
      /\ TypeOK /\ InvPhase /\ Top = stack[Len(stack)]
  BY DEF ReturnFromTable, IInv, TypeOK, Top
<1>2. /\ o \in Op /\ n \in Nat \ {0}
      /\ live' = live \cup MarkedBy(o) /\ live' \in SUBSET Op
      /\ stack' \in Seq(Frame) /\ Len(stack') = n
      /\ \A i \in 1..n : /\ stack'[i].table = stack[i].table
                        /\ stack'[i].worklist =
                             IF i = n THEN stack[i].worklist \cup (MarkedBy(o) \ live)
                             ELSE stack[i].worklist
  BY <1>0, <1>1, ReturnShape
<1>3. /\ Len(stack) \in Calls /\ stack[Len(stack)].worklist = {}
      /\ stack[Len(stack)].table = o /\ Len(stack) > 1
  BY <1>0, <1>1, <1>2, TopFrame DEF ReturnFromTable
<1>4. /\ o # Module /\ o \in live /\ IsTable(prog, o) /\ IsSymbol(prog, o)
      /\ IsEntered(o) /\ MayWait(o)
  BY <1>1, <1>2, <1>3, ProgFacts DEF IInv, InvStack, InsideLive, MayWait
<1>5. TypeOK'
  BY <1>1, <1>2 DEF TypeOK
<1>6. InvPhase'
  BY <1>1, <1>2 DEF InvPhase
<1>7. InvLive'
  BY <1>1, <1>2, <1>4, MarkStep
<1>8. \A x : x # o /\ Pending(x) => Pending(x)'
  <2> SUFFICES ASSUME NEW x, x # o, Pending(x) PROVE Pending(x)'
    OBVIOUS
  <2>1. PICK i \in Calls : x \in stack[i].worklist \/ (i > 1 /\ x = stack[i].table)
    BY DEF Pending
  <2>2. i \in 1..n
    BY <1>0, <1>2, <1>3, <2>1
  <2>3. x \in stack'[i].worklist \/ (i > 1 /\ x = stack'[i].table)
    BY <1>2, <2>1, <2>2
  <2> QED BY <1>2, <2>2, <2>3 DEF Pending
<1>9. \A x \in MarkedBy(o) \ live : Pending(x)'
  <2>1. n \in 1..Len(stack') /\ n \in 1..n
    BY <1>2
  <2>2. MarkedBy(o) \ live \subseteq stack'[n].worklist
    BY <1>2, <2>1
  <2> QED BY <2>1, <2>2 DEF Pending
<1>10. IsMarked(o)'
  BY <1>1, <1>2 DEF IsMarked, MarkedBy
<1>11. \A x : IsMarked(x) => IsMarked(x)'
  BY <1>1, <1>2 DEF IsMarked, MarkedBy
<1>12. \A t : IsEntered(t) => IsEntered(t)'
  BY <1>1, <1>8, <1>10, <1>11 DEF IsEntered, NonSymbols
<1>13. InvMark'
  <2>1. /\ IsEntered(Module)
        /\ \A x \in live :
             Pending(x) \/ (IsMarked(x) /\ (IsTable(prog, x) => IsEntered(x)))
    BY <1>1 DEF IInv, InvMark
  <2>2. \A x \in live : Pending(x)' \/ (IsMarked(x)' /\ (IsTable(prog, x) => IsEntered(x)'))
    BY <2>1, <1>4, <1>8, <1>10, <1>11, <1>12
  <2>3. \A x \in live' \ live : Pending(x)'
    BY <1>2, <1>9
  <2>4. IsEntered(Module)'
    BY <2>1, <1>12
  <2>5. \A x \in live' :
           Pending(x)' \/ (IsMarked(x)' /\ (IsTable(prog', x) => IsEntered(x)'))
    BY <2>2, <2>3, <1>1
  <2> QED BY <2>4, <2>5 DEF InvMark
<1>14. InvStack'
  <2> SUFFICES ASSUME NEW i \in 1..n
               PROVE  /\ IsTable(prog', stack'[i].table)
                      /\ InsideLive(stack[i].table)'
                      /\ i > 1 => stack'[i].table # Module
                      /\ IsEntered(stack[i].table)'
                      /\ \A x \in stack'[i].worklist : MayWait(x)'
    BY <1>2 DEF InvStack
  <2>0. i \in Calls
    BY <1>0, <1>2, <1>3
  <2>1. /\ IsTable(prog, stack[i].table) /\ InsideLive(stack[i].table)
        /\ i > 1 => stack[i].table # Module
        /\ IsEntered(stack[i].table)
        /\ \A x \in stack[i].worklist : MayWait(x)
    BY <2>0 DEF IInv, InvStack
  <2>2. stack'[i].table = stack[i].table
    BY <1>2
  <2>3. InsideLive(stack[i].table)' /\ IsEntered(stack[i].table)'
    BY <1>2, <1>12, <2>1, <2>2 DEF InsideLive
  <2>4. ASSUME NEW x \in stack'[i].worklist PROVE MayWait(x)'
    <3>1. x \in stack[i].worklist \/ x \in MarkedBy(o)
      BY <1>2
    <3> QED BY <3>1, <2>1, <1>1, <1>2, <1>4, MarkedMayWait
  <2> QED BY <1>1, <2>1, <2>2, <2>3, <2>4
<1>15. InvSweep'
  BY <1>1 DEF IInv, InvPhase, InvSweep
<1> QED BY <1>5, <1>6, <1>7, <1>13, <1>14, <1>15 DEF IInv

-----------------------------------------------------------------------------
(* The other steps *)

LEMMA InitStep == Init => IInv
  BY DEF Init, IInv, TypeOK, InvPhase, InvLive, InvStack, InvMark, InvSweep, Calls

LEMMA StutterStep == ASSUME IInv, UNCHANGED vars PROVE IInv'
<1>1. /\ prog' = prog /\ phase' = phase /\ live' = live /\ stack' = stack
      /\ erased' = erased /\ swept' = swept
  BY DEF vars
<1>2. \A x : (Pending(x)' <=> Pending(x)) /\ (IsMarked(x)' <=> IsMarked(x))
            /\ (Gone(x)' <=> Gone(x))
  BY <1>1 DEF Pending, IsMarked, MarkedBy, Gone, Calls
<1> QED
  BY <1>1, <1>2 DEF IInv, TypeOK, InvPhase, InvLive, InvStack, InvMark, InvSweep,
     Calls, IsEntered, NonSymbols, InsideLive, MayWait

LEMMA StartStep ==
  ASSUME IInv, Start
  PROVE  IInv'
<1>1. /\ phase = "start" /\ phase' = "mark" /\ prog' = prog /\ prog \in Programs
      /\ erased' = erased /\ swept' = swept /\ live = {} /\ erased = {} /\ swept = {}
      /\ TypeOK
  BY DEF Start, IInv, InvPhase, TypeOK
<1>2. /\ stack' = <<Call(Module, TRUE)>> /\ live' = Undiscardable(Module, TRUE)
  BY <1>1 DEF Start
<1>3. Call(Module, TRUE) \in Frame /\ Undiscardable(Module, TRUE) \subseteq Op
  BY <1>1, OpAssumption, CallType
<1>4. /\ stack' \in Seq(Frame) /\ Len(stack') = 1 /\ stack'[1].table = Module
      /\ stack'[1].worklist = NonSymbols(Module) \cup Undiscardable(Module, TRUE)
  <2> DEFINE c == Call(Module, TRUE)
  <2>1. /\ c.table = Module
        /\ c.worklist = NonSymbols(Module) \cup Undiscardable(Module, TRUE)
    BY <1>1 DEF Call
  <2>2. c \in Frame /\ stack' = <<c>>
    BY <1>2, <1>3
  <2> HIDE DEF c
  <2>3. stack' \in Seq(Frame) /\ Len(stack') = 1 /\ stack'[1] = c
    BY <2>2
  <2> QED BY <2>1, <2>3
<1>5. TypeOK' /\ InvPhase'
  <2>1. live' \in SUBSET Op
    BY <1>2, <1>3
  <2> QED BY <1>1, <1>4, <2>1 DEF TypeOK, InvPhase
<1>6. \A s \in NonSymbols(Module) \cup Undiscardable(Module, TRUE) :
        s \in Op /\ prog.parent[s] = Module /\ Pending(s)'
  <2>1. 1 \in 1..Len(stack')
    BY <1>4
  <2>2. \A s \in NonSymbols(Module) \cup Undiscardable(Module, TRUE) : Pending(s)'
    BY <1>4, <2>1 DEF Pending, Calls
  <2> QED BY <2>2 DEF NonSymbols, Undiscardable, Children
<1>7. \A s \in NonSymbols(Module) \cup Undiscardable(Module, TRUE) :
        /\ s # Module
        /\ prog.anc[s] = {Module}
  <2>1. IsProgram(prog)
    BY <1>1, ProgFacts
  <2>2. \A s \in Op : prog.parent[s] = Module => s # Module
    BY <2>1, OpAssumption DEF IsProgram
  <2>3. \A s \in Op : prog.parent[s] = Module => prog.anc[s] = {Module}
    BY <2>1, <2>2, OpAssumption DEF IsProgram
  <2> QED BY <1>6, <2>2, <2>3
<1>8. InvLive'
  BY <1>1, <1>2, <1>7 DEF InvLive, InsideLive, Undiscardable
<1>9. IsEntered(Module)'
  BY <1>1, <1>6 DEF IsEntered, NonSymbols
<1>10. InvStack'
  <2>1. \A x \in stack'[1].worklist : MayWait(x)'
    BY <1>1, <1>2, <1>4, <1>6, <1>7 DEF MayWait, InsideLive, NonSymbols
  <2>2. IsTable(prog', Module)
    BY <1>1, ProgFacts
  <2> SUFFICES ASSUME NEW i \in 1..Len(stack')
               PROVE  /\ IsTable(prog', stack'[i].table)
                      /\ InsideLive(stack[i].table)'
                      /\ i > 1 => stack'[i].table # Module
                      /\ IsEntered(stack[i].table)'
                      /\ \A x \in stack'[i].worklist : MayWait(x)'
    BY DEF InvStack, Calls
  <2>4. i = 1 /\ stack'[i].table = Module
    BY <1>4
  <2>5. InsideLive(stack[i].table)' /\ IsEntered(stack[i].table)'
    BY <1>9, <2>4 DEF InsideLive
  <2>6. \A x \in stack'[i].worklist : MayWait(x)'
    BY <2>1, <2>4
  <2> QED BY <2>2, <2>4, <2>5, <2>6
<1>11. InvMark'
  BY <1>2, <1>6, <1>9 DEF InvMark
<1>12. InvSweep'
  BY <1>1 DEF InvSweep
<1> QED BY <1>5, <1>8, <1>10, <1>11, <1>12 DEF IInv

LEMMA FinishStep ==
  ASSUME IInv, FinishMarking
  PROVE  IInv'
<1>1. /\ phase = "mark" /\ phase' = "sweep" /\ prog' = prog /\ live' = live
      /\ stack' = <<>> /\ erased' = erased /\ swept' = swept
      /\ erased = {} /\ swept = {} /\ Len(stack) = 1 /\ stack[1].worklist = {}
  BY DEF FinishMarking, Top, IInv, InvPhase
<1>2. \A x : ~Pending(x)
  BY <1>1 DEF Pending, Calls
<1>3. \A x : IsMarked(x) => IsMarked(x)'
  BY <1>1 DEF IsMarked, MarkedBy
<1>4. \A t : IsEntered(t) => IsEntered(t)'
  BY <1>1, <1>2, <1>3 DEF IsEntered, NonSymbols
<1>5. InvMark'
  BY <1>1, <1>2, <1>3, <1>4 DEF IInv, InvMark
<1>6. TypeOK' /\ InvPhase' /\ InvLive'
  BY <1>1 DEF IInv, TypeOK, InvPhase, InvLive, InsideLive
<1>7. InvStack'
  BY <1>1 DEF InvStack, Calls
<1>8. InvSweep'
  BY <1>1 DEF InvSweep
<1> QED BY <1>5, <1>6, <1>7, <1>8 DEF IInv

LEMMA SweepStep ==
  ASSUME IInv, NEW t \in Op, SweepTable(t)
  PROVE  IInv'
<1>1. /\ phase = "sweep" /\ phase' \in {"sweep", "done"}
      /\ phase' = "done" => t = Module
      /\ prog' = prog /\ live' = live /\ stack' = stack /\ swept' = swept \cup {t}
      /\ IsTable(prog, t) /\ TypeOK /\ prog \in Programs
      /\ \A n \in Op : IsTable(prog, n) /\ t \in prog.anc[n] /\ ~Gone(n) => n \in swept
  BY DEF SweepTable, IInv, TypeOK
<1>2. PICK self : /\ erased' = erased \cup DeadIn(t) \cup self
                  /\ self \subseteq {t}
                  /\ \A s \in self : IsSymbol(prog, s) /\ s \notin live
  <2> DEFINE empty == \A o \in Children(prog, t) : Gone(o) \/ o \in DeadIn(t)
             self == IF empty /\ IsSymbol(prog, t) /\ t \notin live THEN {t} ELSE {}
  <2>1. erased' = erased \cup DeadIn(t) \cup self
    BY DEF SweepTable
  <2>2. self \subseteq {t} /\ \A s \in self : IsSymbol(prog, s) /\ s \notin live
    OBVIOUS
  <2> HIDE DEF self
  <2> QED BY <2>1, <2>2
<1>3. DeadIn(t) \subseteq Op /\ \A s \in DeadIn(t) : IsSymbol(prog, s) /\ s \notin live
  BY DEF DeadIn, Children
<1>4. TypeOK'
  BY <1>1, <1>2, <1>3 DEF TypeOK
<1>5. InvPhase' /\ InvLive'
  BY <1>1 DEF IInv, InvPhase, InvLive, InsideLive
<1>6. \A x : (Pending(x) <=> Pending(x)') /\ (IsMarked(x) <=> IsMarked(x)')
  BY <1>1 DEF Pending, Calls, IsMarked, MarkedBy
<1>7. \A x : IsEntered(x) <=> IsEntered(x)'
  BY <1>1, <1>6 DEF IsEntered, NonSymbols
<1>8. InvMark'
  BY <1>1, <1>6, <1>7 DEF IInv, InvMark
<1>9. InvStack'
  BY <1>1, <1>7 DEF IInv, InvStack, InvPhase, Calls, InsideLive, MayWait
<1>10. \A x : Gone(x) => Gone(x)'
  BY <1>1, <1>2 DEF Gone
<1>11. InvSweep'
  <2>1. \A o \in erased' : IsSymbol(prog', o) /\ o \notin live'
    BY <1>1, <1>2, <1>3 DEF IInv, InvSweep
  <2>2. \A u \in swept' : \A c \in Children(prog', u) :
           IsSymbol(prog', c) => c \in live' \/ Gone(c)'
    <3>1. ASSUME NEW c \in Children(prog, t), IsSymbol(prog, c), c \notin live
          PROVE  Gone(c)'
      <4>1. Gone(c) \/ c \in DeadIn(t)
        BY <3>1 DEF DeadIn
      <4> QED BY <4>1, <1>2, <1>10 DEF Gone
    <3> QED BY <3>1, <1>1, <1>10 DEF IInv, InvSweep
  <2>3. ASSUME phase' = "done", NEW n \in Op, IsTable(prog, n), ~Gone(n)'
        PROVE  n \in swept'
    <3>1. CASE n = Module
      BY <3>1, <2>3, <1>1
    <3>2. CASE n # Module
      BY <3>2, <2>3, <1>1, <1>10, ProgFacts DEF IsProgram
    <3> QED BY <3>1, <3>2
  <2> QED BY <1>1, <2>1, <2>2, <2>3 DEF InvSweep
<1> QED BY <1>4, <1>5, <1>8, <1>9, <1>11 DEF IInv

-----------------------------------------------------------------------------
(* The theorems *)

LEMMA NextStep == IInv /\ [Next]_vars => IInv'
<1> SUFFICES ASSUME IInv, [Next]_vars PROVE IInv'
  OBVIOUS
<1>1. CASE Start
  BY <1>1, StartStep
<1>2. ASSUME NEW o \in Op, EnterTable(o) PROVE IInv'
  BY <1>2, EnterStep
<1>3. ASSUME NEW o \in Op, VisitOp(o) PROVE IInv'
  BY <1>3, VisitStep
<1>4. CASE ReturnFromTable
  BY <1>4, ReturnStep
<1>5. CASE FinishMarking
  BY <1>5, FinishStep
<1>6. ASSUME NEW t \in Op, SweepTable(t) PROVE IInv'
  BY <1>6, SweepStep
<1>7. CASE Finished \/ UNCHANGED vars
  BY <1>7, StutterStep DEF Finished
<1> QED BY <1>1, <1>2, <1>3, <1>4, <1>5, <1>6, <1>7 DEF Next

LEMMA Inductive == Spec => []IInv
  BY InitStep, NextStep, PTL DEF Spec

\* The pass handles every program with the types its code assumes.
THEOREM TypeCorrect == Spec => []TypeOK
<1>1. IInv => TypeOK
  BY DEF IInv
<1> QED BY <1>1, Inductive, PTL

LEMMA LiveStays == IInv => LiveNeverGone
<1> SUFFICES ASSUME IInv, NEW s \in live, Gone(s) PROVE FALSE
  BY DEF LiveNeverGone
<1>1. PICK a \in prog.anc[s] \cup {s} : a \in erased
  BY DEF Gone
<1>2. IsSymbol(prog, a) /\ a \notin live
  BY <1>1 DEF IInv, InvSweep
<1>3. a = Module
  BY <1>1, <1>2 DEF IInv, InvLive, InsideLive
<1> QED BY <1>2, <1>3, ProgFacts DEF IInv, TypeOK

\* No live symbol is ever erased with a dead table around it.
THEOREM LiveSurvives == Spec => []LiveNeverGone
  BY Inductive, LiveStays, PTL

LEMMA UsesStay == IInv => UsesSurvive
<1> SUFFICES ASSUME IInv, phase = "done", NEW o \in Op, ~Gone(o),
                    NEW s \in UsedBy(prog, o)
             PROVE  ~Gone(s)
  BY DEF UsesSurvive
<1> DEFINE t == prog.parent[o]
<1>1. TypeOK /\ prog \in Programs /\ IsProgram(prog)
  BY ProgFacts DEF IInv, TypeOK
<1>2. o # Module /\ t \in Op /\ IsTable(prog, t)
  BY <1>1, ProgFacts DEF UsedBy, IsProgram
<1>3. \A x : ~Pending(x)
  BY <1>1 DEF IInv, InvPhase, TypeOK, Pending, Calls
<1>4. \A u \in Op : IsTable(prog, u) /\ ~Gone(u) =>
        \A c \in Children(prog, u) : IsSymbol(prog, c) => c \in live \/ Gone(c)
  BY DEF IInv, InvSweep
<1>5. \A c \in Op : c # Module /\ ~Gone(c) => ~Gone(prog.parent[c])
  BY <1>1, ProgFacts DEF Gone, IsProgram
<1>6. \A c \in Op : IsSymbol(prog, c) /\ ~Gone(c) => c \in live
  <2> SUFFICES ASSUME NEW c \in Op, IsSymbol(prog, c), ~Gone(c) PROVE c \in live
    OBVIOUS
  <2>1. c # Module /\ prog.parent[c] \in Op /\ IsTable(prog, prog.parent[c])
    BY <1>1, ProgFacts
  <2> QED BY <2>1, <1>4, <1>5 DEF Children
<1>7. /\ IsEntered(Module)
      /\ \A x \in live : IsMarked(x) /\ (IsTable(prog, x) => IsEntered(x))
  BY <1>3 DEF IInv, InvMark
<1>8. IsMarked(o)
  <2>1. CASE IsSymbol(prog, o)
    BY <2>1, <1>6, <1>7
  <2>2. CASE ~IsSymbol(prog, o)
    <3>1. o \in NonSymbols(t)
      BY <2>2 DEF NonSymbols, Children
    <3>2. IsEntered(t)
      <4>1. CASE t = Module
        BY <4>1, <1>7
      <4>2. CASE t # Module
        BY <4>2, <1>1, <1>2, <1>5, <1>6, <1>7, ProgFacts
      <4> QED BY <4>1, <4>2
    <3> QED BY <3>1, <3>2, <1>3 DEF IsEntered
  <2> QED BY <2>1, <2>2
<1>9. s \in live
  BY <1>2, <1>8 DEF IsMarked, MarkedBy
<1> QED BY <1>9, LiveStays DEF LiveNeverGone

\* Whatever the program and its symbol tables: every symbol that a surviving
\* operation uses, as the pass resolves the use, survives the pass.
THEOREM UsesKept == Spec => []UsesSurvive
  BY Inductive, UsesStay, PTL

LEMMA UnshadowedStay == IInv => UnshadowedUsesSurvive
<1> SUFFICES ASSUME IInv, Unshadowed(prog), phase = "done", NEW o \in Op, ~Gone(o),
                    NEW ref \in prog.uses[o], ResolvesIn(prog, Module, ref),
                    NEW s \in PathIn(prog, Module, ref)
             PROVE  ~Gone(s)
  BY DEF UnshadowedUsesSurvive, VerifierUsesSurvive
<1>1. prog.parent[o] = Module \/ ~ResolvesIn(prog, prog.parent[o], ref)
  BY DEF Unshadowed
<1>2. s \in Resolved(prog, o, ref)
  BY <1>1 DEF Resolved
<1>3. s \in UsedBy(prog, o)
  BY <1>2 DEF UsedBy
<1> QED BY <1>3, UsesStay DEF UsesSurvive

\* A program that hides no name of the module still verifies after the pass:
\* each reference the verifier resolves in the module finds its symbols there.
THEOREM UnshadowedUsesKept == Spec => []UnshadowedUsesSurvive
  BY Inductive, UnshadowedStay, PTL

-----------------------------------------------------------------------------
(* The refinement.  What is above bounds the live symbols from below (what *)
(* is needed is not lost); what is added here bounds them from above: all  *)
(* that is marked or waits to be is in every closed set.                   *)

\* The call at i is for o, or has to process it.
Holds(i, o) == o \in stack[i].worklist \/ o = stack[i].table

\* A symbol waits in one place only, and no more once its own call is active.
InvOnce ==
  \A i \in Calls :
    /\ stack[i].table \notin stack[i].worklist
    /\ \A j \in Calls : \A o \in Op :
         IsSymbol(prog, o) /\ Holds(i, o) /\ Holds(j, o) => i = j

\* Whatever set of operations is closed holds all that is live or waits.
InvNeeded ==
  \A K \in SUBSET Op : Abstract!IsClosed(prog, K) =>
    /\ live \subseteq K
    /\ \A i \in Calls : stack[i].worklist \subseteq K /\ stack[i].table \in K

Waiting(o) == \E i \in Calls : o \in stack[i].worklist

\* What has to stay in t is live.
IsRooted(t) ==
  \A c \in Children(prog, t) :
    IsSymbol(prog, c) /\ ~CanDiscardOnUseEmpty(prog, c) => c \in live

InvRooted ==
  phase # "start" =>
    /\ IsRooted(Module)
    /\ \A t \in live : IsTable(prog, t) /\ ~Waiting(t) => IsRooted(t)

RInv == IInv /\ InvOnce /\ InvNeeded /\ InvRooted

-----------------------------------------------------------------------------
(* Facts about programs and closed sets *)

\* The abstract specification means the same by the operators both use.
LEMMA SameTables ==
  ASSUME NEW p, NEW o
  PROVE  /\ Abstract!UsedBy(p, o) = UsedBy(p, o)
         /\ Abstract!Children(p, o) = Children(p, o)
         /\ Abstract!IsTable(p, o) = IsTable(p, o)
         /\ Abstract!Rooted(p, o) <=> ~IsSymbol(p, o) \/ ~CanDiscardOnUseEmpty(p, o)
BY DEF Abstract!UsedBy, UsedBy, Abstract!Resolved, Resolved, Abstract!ResolvesIn,
   ResolvesIn, Abstract!PathIn, PathIn, Abstract!RootIn, RootIn, Abstract!LeafIn, LeafIn,
   Abstract!Children, Children, Abstract!IsTable, IsTable, Abstract!Rooted,
   Abstract!IsSymbol, IsSymbol, Abstract!CanDiscardOnUseEmpty, CanDiscardOnUseEmpty

LEMMA ClosedFacts ==
  ASSUME NEW p, NEW K \in SUBSET Op
  PROVE  Abstract!IsClosed(p, K) <=>
           /\ Module \in K
           /\ \A o \in K :
                /\ UsedBy(p, o) \subseteq K
                /\ \A c \in Children(p, o) :
                     ~IsTable(p, o) \/ ~IsSymbol(p, c) \/ ~CanDiscardOnUseEmpty(p, c)
                       => c \in K
BY SameTables DEF Abstract!IsClosed

\* Whether a table is hidden makes no difference to what has to stay in it: the
\* symbols of the dialect that may go if nobody uses them are private anyway.
LEMMA UndiscardableIsRooted ==
  ASSUME NEW t, NEW hide \in BOOLEAN, NEW c
  PROVE  c \in Undiscardable(t, hide) <=>
           c \in Children(prog, t) /\ IsSymbol(prog, c) /\ ~CanDiscardOnUseEmpty(prog, c)
BY DEF Undiscardable, IsDiscardable, IsPrivate, CanDiscardOnUseEmpty

\* A program has no infinite nesting: in a set of operations one is outermost.
LEMMA Outermost ==
  ASSUME NEW p \in Programs, NEW T, T \subseteq Op, T # {}
  PROVE  \E o \in T : o = Module \/ p.parent[o] \notin T
<1> DEFINE F == {p.anc[o] : o \in T}
<1>0. IsProgram(p)
  BY ProgFacts
<1>1. \A o \in Op : p.anc[o] \subseteq Op /\ IsFiniteSet(p.anc[o])
  BY <1>0 DEF IsProgram
<1>2. F \subseteq FiniteSubsetsOf(Op) /\ F # {}
  BY <1>1 DEF FiniteSubsetsOf
<1>3. PICK A \in F : \A B \in F : ~(<<B, A>> \in StrictSubsetOrdering(Op))
  <2> HIDE DEF F
  <2> QED BY <1>2, WFMin, FS_StrictSubsetOrderingWellFounded
<1>4. PICK o \in T : A = p.anc[o]
  OBVIOUS
<1>5. \A a \in T : p.anc[a] \subseteq p.anc[o] => p.anc[a] = p.anc[o]
  BY <1>1, <1>3, <1>4 DEF StrictSubsetOrdering
<1>6. ASSUME o # Module, p.parent[o] \in T PROVE FALSE
  <2>1. /\ p.anc[o] = {p.parent[o]} \cup p.anc[p.parent[o]]
        /\ p.parent[o] # Module => p.parent[o] \notin p.anc[p.parent[o]]
        /\ p.anc[Module] = {}
    BY <1>0, <1>6 DEF IsProgram
  <2> QED BY <2>1, <1>5, <1>6
<1> QED BY <1>6

\* A call is for the module, if it is the outermost, or for a table with a name.
LEMMA TableOrModule ==
  ASSUME IInv, NEW i \in Calls
  PROVE  /\ stack[i].table \in Op /\ stack[i].worklist \subseteq Op
         /\ stack[i].table = Module \/ IsSymbol(prog, stack[i].table)
         /\ i > 1 => stack[i].table # Module
<1>1. stack[i] \in Frame /\ prog \in Programs
  BY DEF IInv, TypeOK, Calls
<1>2. IsTable(prog, stack[i].table) /\ (i > 1 => stack[i].table # Module)
  BY DEF IInv, InvStack
<1> QED BY <1>1, <1>2, ProgFacts DEF Frame

\* A symbol that waits, or whose call is active, is live.
LEMMA HeldIsLive ==
  ASSUME IInv, NEW i \in Calls, NEW o, IsSymbol(prog, o), Holds(i, o)
  PROVE  o \in live
<1>1. prog \in Programs /\ ~IsSymbol(prog, Module)
  BY ProgFacts DEF IInv, TypeOK
<1>2. InsideLive(stack[i].table) /\ \A x \in stack[i].worklist : MayWait(x)
  BY DEF IInv, InvStack
<1> QED BY <1>1, <1>2 DEF Holds, MayWait, InsideLive

\* What is nested in an operation that is no table is neither symbol nor table.
LEMMA ChildrenOfNoTable ==
  ASSUME TypeOK, NEW o \in Op, ~IsTable(prog, o), NEW c \in Children(prog, o)
  PROVE  c \in Op /\ c # Module /\ ~IsSymbol(prog, c) /\ ~IsTable(prog, c)
<1>1. IsProgram(prog) /\ c \in Op /\ prog.parent[c] = o
  BY ProgFacts DEF TypeOK, Children
<1>2. c # Module
  BY <1>1, OpAssumption DEF IsProgram
<1> QED BY <1>1, <1>2 DEF IsProgram

-----------------------------------------------------------------------------
(* The marking steps *)

LEMMA EnterRefines ==
  ASSUME RInv, NEW o \in Op, EnterTable(o)
  PROVE  InvOnce' /\ InvNeeded' /\ InvRooted'
<1> USE DEF Calls
<1>1. /\ phase = "mark" /\ phase' = "mark" /\ prog' = prog /\ prog \in Programs
      /\ IsTable(prog, o) /\ TypeOK /\ InvPhase /\ IInv
  BY DEF EnterTable, Popped, RInv, IInv, TypeOK
<1>2. /\ Len(stack) \in Nat \ {0} /\ Len(stack) \in Calls
      /\ o \in stack[Len(stack)].worklist /\ MayWait(o)
  BY <1>1, TopFrame DEF EnterTable, Popped, IInv, InvStack
<1>3. PICK hide \in BOOLEAN :
           /\ live' = live \cup Undiscardable(o, hide) /\ live' \in SUBSET Op
           /\ stack' \in Seq(Frame) /\ Len(stack') = Len(stack) + 1
           /\ \A i \in Calls : /\ stack'[i].table = stack[i].table
                              /\ stack'[i].worklist =
                                   IF i = Len(stack) THEN stack[i].worklist \ {o}
                                   ELSE stack[i].worklist
           /\ stack'[Len(stack) + 1] = Call(o, hide)
  BY <1>1, EnterShape
<1>0. PICK n : n = Len(stack) + 1
  OBVIOUS
<1>4. /\ stack'[n].table = o
      /\ stack'[n].worklist = NonSymbols(o) \cup (Undiscardable(o, hide) \ live)
  BY <1>0, <1>3 DEF Call
<1>5. o \in live /\ o # Module /\ IsSymbol(prog, o)
  BY <1>1, <1>2, ProgFacts DEF MayWait
<1>6. n \in Nat /\ n > 1 /\ n \notin Calls /\ \A i : i \in 1..Len(stack') <=> i \in Calls \/ i = n
  BY <1>0, <1>2, <1>3
<1>7. InvOnce'
  <2>1. \A i \in Calls : \A x \in Op :
          IsSymbol(prog, x) /\ Holds(i, x) => x \in live
    BY <1>1, HeldIsLive
  <2>2. \A x : Holds(n, x)' => x = o \/ ~IsSymbol(prog, x) \/ x \notin live
    BY <1>4, <1>5 DEF Holds, NonSymbols
  <2>3. \A i \in Calls : \A x : Holds(i, x)' => Holds(i, x)
    BY <1>3 DEF Holds
  <2>4. \A i \in Calls : ~Holds(i, o)'
    <3>1. \A i \in Calls : Holds(i, o) => i = Len(stack)
      BY <1>2, <1>5 DEF RInv, InvOnce, Holds
    <3>2. stack[Len(stack)].table # o
      BY <1>2 DEF RInv, InvOnce
    <3> QED BY <3>1, <3>2, <2>3, <1>2, <1>3 DEF Holds
  <2>5. o \notin NonSymbols(o) \cup (Undiscardable(o, hide) \ live)
    BY <1>5 DEF NonSymbols
  <2>6. \A i \in 1..Len(stack') : stack'[i].table \notin stack'[i].worklist
    BY <2>5, <1>3, <1>4, <1>6 DEF RInv, InvOnce
  <2>7. ASSUME NEW i \in 1..Len(stack'), NEW j \in 1..Len(stack'), NEW x \in Op,
               IsSymbol(prog, x), Holds(i, x)', Holds(j, x)'
        PROVE  i = j
    <3>1. CASE i \in Calls /\ j \in Calls
      BY <3>1, <2>3, <2>7 DEF RInv, InvOnce
    <3>2. CASE i = n \/ j = n
      BY <3>2, <2>1, <2>2, <2>3, <2>4, <2>7, <1>6
    <3> QED BY <3>1, <3>2, <1>6
  <2> QED BY <2>6, <2>7, <1>1 DEF InvOnce
<1>8. InvNeeded'
  <2> SUFFICES ASSUME NEW K \in SUBSET Op, Abstract!IsClosed(prog, K)
               PROVE  /\ live' \subseteq K
                      /\ \A i \in 1..Len(stack') : stack'[i].worklist \subseteq K
                                                   /\ stack'[i].table \in K
    BY <1>1 DEF InvNeeded
  <2>1. live \subseteq K /\ \A i \in Calls : stack[i].worklist \subseteq K /\ stack[i].table \in K
    BY DEF RInv, InvNeeded
  <2>2. NonSymbols(o) \subseteq K /\ Undiscardable(o, hide) \subseteq K
    BY <2>1, <1>5, ClosedFacts, UndiscardableIsRooted DEF NonSymbols
  <2> QED BY <2>1, <2>2, <1>3, <1>4, <1>5, <1>6
<1>9. InvRooted'
  <2>1. \A t : IsRooted(t) => IsRooted(t)'
    BY <1>1, <1>3 DEF IsRooted
  <2>2. IsRooted(o)'
    BY <1>1, <1>3, UndiscardableIsRooted DEF IsRooted
  <2>3. ASSUME NEW t \in live, ~Waiting(t)', t # o PROVE ~Waiting(t)
    BY <2>3, <1>3, <1>6 DEF Waiting
  <2>4. \A t \in live' \ live : Waiting(t)'
    BY <1>3, <1>4, <1>6 DEF Waiting
  <2> QED BY <2>1, <2>2, <2>3, <2>4, <1>1 DEF RInv, InvRooted
<1> QED BY <1>7, <1>8, <1>9

\* Symbols a step marks are in every closed set that holds the operation marking.
LEMMA MarkedNeeded ==
  ASSUME TypeOK, NEW K \in SUBSET Op, Abstract!IsClosed(prog, K), NEW o \in K
  PROVE  MarkedBy(o) \subseteq K
BY ClosedFacts DEF MarkedBy

LEMMA VisitRefines ==
  ASSUME RInv, NEW o \in Op, VisitOp(o)
  PROVE  InvOnce' /\ InvNeeded' /\ InvRooted'
<1> USE DEF Calls
<1>1. /\ phase = "mark" /\ phase' = "mark" /\ prog' = prog /\ prog \in Programs
      /\ ~IsTable(prog, o) /\ TypeOK /\ InvPhase /\ IInv
  BY DEF VisitOp, Popped, RInv, IInv, TypeOK
<1>2. /\ Len(stack) \in Nat \ {0} /\ Len(stack) \in Calls
      /\ o \in stack[Len(stack)].worklist /\ MayWait(o)
  BY <1>1, TopFrame DEF VisitOp, Popped, IInv, InvStack
<1>3. /\ live' = live \cup MarkedBy(o) /\ live' \in SUBSET Op
      /\ stack' \in Seq(Frame) /\ Len(stack') = Len(stack)
      /\ \A i \in Calls : /\ stack'[i].table = stack[i].table
                         /\ stack'[i].worklist =
                              IF i = Len(stack)
                              THEN (stack[i].worklist \ {o}) \cup Children(prog, o)
                                      \cup (MarkedBy(o) \ live)
                              ELSE stack[i].worklist
  BY <1>1, VisitShape
<1>4. \A c \in Children(prog, o) : c # Module /\ ~IsSymbol(prog, c) /\ ~IsTable(prog, c)
  BY <1>1, ChildrenOfNoTable
<1>5. InvOnce'
  <2>1. \A i \in Calls : \A x \in Op :
          IsSymbol(prog, x) /\ Holds(i, x) => x \in live
    BY <1>1, HeldIsLive
  <2>2. \A i \in Calls : \A x : IsSymbol(prog, x) /\ Holds(i, x)' =>
          Holds(i, x) \/ (i = Len(stack) /\ x \notin live)
    BY <1>3, <1>4 DEF Holds
  <2>3. ASSUME NEW i \in Calls PROVE stack'[i].table \notin stack'[i].worklist
    <3>1. stack[i].table \notin stack[i].worklist
      BY DEF RInv, InvOnce
    <3>2. stack[i].table \notin Children(prog, o)
      BY <1>1, <1>4, TableOrModule
    <3>3. stack[i].table \notin MarkedBy(o) \ live
      <4>1. CASE stack[i].table = Module
        <5>1. \A s \in live' : IsSymbol(prog, s)
          BY <1>1, <1>2, <1>3, MarkStep DEF InvLive
        <5> QED BY <5>1, <4>1, <1>1, <1>3, ProgFacts
      <4>2. CASE IsSymbol(prog, stack[i].table)
        BY <4>2, <2>1, <1>1, TableOrModule DEF Holds
      <4> QED BY <4>1, <4>2, <1>1, TableOrModule
    <3> QED BY <3>1, <3>2, <3>3, <1>3
  <2>4. ASSUME NEW i \in Calls, NEW j \in Calls, NEW x \in Op,
               IsSymbol(prog, x), Holds(i, x)', Holds(j, x)'
        PROVE  i = j
    BY <2>1, <2>2, <2>4 DEF RInv, InvOnce
  <2> QED BY <2>3, <2>4, <1>1, <1>3 DEF InvOnce
<1>6. InvNeeded'
  <2> SUFFICES ASSUME NEW K \in SUBSET Op, Abstract!IsClosed(prog, K)
               PROVE  /\ live' \subseteq K
                      /\ \A i \in Calls : stack'[i].worklist \subseteq K
                                          /\ stack'[i].table \in K
    BY <1>1, <1>3 DEF InvNeeded
  <2>1. live \subseteq K /\ \A i \in Calls : stack[i].worklist \subseteq K /\ stack[i].table \in K
    BY DEF RInv, InvNeeded
  <2>2. MarkedBy(o) \subseteq K
    BY <2>1, <1>1, <1>2, MarkedNeeded
  <2>3. Children(prog, o) \subseteq K
    BY <2>1, <1>1, <1>2, ClosedFacts
  <2> QED BY <2>1, <2>2, <2>3, <1>3
<1>7. InvRooted'
  <2>1. \A t : IsRooted(t) => IsRooted(t)'
    BY <1>1, <1>3 DEF IsRooted
  <2>2. ASSUME NEW t \in live, IsTable(prog, t), ~Waiting(t)' PROVE ~Waiting(t)
    BY <2>2, <1>1, <1>3 DEF Waiting
  <2>3. \A t \in live' \ live : Waiting(t)'
    BY <1>2, <1>3 DEF Waiting
  <2> QED BY <2>1, <2>2, <2>3, <1>1 DEF RInv, InvRooted
<1> QED BY <1>5, <1>6, <1>7

LEMMA ReturnRefines ==
  ASSUME RInv, ReturnFromTable
  PROVE  InvOnce' /\ InvNeeded' /\ InvRooted'
<1> USE DEF Calls
<1>0. PICK o, n : o = Top.table /\ n = Len(stack) - 1
  OBVIOUS
<1>1. /\ phase = "mark" /\ phase' = "mark" /\ prog' = prog /\ prog \in Programs
      /\ TypeOK /\ InvPhase /\ IInv /\ Top = stack[Len(stack)]
  BY DEF ReturnFromTable, RInv, IInv, TypeOK, Top
<1>2. /\ o \in Op /\ n \in Nat \ {0}
      /\ live' = live \cup MarkedBy(o) /\ live' \in SUBSET Op
      /\ stack' \in Seq(Frame) /\ Len(stack') = n
      /\ \A i \in 1..n : /\ stack'[i].table = stack[i].table
                        /\ stack'[i].worklist =
                             IF i = n THEN stack[i].worklist \cup (MarkedBy(o) \ live)
                             ELSE stack[i].worklist
  BY <1>0, <1>1, ReturnShape
<1>3. /\ Len(stack) \in Calls /\ stack[Len(stack)].worklist = {}
      /\ stack[Len(stack)].table = o /\ Len(stack) > 1 /\ 1..n \subseteq Calls
      /\ \A i \in Calls : i \in 1..n \/ i = Len(stack)
  BY <1>0, <1>1, <1>2, TopFrame DEF ReturnFromTable
<1>4. o # Module /\ o \in live /\ MayWait(o)
  BY <1>1, <1>2, <1>3, ProgFacts DEF IInv, InvStack, InsideLive, MayWait
<1>5. InvOnce'
  <2>1. \A i \in Calls : \A x \in Op :
          IsSymbol(prog, x) /\ Holds(i, x) => x \in live
    BY <1>1, HeldIsLive
  <2>2. \A i \in 1..n : \A x : Holds(i, x)' =>
          Holds(i, x) \/ (i = n /\ x \notin live)
    BY <1>2 DEF Holds
  <2>3. ASSUME NEW i \in 1..n PROVE stack'[i].table \notin stack'[i].worklist
    <3>1. stack[i].table \notin stack[i].worklist /\ i \in Calls
      BY <1>3 DEF RInv, InvOnce
    <3>2. stack[i].table \notin MarkedBy(o) \ live
      <4>1. CASE stack[i].table = Module
        <5>1. \A s \in live' : IsSymbol(prog, s)
          BY <1>1, <1>2, <1>4, MarkStep DEF InvLive
        <5> QED BY <5>1, <4>1, <1>1, <1>2, ProgFacts
      <4>2. CASE IsSymbol(prog, stack[i].table)
        BY <4>2, <3>1, <2>1, <1>1, TableOrModule DEF Holds
      <4> QED BY <3>1, <4>1, <4>2, <1>1, TableOrModule
    <3> QED BY <3>1, <3>2, <1>2
  <2>4. ASSUME NEW i \in 1..n, NEW j \in 1..n, NEW x \in Op,
               IsSymbol(prog, x), Holds(i, x)', Holds(j, x)'
        PROVE  i = j
    BY <2>1, <2>2, <2>4, <1>3 DEF RInv, InvOnce
  <2> QED BY <2>3, <2>4, <1>1, <1>2 DEF InvOnce
<1>6. InvNeeded'
  <2> SUFFICES ASSUME NEW K \in SUBSET Op, Abstract!IsClosed(prog, K)
               PROVE  /\ live' \subseteq K
                      /\ \A i \in 1..n : stack'[i].worklist \subseteq K
                                         /\ stack'[i].table \in K
    BY <1>1, <1>2 DEF InvNeeded
  <2>1. live \subseteq K /\ \A i \in Calls : stack[i].worklist \subseteq K /\ stack[i].table \in K
    BY DEF RInv, InvNeeded
  <2>2. MarkedBy(o) \subseteq K
    BY <2>1, <1>1, <1>4, MarkedNeeded
  <2> QED BY <2>1, <2>2, <1>2, <1>3
<1>7. InvRooted'
  <2>1. \A t : IsRooted(t) => IsRooted(t)'
    BY <1>1, <1>2 DEF IsRooted
  <2>2. ASSUME NEW t \in live, ~Waiting(t)' PROVE ~Waiting(t)
    BY <2>2, <1>2, <1>3 DEF Waiting
  <2>3. \A t \in live' \ live : Waiting(t)'
    <3>1. n \in 1..Len(stack') /\ n \in 1..n
      BY <1>2
    <3>2. live' \ live \subseteq stack'[n].worklist
      BY <3>1, <1>2
    <3> QED BY <3>1, <3>2 DEF Waiting
  <2> QED BY <2>1, <2>2, <2>3, <1>1 DEF RInv, InvRooted
<1> QED BY <1>5, <1>6, <1>7

-----------------------------------------------------------------------------
(* The other steps *)

LEMMA InitRefines == Init => InvOnce /\ InvNeeded /\ InvRooted
  BY DEF Init, InvOnce, InvNeeded, InvRooted, Calls

LEMMA StartRefines ==
  ASSUME RInv, Start
  PROVE  InvOnce' /\ InvNeeded' /\ InvRooted'
<1> USE DEF Calls
<1>1. /\ phase = "start" /\ phase' = "mark" /\ prog' = prog /\ prog \in Programs
      /\ live = {} /\ TypeOK
  BY DEF Start, RInv, IInv, InvPhase, TypeOK
<1>2. /\ stack' = <<Call(Module, TRUE)>> /\ live' = Undiscardable(Module, TRUE)
  BY <1>1 DEF Start
<1>3. Call(Module, TRUE) \in Frame /\ Undiscardable(Module, TRUE) \subseteq Op
  BY <1>1, OpAssumption, CallType
<1>4. /\ Len(stack') = 1 /\ stack'[1].table = Module
      /\ stack'[1].worklist = NonSymbols(Module) \cup Undiscardable(Module, TRUE)
  <2> DEFINE c == Call(Module, TRUE)
  <2>1. /\ c.table = Module
        /\ c.worklist = NonSymbols(Module) \cup Undiscardable(Module, TRUE)
    BY <1>1 DEF Call
  <2>2. c \in Frame /\ stack' = <<c>>
    BY <1>2, <1>3
  <2> HIDE DEF c
  <2>3. Len(stack') = 1 /\ stack'[1] = c
    BY <2>2
  <2> QED BY <2>1, <2>3
<1>5. \A i \in 1..Len(stack') : i = 1
  BY <1>4
<1>6. InvOnce'
  <2>1. \A x \in Children(prog, Module) : x # Module
    BY <1>1, OpAssumption, ProgFacts DEF Children, IsProgram
  <2>2. Module \notin NonSymbols(Module) \cup Undiscardable(Module, TRUE)
    BY <2>1 DEF NonSymbols, Undiscardable
  <2> QED BY <1>4, <1>5, <2>2 DEF InvOnce
<1>7. InvNeeded'
  <2> SUFFICES ASSUME NEW K \in SUBSET Op, Abstract!IsClosed(prog, K)
               PROVE  /\ live' \subseteq K
                      /\ \A i \in 1..Len(stack') : stack'[i].worklist \subseteq K
                                                   /\ stack'[i].table \in K
    BY <1>1 DEF InvNeeded
  <2>1. Module \in K /\ IsTable(prog, Module)
    BY <1>1, ClosedFacts, ProgFacts
  <2>2. NonSymbols(Module) \subseteq K /\ Undiscardable(Module, TRUE) \subseteq K
    BY <2>1, ClosedFacts, UndiscardableIsRooted DEF NonSymbols
  <2> QED BY <2>1, <2>2, <1>2, <1>4, <1>5
<1>8. InvRooted'
  <2>1. IsRooted(Module)'
    BY <1>1, <1>2, UndiscardableIsRooted DEF IsRooted
  <2>2. 1 \in 1..Len(stack')
    BY <1>4
  <2>3. \A t \in live' : Waiting(t)'
    <3>1. live' \subseteq stack'[1].worklist
      BY <1>2, <1>4
    <3> QED BY <2>2, <3>1 DEF Waiting
  <2> QED BY <2>1, <2>3 DEF InvRooted
<1> QED BY <1>6, <1>7, <1>8

LEMMA FinishRefines ==
  ASSUME RInv, FinishMarking
  PROVE  InvOnce' /\ InvNeeded' /\ InvRooted'
<1> USE DEF Calls
<1>1. /\ phase = "mark" /\ phase' = "sweep" /\ prog' = prog /\ live' = live
      /\ stack' = <<>> /\ Len(stack) = 1 /\ stack[1].worklist = {}
  BY DEF FinishMarking, Top
<1>2. InvOnce' /\ InvNeeded'
  BY <1>1 DEF RInv, InvOnce, InvNeeded
<1>3. \A t : ~Waiting(t)
  BY <1>1 DEF Waiting
<1>4. InvRooted'
  BY <1>1, <1>3 DEF RInv, InvRooted, IsRooted
<1> QED BY <1>2, <1>4

LEMMA SweepRefines ==
  ASSUME RInv, prog' = prog /\ live' = live /\ stack' = stack,
         phase' # "start" => phase # "start"
  PROVE  InvOnce' /\ InvNeeded' /\ InvRooted'
<1>1. InvOnce'
  BY DEF RInv, InvOnce, Holds, Calls
<1>2. InvNeeded'
  BY DEF RInv, InvNeeded, Calls
<1>3. InvRooted'
  BY DEF RInv, InvRooted, IsRooted, Waiting, Calls
<1> QED BY <1>1, <1>2, <1>3

LEMMA RefinesInductive == Spec => []RInv
<1>1. Init => RInv
  BY InitStep, InitRefines DEF RInv
<1>2. RInv /\ [Next]_vars => RInv'
  <2> SUFFICES ASSUME RInv, [Next]_vars PROVE InvOnce' /\ InvNeeded' /\ InvRooted'
    BY NextStep DEF RInv
  <2>1. CASE Start
    BY <2>1, StartRefines
  <2>2. ASSUME NEW o \in Op, EnterTable(o) PROVE InvOnce' /\ InvNeeded' /\ InvRooted'
    BY <2>2, EnterRefines
  <2>3. ASSUME NEW o \in Op, VisitOp(o) PROVE InvOnce' /\ InvNeeded' /\ InvRooted'
    BY <2>3, VisitRefines
  <2>4. CASE ReturnFromTable
    BY <2>4, ReturnRefines
  <2>5. CASE FinishMarking
    BY <2>5, FinishRefines
  <2>6. ASSUME NEW t \in Op, SweepTable(t) PROVE InvOnce' /\ InvNeeded' /\ InvRooted'
    BY <2>6, SweepRefines DEF SweepTable
  <2>7. CASE Finished \/ UNCHANGED vars
    BY <2>7, SweepRefines DEF Finished, vars
  <2> QED BY <2>1, <2>2, <2>3, <2>4, <2>5, <2>6, <2>7 DEF Next
<1> QED BY <1>1, <1>2, PTL DEF Spec

-----------------------------------------------------------------------------
(* The theorems *)

LEMMA OneCallPerTable == RInv => NoReentry
<1> SUFFICES ASSUME RInv, NEW i \in DOMAIN stack, NEW j \in DOMAIN stack,
                    stack[i].table = stack[j].table
             PROVE  i = j
  BY DEF NoReentry
<1>1. i \in Calls /\ j \in Calls /\ i \in Nat /\ j \in Nat /\ i >= 1 /\ j >= 1
  BY DEF RInv, IInv, TypeOK, Calls
<1>2. CASE stack[i].table = Module
  <2>1. ~(i > 1) /\ ~(j > 1)
    BY <1>1, <1>2, TableOrModule DEF RInv
  <2> QED BY <1>1, <2>1
<1>3. CASE IsSymbol(prog, stack[i].table)
  BY <1>1, <1>3, TableOrModule DEF RInv, InvOnce, Holds
<1> QED BY <1>1, <1>2, <1>3, TableOrModule DEF RInv

\* However the references of the tables go in circles: no call of computeLiveness
\* works on a table that another active call is working on.
THEOREM NoReentrantCall == Spec => []NoReentry
  BY RefinesInductive, OneCallPerTable, PTL

\* What stays is closed: it needs nothing that goes.
LEMMA RestIsClosed ==
  ASSUME RInv, phase = "done"
  PROVE  Abstract!IsClosed(prog, {o \in Op : ~Gone(o)})
<1> DEFINE K == {o \in Op : ~Gone(o)}
<1>1. /\ TypeOK /\ prog \in Programs /\ IsProgram(prog)
      /\ \A a \in erased : IsSymbol(prog, a) /\ a \notin live
  BY ProgFacts DEF RInv, IInv, TypeOK, InvSweep
<1>2. Module \in K
  BY <1>1, OpAssumption, ProgFacts DEF Gone, IsProgram
<1>3. \A o \in K : UsedBy(prog, o) \subseteq K
  BY <1>1, UsesStay, UsedType DEF RInv, UsesSurvive
<1>4. ASSUME NEW o \in K, NEW c \in Children(prog, o), Gone(c)
      PROVE  c \in erased
  <2>1. c \in Op /\ c # Module /\ prog.parent[c] = o
    BY <1>1, OpAssumption DEF Children, IsProgram
  <2>2. prog.anc[c] = {o} \cup prog.anc[o]
    BY <1>1, <2>1 DEF IsProgram
  <2> QED BY <1>4, <2>2 DEF Gone
<1>5. ASSUME NEW o \in K, NEW c \in Children(prog, o),
             ~IsTable(prog, o) \/ ~IsSymbol(prog, c) \/ ~CanDiscardOnUseEmpty(prog, c)
      PROVE  c \in K
  <2>1. c \in Op
    BY DEF Children
  <2>2. CASE ~IsSymbol(prog, c)
    BY <2>1, <2>2, <1>1, <1>4
  <2>3. CASE ~IsTable(prog, o)
    BY <2>1, <2>3, <1>1, <1>4, ChildrenOfNoTable
  <2>4. CASE IsTable(prog, o) /\ IsSymbol(prog, c) /\ ~CanDiscardOnUseEmpty(prog, c)
    <3>1. \A x : ~Waiting(x)
      BY <1>1 DEF RInv, IInv, InvPhase, TypeOK, Waiting, Calls
    <3>2. o = Module \/ o \in live
      <4>1. CASE o # Module
        <5>1. IsSymbol(prog, o) /\ ~Gone(o)
          BY <4>1, <2>4, <1>1, ProgFacts
        <5>2. prog.parent[o] \in Op /\ IsTable(prog, prog.parent[o])
              /\ ~Gone(prog.parent[o])
          BY <4>1, <5>1, <1>1, ProgFacts DEF Gone, IsProgram
        <5>3. prog.parent[o] \in swept
          BY <5>2 DEF RInv, IInv, InvSweep
        <5> QED BY <5>1, <5>3 DEF RInv, IInv, InvSweep, Children
      <4> QED BY <4>1
    <3>3. IsRooted(o)
      BY <2>4, <3>1, <3>2 DEF RInv, InvRooted
    <3>4. c \in live
      BY <2>4, <3>3 DEF IsRooted
    <3> QED BY <2>1, <3>4, <1>1, <1>4
  <2> QED BY <1>5, <2>2, <2>3, <2>4
<1> HIDE DEF K
<1>6. K \in SUBSET Op
  BY DEF K
<1>7. Abstract!IsClosed(prog, K)
  BY <1>2, <1>3, <1>5, <1>6, ClosedFacts
<1> QED BY <1>7 DEF K

\* What stays is needed: every closed set holds it.
LEMMA RestIsNeeded ==
  ASSUME RInv, phase = "done", NEW K \in SUBSET Op, Abstract!IsClosed(prog, K),
         NEW o \in Op, ~Gone(o)
  PROVE  o \in K
<1>1. TypeOK /\ prog \in Programs /\ IsProgram(prog)
  BY ProgFacts DEF RInv, IInv, TypeOK
<1>2. live \subseteq K /\ Module \in K
  BY ClosedFacts DEF RInv, InvNeeded
<1>3. ASSUME NEW c \in Op, ~Gone(c), c # Module
      PROVE  prog.parent[c] \in Op /\ ~Gone(prog.parent[c])
  BY <1>1, <1>3, ProgFacts DEF Gone, IsProgram
<1>4. ASSUME NEW c \in Op, ~Gone(c), IsSymbol(prog, c)
      PROVE  c \in K
  <2>1. prog.parent[c] \in Op /\ ~Gone(prog.parent[c]) /\ IsTable(prog, prog.parent[c])
    BY <1>1, <1>3, <1>4, ProgFacts
  <2>2. c \in live
    BY <2>1, <1>4 DEF RInv, IInv, InvSweep, Children
  <2> QED BY <2>2, <1>2
<1> DEFINE T == {c \in Op : ~Gone(c) /\ c \notin K}
<1>5. SUFFICES ASSUME T # {} PROVE FALSE
  OBVIOUS
<1>6. PICK c \in T : c = Module \/ prog.parent[c] \notin T
  <2>1. T \subseteq Op
    OBVIOUS
  <2> HIDE DEF T
  <2> QED BY <2>1, <1>1, <1>5, Outermost
<1>7. c # Module /\ ~IsSymbol(prog, c)
  BY <1>2, <1>4
<1>8. prog.parent[c] \in K
  BY <1>3, <1>6, <1>7
<1>9. c \in Children(prog, prog.parent[c])
  BY DEF Children
<1>10. c \in K
  BY <1>7, <1>8, <1>9, ClosedFacts
<1> QED BY <1>10

LEMMA GoneIsTheRest ==
  RInv /\ phase = "done" => {o \in Op : Gone(o)} = Op \ Abstract!Needed(prog)
<1> SUFFICES ASSUME RInv, phase = "done"
             PROVE  {o \in Op : Gone(o)} = Op \ Abstract!Needed(prog)
  OBVIOUS
<1>1. ASSUME NEW o \in Op, ~Gone(o) PROVE o \in Abstract!Needed(prog)
  BY <1>1, RestIsNeeded DEF Abstract!Needed
<1>2. ASSUME NEW o \in Op, o \in Abstract!Needed(prog) PROVE ~Gone(o)
  <2> DEFINE K == {x \in Op : ~Gone(x)}
  <2>1. K \in SUBSET Op /\ Abstract!IsClosed(prog, K)
    BY RestIsClosed
  <2> HIDE DEF K
  <2>2. o \in K
    BY <1>2, <2>1 DEF Abstract!Needed
  <2> QED BY <2>2 DEF K
<1> QED BY <1>1, <1>2

\* For every program: symbol DCE does what dead symbol elimination promises.  The
\* last step of the sweep takes out, in one, all that is not needed; the others
\* change nothing the abstract specification sees.
THEOREM Refinement == Spec => Eliminates
<1>1. Init => Abstract!Init
  BY DEF Init, Abstract!Init
<1>2. RInv /\ RInv' /\ [Next]_vars => [Abstract!Next]_(Abstract!vars)
  <2> SUFFICES ASSUME RInv, RInv', [Next]_vars
               PROVE  [Abstract!Next]_(Abstract!vars)
    OBVIOUS
  <2>1. prog' = prog
    BY DEF Next, Start, EnterTable, VisitOp, ReturnFromTable, FinishMarking, SweepTable,
       Finished, vars
  <2>2. CASE phase # "done" /\ phase' # "done"
    <3>1. {o \in Op : phase = "done" /\ Gone(o)} = {}
          /\ {o \in Op : phase = "done" /\ Gone(o)}' = {}
      BY <2>2
    <3> QED BY <2>1, <2>2, <3>1 DEF Abstract!vars
  <2>3. CASE phase = "done"
    <3>1. phase' = phase /\ erased' = erased
      BY <2>3 DEF Next, Start, EnterTable, VisitOp, Popped, ReturnFromTable,
         FinishMarking, SweepTable, Finished, vars
    <3>2. \A o : Gone(o)' <=> Gone(o)
      BY <2>1, <3>1 DEF Gone
    <3> QED BY <2>1, <3>1, <3>2 DEF Abstract!vars
  <2>4. CASE phase # "done" /\ phase' = "done"
    <3>1. {o \in Op : Gone(o)}' = Op \ Abstract!Needed(prog)'
      <4>1. (RInv /\ phase = "done")'
              => ({o \in Op : Gone(o)} = Op \ Abstract!Needed(prog))'
        BY GoneIsTheRest, PTL
      <4> QED BY <2>4, <4>1
    <3>2. Abstract!Needed(prog)' = Abstract!Needed(prog)
      BY <2>1
    <3>3. {o \in Op : phase = "done" /\ Gone(o)}' = Op \ Abstract!Needed(prog)
      BY <3>1, <3>2, <2>4
    <3> QED BY <2>1, <2>4, <3>3 DEF Abstract!Next, Abstract!Eliminate
  <2> QED BY <2>2, <2>3, <2>4
<1> QED BY <1>1, <1>2, RefinesInductive, PTL DEF Spec, Eliminates, Abstract!Spec

=============================================================================
