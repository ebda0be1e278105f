------------------------ MODULE InlineParsers_proofs ------------------------
(***************************************************************************)
(* The inlining of parsers keeps the module well formed after every step,  *)
(* leaves valid code after every inlining, leaves no instance without a    *)
(* reason and inlines either all calls of an instance or none.  There is   *)
(* one lemma for each action, and the actions that change a parser have    *)
(* lemmas about that parser alone.                                         *)
(*                                                                         *)
(* The inductive invariant is Inv (the code is well formed) with InvValid  *)
(* (it is valid but for what an inlining that is under way still owes it:  *)
(* the copied states use values that only reach them once the code before  *)
(* the call has come to the pre state and adjustBlockUses has distributed  *)
(* what it computes).                                                      *)
(***************************************************************************)
EXTENDS InlineParsers_lemmas

-----------------------------------------------------------------------------
(* The inductive invariant *)

InJob == phase \in {"split", "clone", "finalize"}

\* Locals and instances of the callee are already in the parser p.
Expanding(p) == phase \in {"clone", "finalize"} /\ p = job.parser

\* The instances of p that are not just being replaced.
Lasting(p) == InstanceNames(program[p]) \ (IF Expanding(p) THEN {job.inst} ELSE {})

\* The types of the variables.
InvType ==
  /\ source \in Programs /\ order \in Orders
  /\ program \in [DOMAIN source -> ParserType]
  /\ phase \in {"collect", "visit", "split", "clone", "finalize", "done"}
  /\ changed \in BOOLEAN
  /\ todo \in Seq((DOMAIN source) \X Name)
  /\ job \in JobType(DOMAIN source)
  /\ Len(job.splits) <= Len(job.calls) /\ job.at \in 0..Len(job.calls) + 1

\* All parsers are well-formed code.
InvCode ==
  /\ \A p \in DOMAIN program : CodeFits(program, program[p], Lasting(p))
  /\ IsRanked(program)

\* The calls that are still there.
Pending == {k \in DOMAIN job.calls : phase = "finalize" => k >= job.at}

\* The job has an instance of a parser and the calls of it that are left.
InvJob ==
  InJob =>
    /\ job.parser \in DOMAIN program
    /\ JobFits(program, Caller, job.inst, job.calls, Pending)
    /\ phase # "split" => Len(job.splits) = Len(job.calls) /\ job.at \in 1..Len(job.calls) + 1

\* The splits that are not finalized, and those without the code to enter the copy.
Waiting == {k \in DOMAIN job.splits : phase = "finalize" => k >= job.at}

Bare == {k \in DOMAIN job.splits : phase = "split" \/ (phase = "clone" /\ k >= job.at)}

\* The states created for the splits wait for their code.
InvSplits ==
  InJob =>
    /\ SplitNames(Caller, job.inst, job.splits)
    /\ SplitStates(Caller, job.splits, Waiting, Bare)
    /\ phase # "split" => CopiesCallOthers(Caller, job.inst)

\* While copies are made, their names are free.
InvFresh ==
  phase = "clone" =>
    FreshIn(Caller, Callee, job.inst, Len(job.calls) > 1, job.at, Lasting(job.parser))

\* As long as nothing has changed in a round, the instances that were visited
\* have a call that cannot be split.
InvRound ==
  /\ ~changed /\ phase \in {"visit", "split", "done"} =>
       \A p \in DOMAIN program : \A x \in ToSet(program[p].insts) :
         x.callee \in DOMAIN program =>
           \/ <<p, x.name>> \in ToSet(todo)
           \/ phase = "split" /\ p = job.parser /\ x.name = job.inst
           \/ HasDeep(program[p], x.name)
  /\ phase = "done" => ~changed /\ todo = <<>>

\* The calls that were split are not nested in a conditional.
InvShallow ==
  \A k \in DOMAIN job.calls :
    phase \in {"clone", "finalize"} \/ k \in DOMAIN job.splits =>
      \A i \in DOMAIN Caller.states : \A c \in Calls(Caller.states[i]) :
        c.inst = job.inst /\ c.res = job.calls[k] => ~c.deep

Inv == InvType /\ InvCode /\ InvJob /\ InvSplits /\ InvFresh /\ InvRound /\ InvShallow

-----------------------------------------------------------------------------
(* The instance of the job *)

\* The instance the job is about.
LEMMA JobFacts ==
  ASSUME InvType, InvCode, InvJob, InJob
  PROVE  /\ job.parser \in DOMAIN program /\ Caller \in ParserType
         /\ Inst \in ToSet(Caller.insts) /\ Inst.name = job.inst /\ Inst.callee \in DOMAIN program
         /\ Inst = InstOf(Caller, job.inst)
         /\ Inst.callee # job.parser
         /\ Callee \in ParserType /\ Callee = program[Inst.callee]
         /\ CodeFits(program, Caller, Lasting(job.parser))
         /\ CodeFits(program, Callee, InstanceNames(Callee))
<1>1. /\ job.parser \in DOMAIN program
      /\ \E x \in ToSet(Caller.insts) : x.name = job.inst /\ x.callee \in DOMAIN program
  BY DEF InvJob, JobFits
<1>2. Caller \in ParserType /\ CodeFits(program, Caller, Lasting(job.parser))
  BY <1>1 DEF InvType, InvCode, Caller
<1>3. PICK x \in ToSet(Caller.insts) : x.name = job.inst /\ x.callee \in DOMAIN program
  BY <1>1
<1>4. Inst = InstOf(Caller, job.inst)
  BY DEF Inst, InstOf
<1>5. Inst = x
  BY <1>2, <1>3, <1>4, InstOfFacts DEF CodeFits, HasNames
<1>6. Inst.callee # job.parser
  <2>1. IsFiniteSet(DOMAIN program) /\ IsRanked(program)
    BY ProgramsAssumption DEF InvType, InvCode, IsModule
  <2> QED BY <1>1, <1>3, <1>5, <2>1, CalleeDiffers DEF Caller
<1>7. Lasting(Inst.callee) = InstanceNames(Callee)
  BY <1>6 DEF Lasting, Expanding, Callee
<1>8. /\ Callee \in ParserType /\ Callee = program[Inst.callee]
      /\ CodeFits(program, Callee, InstanceNames(Callee))
  BY <1>3, <1>5, <1>7 DEF Callee, InvType, InvCode
<1> QED BY <1>1, <1>2, <1>3, <1>4, <1>5, <1>6, <1>8

-----------------------------------------------------------------------------
(* The beginning, and the steps that leave the program alone *)

\* Initially the invariant holds.
LEMMA InitInv == Init => Inv
<1> SUFFICES ASSUME Init PROVE Inv
  OBVIOUS
<1> USE DEF Init
<1>1. IsModule(program) /\ program = source
  BY ProgramsAssumption
<1>2. InvType
  <2>1. program \in [DOMAIN source -> ParserType]
    BY <1>1 DEF IsModule
  <2>2. todo \in Seq((DOMAIN source) \X Name)
    OBVIOUS
  <2>3. Len(job.splits) <= Len(job.calls) /\ job.at \in 0..Len(job.calls) + 1
    BY NoJobFacts
  <2> QED BY <2>1, <2>2, <2>3, NoJobType DEF InvType
<1>3. InvCode
  <2>1. \A p \in DOMAIN program : Lasting(p) = InstanceNames(program[p])
    BY DEF Lasting, Expanding
  <2> QED BY <1>1, <2>1, SourceFits DEF InvCode, IsModule, IsRanked
<1>4. InvJob /\ InvSplits /\ InvFresh
  BY DEF InvJob, InvSplits, InvFresh, InJob
<1>5. InvRound
  BY DEF InvRound
<1>6. InvShallow
  BY NoJobFacts DEF InvShallow
<1> QED BY <1>2, <1>3, <1>4, <1>5, <1>6 DEF Inv

\* Outside the copying nothing is Expanding.
LEMMA LastingAll ==
  ASSUME phase \notin {"clone", "finalize"}
  PROVE  \A p : Lasting(p) = InstanceNames(program[p])
BY DEF Lasting, Expanding

\* Where nothing is being cloned all instances last.
LEMMA LastingAllNext ==
  ASSUME phase' \notin {"clone", "finalize"}
  PROVE  \A p : Lasting(p)' = InstanceNames(program'[p])
BY DEF Lasting, Expanding

\* The program stays and is not being expanded.
LEMMA CodeStays ==
  ASSUME InvCode, program' = program,
         phase \notin {"clone", "finalize"}, phase' \notin {"clone", "finalize"}
  PROVE  InvCode'
BY LastingAll, LastingAllNext DEF InvCode

\* CollectInstances preserves the invariant.
LEMMA CollectInv ==
  ASSUME Inv, CollectInstances
  PROVE  Inv'
<1> USE DEF CollectInstances
<1>1. InvType /\ InvCode /\ InvShallow
  BY DEF Inv
<1> DEFINE all(n) == [i \in DOMAIN program[order[n]].insts |->
                        <<order[n], program[order[n]].insts[i].name>>]
           seqs == [n \in DOMAIN order |-> all(n)]
           D == (DOMAIN source) \X Name
<1>2. /\ order \in Seq(DOMAIN source) /\ ToSet(order) = DOMAIN source
      /\ program \in [DOMAIN source -> ParserType]
  BY <1>1, OrdersAssumption DEF InvType
<1>3. ASSUME NEW n \in DOMAIN order
      PROVE  /\ seqs[n] \in Seq(D)
             /\ \A x \in ToSet(program[order[n]].insts) : <<order[n], x.name>> \in ToSet(seqs[n])
  <2> DEFINE p == order[n]
             I == program[p].insts
             s == [i \in DOMAIN I |-> <<p, I[i].name>>]
  <2>1. p \in DOMAIN source /\ program[p] \in ParserType
    BY <1>2, SeqFacts
  <2>2. /\ Len(I) \in Nat /\ DOMAIN I = 1..Len(I) /\ \A i \in DOMAIN I : I[i].name \in Name
    BY <2>1, ParserFacts, SeqFacts
  <2>3. seqs[n] = s
    OBVIOUS
  <2>4. s \in [1..Len(I) -> D]
    BY <2>1, <2>2
  <2>5. s \in Seq(D) /\ DOMAIN s = DOMAIN I
    BY <2>2, <2>4, AsSeq
  <2>6. \A x \in ToSet(I) : <<p, x.name>> \in ToSet(s)
    BY <2>5 DEF ToSet
  <2> QED BY <2>3, <2>5, <2>6
<1>4. seqs \in Seq(Seq(D)) /\ DOMAIN seqs = DOMAIN order
  <2>1. DOMAIN seqs = DOMAIN order
    OBVIOUS
  <2>2. Len(order) \in Nat /\ DOMAIN order = 1..Len(order)
    BY <1>2, SeqFacts
  <2>3. seqs \in [1..Len(order) -> Seq(D)]
    <3>1. seqs = [n \in DOMAIN order |-> seqs[n]]
      OBVIOUS
    <3> HIDE DEF seqs, D
    <3> QED BY <1>3, <2>2, <3>1
  <2> QED BY <2>1, <2>2, <2>3, AsSeq
<1>5. todo' = FlattenSeq(seqs)
  OBVIOUS
<1> HIDE DEF seqs
<1>6. todo' \in Seq(D) /\ ToSet(todo') = UNION {ToSet(seqs[n]) : n \in DOMAIN seqs}
  BY <1>4, <1>5, FlattenFacts
<1>7. InvType'
  BY <1>1, <1>6 DEF InvType
<1>8. InvCode'
  BY <1>1, CodeStays
<1>9. InvJob' /\ InvSplits' /\ InvFresh'
  BY DEF InvJob, InvSplits, InvFresh, InJob
<1>10. InvRound'
  <2>1. \A p \in DOMAIN program : \A x \in ToSet(program[p].insts) : <<p, x.name>> \in ToSet(todo')
    <3> SUFFICES ASSUME NEW p \in DOMAIN program, NEW x \in ToSet(program[p].insts)
                 PROVE  <<p, x.name>> \in ToSet(todo')
      OBVIOUS
    <3>1. p \in ToSet(order)
      BY <1>2
    <3>2. PICK n \in DOMAIN order : order[n] = p
      BY <3>1 DEF ToSet
    <3> QED BY <1>3, <1>4, <1>6, <3>2
  <2> QED BY <2>1 DEF InvRound
<1>11. InvShallow'
  BY <1>1 DEF InvShallow, Caller
<1> QED BY <1>7, <1>8, <1>9, <1>10, <1>11 DEF Inv

\* The first instance that is still to be visited.
LEMMA NextTodo ==
  ASSUME InvType, todo # <<>>
  PROVE  /\ Head(todo)[1] \in DOMAIN source /\ Head(todo)[2] \in Name
         /\ Tail(todo) \in Seq((DOMAIN source) \X Name)
         /\ ToSet(todo) = ToSet(Tail(todo)) \cup {<<Head(todo)[1], Head(todo)[2]>>}
<1> DEFINE D == (DOMAIN source) \X Name
           h == Head(todo)
<1>1. todo \in Seq(D)
  BY DEF InvType
<1> HIDE DEF D
<1>2. h \in D /\ Tail(todo) \in Seq(D) /\ ToSet(todo) = ToSet(Tail(todo)) \cup {h}
  BY <1>1, HeadTail
<1> HIDE DEF h
<1>3. h[1] \in DOMAIN source /\ h[2] \in Name /\ h = <<h[1], h[2]>>
  BY <1>2, PairFacts DEF D
<1> QED BY <1>2, <1>3 DEF D, h

\* VisitInstance preserves the invariant.
LEMMA VisitInv ==
  ASSUME Inv, VisitInstance
  PROVE  Inv'
<1> DEFINE p == Head(todo)[1]
           inst == Head(todo)[2]
           P == program[p]
           calls == [k \in DOMAIN CallsOf(P, inst) |-> CallsOf(P, inst)[k].res]
<1>1. /\ phase = "visit" /\ todo # <<>> /\ IsParser(p, inst) /\ phase' = "split"
      /\ todo' = Tail(todo)
      /\ job' = [NoJob EXCEPT !.parser = p, !.inst = inst, !.calls = calls]
      /\ source' = source /\ order' = order /\ program' = program /\ changed' = changed
  BY DEF VisitInstance, Visit
<1>2. InvType /\ InvCode /\ InvRound
  BY DEF Inv
<1>3. /\ p \in DOMAIN source /\ inst \in Name /\ todo' \in Seq((DOMAIN source) \X Name)
      /\ ToSet(todo) = ToSet(todo') \cup {<<p, inst>>}
  BY <1>1, <1>2, NextTodo
<1>4. p \in DOMAIN program /\ P \in ParserType /\ IsSSA(P) /\ HasKinds(P)
  BY <1>2, <1>3 DEF InvType, InvCode, CodeFits
<1>5. calls \in Seq(Name) /\ JobFits(program, P, inst, calls, DOMAIN calls)
  <2>1. PICK i \in DOMAIN P.insts : P.insts[i].name = inst /\ P.insts[i].callee \in DOMAIN program
    BY <1>1 DEF IsParser
  <2>2. P.insts[i] \in ToSet(P.insts)
    BY DEF ToSet
  <2> HIDE DEF P, inst
  <2> QED BY <1>4, <2>1, <2>2, VisitFits
<1>6. /\ job'.parser = p /\ job'.inst = inst /\ job'.calls = calls /\ job'.splits = <<>>
      /\ job'.at = 0 /\ Caller' = P
  <2>1. job'.parser = p /\ job'.inst = inst /\ job'.calls = calls /\ job'.splits = <<>> /\ job'.at = 0
    BY <1>1 DEF NoJob
  <2> QED BY <1>1, <2>1 DEF Caller
<1> HIDE DEF p, inst, P, calls
<1>7. InvType'
  <2>1. job' \in JobType(DOMAIN source)
    <3>1. job' = [parser |-> p, inst |-> inst, calls |-> calls, splits |-> <<>>, at |-> 0]
      BY <1>1 DEF NoJob
    <3>2. <<>> \in Seq(SplitType) /\ 0 \in Nat
      OBVIOUS
    <3> QED BY <1>3, <1>5, <3>1, <3>2 DEF JobType
  <2>2. Len(job'.splits) <= Len(job'.calls) /\ job'.at \in 0..Len(job'.calls) + 1
    BY <1>5, <1>6, NoJobFacts
  <2> QED BY <1>1, <1>2, <1>3, <2>1, <2>2 DEF InvType
<1>8. InvCode'
  BY <1>1, <1>2, CodeStays
<1>9. InvJob'
  <2>1. Pending' = DOMAIN calls
    BY <1>1, <1>6 DEF Pending
  <2> QED BY <1>1, <1>4, <1>5, <1>6, <2>1 DEF InvJob
<1>10. InvSplits' /\ InvFresh'
  BY <1>1, <1>6, NoJobFacts DEF InvSplits, InvFresh, SplitNames, SplitStates
<1>11. InvRound'
  <2> SUFFICES ASSUME ~changed, NEW q \in DOMAIN program, NEW x \in ToSet(program[q].insts),
                      x.callee \in DOMAIN program
               PROVE  \/ <<q, x.name>> \in ToSet(todo')
                      \/ q = p /\ x.name = inst
                      \/ HasDeep(program[q], x.name)
    BY <1>1, <1>6 DEF InvRound
  <2>1. <<q, x.name>> \in ToSet(todo) \/ HasDeep(program[q], x.name)
    BY <1>1, <1>2 DEF InvRound
  <2> QED BY <1>3, <2>1
<1>12. InvShallow'
  BY <1>1, <1>6, NoJobFacts DEF InvShallow
<1> QED BY <1>7, <1>8, <1>9, <1>10, <1>11, <1>12 DEF Inv

\* SkipInstance preserves the invariant.
LEMMA SkipInv ==
  ASSUME Inv, SkipInstance
  PROVE  Inv'
<1> DEFINE p == Head(todo)[1]
           inst == Head(todo)[2]
<1>1. /\ phase = "visit" /\ todo # <<>> /\ ~IsParser(p, inst) /\ phase' = phase
      /\ todo' = Tail(todo)
      /\ source' = source /\ order' = order /\ program' = program /\ changed' = changed
      /\ job' = job
  BY DEF SkipInstance
<1>2. InvType /\ InvCode /\ InvRound /\ InvShallow
  BY DEF Inv
<1>3. /\ p \in DOMAIN source /\ inst \in Name /\ todo' \in Seq((DOMAIN source) \X Name)
      /\ ToSet(todo) = ToSet(todo') \cup {<<p, inst>>}
  BY <1>1, <1>2, NextTodo
<1> HIDE DEF p, inst
<1>4. InvType'
  BY <1>1, <1>2, <1>3 DEF InvType
<1>5. InvCode'
  BY <1>1, <1>2, CodeStays
<1>6. InvJob' /\ InvSplits' /\ InvFresh'
  BY <1>1 DEF InvJob, InvSplits, InvFresh, InJob
<1>7. InvRound'
  <2> SUFFICES ASSUME ~changed, NEW q \in DOMAIN program, NEW x \in ToSet(program[q].insts),
                      x.callee \in DOMAIN program
               PROVE  <<q, x.name>> \in ToSet(todo') \/ HasDeep(program[q], x.name)
    BY <1>1 DEF InvRound
  <2>1. <<q, x.name>> \in ToSet(todo) \/ HasDeep(program[q], x.name)
    BY <1>1, <1>2 DEF InvRound
  <2>2. <<q, x.name>> # <<p, inst>>
    <3>1. PICK i \in DOMAIN program[q].insts : program[q].insts[i] = x
      BY DEF ToSet
    <3>2. IsParser(q, x.name)
      BY <3>1 DEF IsParser
    <3> QED BY <1>1, <3>2
  <2> QED BY <1>3, <2>1, <2>2
<1>8. InvShallow'
  BY <1>1, <1>2 DEF InvShallow, Caller
<1> QED BY <1>4, <1>5, <1>6, <1>7, <1>8 DEF Inv

\* EndOfRound preserves the invariant: a round that changed nothing has seen every instance.
LEMMA EndOfRoundInv ==
  ASSUME Inv, EndOfRound
  PROVE  Inv'
<1>1. /\ phase = "visit" /\ todo = <<>> /\ phase' = IF changed THEN "collect" ELSE "done"
      /\ source' = source /\ order' = order /\ program' = program /\ changed' = changed
      /\ job' = job /\ todo' = todo
  BY DEF EndOfRound
<1>2. InvType /\ InvCode /\ InvRound /\ InvShallow
  BY DEF Inv
<1>3. phase' \in {"collect", "done"}
  BY <1>1
<1>4. InvType'
  BY <1>1, <1>2, <1>3 DEF InvType
<1>5. InvCode'
  BY <1>1, <1>2, <1>3, CodeStays
<1>6. InvJob' /\ InvSplits' /\ InvFresh'
  BY <1>3 DEF InvJob, InvSplits, InvFresh, InJob
<1>7. InvRound'
  <2>1. phase' = "done" => ~changed' /\ todo' = <<>>
    BY <1>1, <1>2 DEF InvType
  <2>2. ASSUME ~changed, NEW q \in DOMAIN program, NEW x \in ToSet(program[q].insts),
               x.callee \in DOMAIN program
        PROVE  <<q, x.name>> \in ToSet(todo') \/ HasDeep(program[q], x.name)
    BY <1>1, <1>2, <2>2 DEF InvRound
  <2> QED BY <1>1, <1>3, <2>1, <2>2 DEF InvRound
<1>8. InvShallow'
  BY <1>1, <1>2, <1>3 DEF InvShallow, Caller
<1> QED BY <1>4, <1>5, <1>6, <1>7, <1>8 DEF Inv

-----------------------------------------------------------------------------
(* The step of a module in which one parser changes *)

\* A step that changes one parser keeps all parsers well formed if that one is.
LEMMA ParserStep ==
  ASSUME InvType, InvCode, NEW q \in DOMAIN program, NEW Q \in ParserType,
         program' = [program EXCEPT ![q] = Q],
         SameSignature(program[q], Q), KeepsRank(program, q, Q),
         CodeFits(program, Q, Lasting(q)'),
         \A p \in DOMAIN program : p # q => Lasting(p)' = Lasting(p)
  PROVE  InvCode' /\ program' \in [DOMAIN source -> ParserType]
<1>1. /\ program \in [DOMAIN source -> ParserType] /\ DOMAIN program' = DOMAIN program
      /\ program'[q] = Q
      /\ \A p \in DOMAIN program : p # q => program'[p] = program[p]
  BY DEF InvType
<1>2. program' \in [DOMAIN source -> ParserType]
  BY <1>1
<1>3. IsRanked(program')
  <2>1. IsRanked(program)
    BY DEF InvCode
  <2> QED BY <2>1, RankFrame
<1>4. ASSUME NEW p \in DOMAIN program' PROVE CodeFits(program', program'[p], Lasting(p)')
  <2>1. CASE p = q
    <3>1. \A x \in DOMAIN program : SameSignature(program[x], program'[x])
      BY <1>1 DEF SameSignature
    <3>2. IsLinked(program', Q)
      BY <1>1, <3>1, LinkedStill DEF CodeFits
    <3> QED BY <1>1, <2>1, <3>2 DEF CodeFits
  <2>2. CASE p # q
    <3>1. CodeFits(program, program[p], Lasting(p)) /\ p \in DOMAIN program
      BY <1>1 DEF InvCode
    <3>2. CodeFits(program', program'[p], Lasting(p))
      BY <2>2, <3>1, FrameCode
    <3> QED BY <2>2, <3>1, <3>2
  <2> QED BY <2>1, <2>2
<1> QED BY <1>2, <1>3, <1>4 DEF InvCode

\* The instances of other parsers last.
LEMMA LastingOthers ==
  ASSUME InvType, NEW Q, program' = [program EXCEPT ![job.parser] = Q],
         job'.parser = job.parser \/ phase' \notin {"clone", "finalize"}
  PROVE  \A p \in DOMAIN program : p # job.parser => Lasting(p)' = Lasting(p)
<1> TAKE p \in DOMAIN program
<1> SUFFICES ASSUME p # job.parser PROVE Lasting(p)' = Lasting(p)
  OBVIOUS
<1>1. program'[p] = program[p] /\ Lasting(p) = InstanceNames(program[p])
  BY DEF InvType, Lasting, Expanding
<1>2. Lasting(p)' = InstanceNames(program'[p])
  BY DEF Lasting, Expanding
<1> QED BY <1>1, <1>2

\* EraseInstance preserves the invariant.
LEMMA EraseInv ==
  ASSUME Inv, EraseInstance
  PROVE  Inv'
<1>1. /\ phase = "finalize" /\ job.at > Len(job.calls) /\ changed' = TRUE /\ phase' = "visit"
      /\ job' = NoJob /\ source' = source /\ order' = order /\ todo' = todo
      /\ program' = [program EXCEPT ![job.parser].insts =
                      Chosen(@, {i \in DOMAIN @ : @[i].name # job.inst})]
  BY DEF EraseInstance
<1>2. InvType /\ InvCode /\ InvJob
  BY DEF Inv
<1>3. InJob
  BY <1>1 DEF InJob
<1>4. PICK q, P, inst : q = job.parser /\ P = Caller /\ inst = job.inst
  OBVIOUS
<1>5. PICK Q : Q = [P EXCEPT !.insts = Chosen(@, {i \in DOMAIN @ : @[i].name # inst})]
  OBVIOUS
<1>6. q \in DOMAIN program /\ P \in ParserType /\ P = program[q] /\ CodeFits(program, P, Lasting(q))
  BY <1>2, <1>3, <1>4, JobFacts DEF Caller
<1>7. program' = [program EXCEPT ![q] = Q]
  BY <1>1, <1>4, <1>5, <1>6
<1>8. \A i \in DOMAIN P.states : \A c \in Calls(P.states[i]) : c.inst # inst
  <2>1. job.calls \in Seq(Name) /\ job.at \in Nat
    BY <1>2 DEF InvType, JobType
  <2>2. Pending = {}
    BY <1>1, <2>1 DEF Pending
  <2> QED BY <1>2, <1>3, <1>4, <2>2 DEF InvJob, JobFits
<1>9. PICK J : J = Lasting(q)
  OBVIOUS
<1>10. J = InstanceNames(P) \ {inst}
  BY <1>1, <1>4, <1>6, <1>9 DEF Lasting, Expanding
<1>11. /\ Q \in ParserType /\ CodeFits(program, Q, J) /\ SameSignature(P, Q)
       /\ ToSet(Q.insts) \subseteq ToSet(P.insts) /\ InstanceNames(Q) = J
  <2>1. IsErased(program, P, Q, J)
    BY <1>5, <1>6, <1>8, <1>9, <1>10, EraseFits
  <2> QED BY <2>1 DEF IsErased
<1>12. Lasting(q)' = InstanceNames(Q)
  <2>1. program'[q] = Q
    BY <1>2, <1>6, <1>7 DEF InvType
  <2> QED BY <1>1, <2>1 DEF Lasting, Expanding
<1>13. InvCode' /\ program' \in [DOMAIN source -> ParserType]
  <2>1. \A p \in DOMAIN program : p # q => Lasting(p)' = Lasting(p)
    BY <1>1, <1>2, <1>4, <1>7, LastingOthers
  <2>2. KeepsRank(program, q, Q)
    BY <1>6, <1>11, SameInstsRank
  <2>3. SameSignature(program[q], Q) /\ CodeFits(program, Q, Lasting(q)')
    BY <1>6, <1>11, <1>12
  <2> QED BY <1>2, <1>6, <1>7, <1>11, <2>1, <2>2, <2>3, ParserStep
<1>14. InvType'
  <2>1. Len(job'.splits) <= Len(job'.calls) /\ job'.at \in 0..Len(job'.calls) + 1
    BY <1>1, NoJobFacts
  <2> QED BY <1>1, <1>2, <1>13, <2>1, NoJobType DEF InvType
<1>15. InvJob' /\ InvSplits' /\ InvFresh' /\ InvRound' /\ InvShallow'
  BY <1>1, NoJobFacts DEF InvJob, InvSplits, InvFresh, InvRound, InvShallow, InJob
<1> QED BY <1>13, <1>14, <1>15 DEF Inv

\* AllCloned preserves the invariant.
LEMMA AllClonedInv ==
  ASSUME Inv, AllCloned
  PROVE  Inv'
<1>1. /\ phase = "clone" /\ job.at > Len(job.calls) /\ phase' = "finalize"
      /\ job' = [job EXCEPT !.at = 1]
      /\ source' = source /\ order' = order /\ program' = program /\ todo' = todo
      /\ changed' = changed
  BY DEF AllCloned
<1>2. InvType /\ InvCode /\ InvJob /\ InvSplits /\ InvRound /\ InvShallow
  BY DEF Inv
<1>3. InJob /\ InJob'
  BY <1>1 DEF InJob
<1>4. /\ job'.parser = job.parser /\ job'.inst = job.inst /\ job'.calls = job.calls
      /\ job'.splits = job.splits /\ job'.at = 1 /\ job' \in JobType(DOMAIN source)
      /\ Len(job.calls) \in Nat /\ DOMAIN job.calls = 1..Len(job.calls)
      /\ DOMAIN job.splits = 1..Len(job.splits) /\ job.at \in Nat
      /\ Len(job.splits) \in Nat
  <2>1. job \in JobType(DOMAIN source)
    BY <1>2 DEF InvType
  <2>2. /\ job.calls \in Seq(Name) /\ job.splits \in Seq(SplitType) /\ job.at \in Nat
    BY <2>1 DEF JobType
  <2>3. /\ job'.parser = job.parser /\ job'.inst = job.inst /\ job'.calls = job.calls
        /\ job'.splits = job.splits /\ job'.at = 1
    BY <1>1, <2>1 DEF JobType
  <2>4. job' \in JobType(DOMAIN source)
    BY <1>1, <2>1 DEF JobType
  <2>5. /\ Len(job.calls) \in Nat /\ DOMAIN job.calls = 1..Len(job.calls)
        /\ DOMAIN job.splits = 1..Len(job.splits) /\ Len(job.splits) \in Nat
    BY <2>2, SeqFacts
  <2> QED BY <2>2, <2>3, <2>4, <2>5
<1>5. Caller' = Caller /\ Pending' = Pending /\ Waiting' = Waiting
  BY <1>1, <1>4 DEF Caller, Pending, Waiting
<1>6. Bare' = {}
  BY <1>1 DEF Bare
<1>7. \A p : Lasting(p)' = Lasting(p)
  BY <1>1, <1>4 DEF Lasting, Expanding
<1>8. InvType'
  <2>1. Len(job'.splits) <= Len(job'.calls) /\ job'.at \in 0..Len(job'.calls) + 1
    BY <1>2, <1>4 DEF InvType
  <2> QED BY <1>1, <1>2, <1>4, <2>1 DEF InvType
<1>9. InvCode'
  BY <1>1, <1>2, <1>7 DEF InvCode
<1>10. InvJob'
  <2>1. job'.at \in 1..Len(job'.calls) + 1
    BY <1>4
  <2> QED BY <1>1, <1>2, <1>3, <1>4, <1>5, <2>1 DEF InvJob
<1>11. InvSplits'
  BY <1>1, <1>2, <1>3, <1>4, <1>5, <1>6 DEF InvSplits, SplitStates
<1>12. InvFresh' /\ InvRound'
  BY <1>1 DEF InvFresh, InvRound
<1>13. InvShallow'
  BY <1>1, <1>2, <1>4, <1>5 DEF InvShallow
<1> QED BY <1>8, <1>9, <1>10, <1>11, <1>12, <1>13 DEF Inv

-----------------------------------------------------------------------------
(* The site of a call *)

\* The state of a pending call.
LEMMA CallSite ==
  ASSUME InvType, InvCode, InvJob, InJob, NEW k \in Pending
  PROVE  /\ job.calls[k] # NoValue
         /\ \E i \in DOMAIN Caller.states : \E j \in DOMAIN Caller.states[i].ops :
              /\ SiteOf(Caller, job.calls[k]) = Caller.states[i]
              /\ CallIn(Caller.states[i], job.calls[k]) = j
              /\ IsCallOf(Caller.states[i].ops[j], job.inst)
              /\ Caller.states[i].ops[j].res = job.calls[k]
<1>1. Caller \in ParserType /\ IsSSA(Caller) /\ HasKinds(Caller)
  BY JobFacts DEF CodeFits
<1>2. PICK i \in DOMAIN Caller.states : \E c \in Calls(Caller.states[i]) :
        c.inst = job.inst /\ c.res = job.calls[k]
  BY DEF InvJob, JobFits
<1>3. PICK c \in Calls(Caller.states[i]) : c.inst = job.inst /\ c.res = job.calls[k]
  BY <1>2
<1>4. PICK j \in DOMAIN Caller.states[i].ops :
        Caller.states[i].ops[j].op = "apply" /\ c = CallOf(Caller.states[i].ops[j])
  BY CallsFacts
<1>5. IsCallOf(Caller.states[i].ops[j], job.inst) /\ Caller.states[i].ops[j].res = job.calls[k]
  BY <1>3, <1>4, CallOfFacts DEF IsCallOf
<1>6. job.calls[k] # NoValue
  <2>1. KindsFit(Caller.states[i])
    BY <1>1, KindsFacts
  <2> QED BY <1>4, <1>5, <2>1 DEF KindsFit, KindFits
<1>7. SiteOf(Caller, job.calls[k]) = Caller.states[i] /\ CallIn(Caller.states[i], job.calls[k]) = j
  BY <1>1, <1>5, <1>6, SiteFacts
<1> QED BY <1>5, <1>6, <1>7

-----------------------------------------------------------------------------
(* The calls that stay *)

\* Only the step that moves the code around a call removes one, of the job's instance.
CallsKept ==
  \A p \in DOMAIN program : \A i \in DOMAIN program[p].states : \A c \in Calls(program[p].states[i]) :
    \/ \E m \in DOMAIN program'[p].states : c \in Calls(program'[p].states[m])
    \/ phase = "finalize" /\ p = job.parser /\ c.inst = job.inst

\* If one parser keeps its calls, all parsers keep theirs.
LEMMA OneKept ==
  ASSUME InvType, NEW q \in DOMAIN program, NEW Q, program' = [program EXCEPT ![q] = Q],
         CallsStay(program[q], Q)
  PROVE  CallsKept
<1>1. program'[q] = Q /\ \A p \in DOMAIN program : p # q => program'[p] = program[p]
  BY DEF InvType
<1>2. ASSUME NEW p \in DOMAIN program, NEW i \in DOMAIN program[p].states, NEW c \in Calls(program[p].states[i])
      PROVE  \E m \in DOMAIN program'[p].states : c \in Calls(program'[p].states[m])
  <2>1. CASE p = q
    BY <1>1, <2>1 DEF CallsStay
  <2>2. CASE p # q
    BY <1>1, <2>2
  <2> QED BY <2>1, <2>2
<1> QED BY <1>2 DEF CallsKept

-----------------------------------------------------------------------------
(* The step that splits a state, and the one that gives up *)

\* What was visited still has a call that cannot be split.
LEMMA RoundStays ==
  ASSUME InvType, InvRound, phase = "split", phase' = "split", NEW q \in DOMAIN program, q = job.parser,
         NEW Q, program' = [program EXCEPT ![q] = Q],
         Q.insts = program[q].insts, CallsStay(program[q], Q),
         changed' = changed, todo' = todo, job'.parser = job.parser, job'.inst = job.inst
  PROVE  InvRound'
<1>1. /\ DOMAIN program' = DOMAIN program /\ program'[q] = Q
      /\ \A p \in DOMAIN program : p # q => program'[p] = program[p]
  BY DEF InvType
<1>2. ASSUME ~changed, NEW p \in DOMAIN program, NEW x \in ToSet(program'[p].insts),
             x.callee \in DOMAIN program
      PROVE  \/ <<p, x.name>> \in ToSet(todo)
             \/ p = job.parser /\ x.name = job.inst
             \/ HasDeep(program'[p], x.name)
  <2>1. x \in ToSet(program[p].insts)
    BY <1>1
  <2>2. \/ <<p, x.name>> \in ToSet(todo)
        \/ p = job.parser /\ x.name = job.inst
        \/ HasDeep(program[p], x.name)
    BY <1>2, <2>1 DEF InvRound
  <2>3. HasDeep(program[p], x.name) => HasDeep(program'[p], x.name)
    BY <1>1, DeepStays
  <2> QED BY <2>2, <2>3
<1> QED BY <1>1, <1>2 DEF InvRound

\* SplitState preserves the invariant and keeps the calls.
LEMMA SplitInv ==
  ASSUME Inv, SplitState
  PROVE  Inv' /\ CallsKept
<1>1. PICK q, P, inst, calls, splits, k, J :
        /\ q = job.parser /\ P = Caller /\ inst = job.inst /\ calls = job.calls
        /\ splits = job.splits /\ k = Len(job.splits) + 1 /\ J = Lasting(job.parser)
  OBVIOUS
<1>2. InvType /\ InvCode /\ InvJob /\ InvSplits /\ InvRound /\ InvShallow
  BY DEF Inv
<1>3. PICK site : site = SiteOf(P, calls[k])
  OBVIOUS
<1>4. PICK pre, post : /\ pre = UniqueName(P, site.name \o <<"pre">>)
                       /\ post = UniqueName(P, site.name \o <<"post">>)
  OBVIOUS
<1>5. /\ phase = "split" /\ k <= Len(calls) /\ CanSplitAt(site, calls[k])
      /\ program' = [program EXCEPT ![q] =
              InsertStates(@, site.name, <<ParserState(pre, <<>>, Missing),
                                           ParserState(post, <<>>, Missing)>>)]
      /\ job' = [job EXCEPT !.splits = Append(@, [pre |-> pre, post |-> post])]
      /\ source' = source /\ order' = order /\ phase' = phase /\ todo' = todo
      /\ changed' = changed
  BY <1>1, <1>3, <1>4 DEF SplitState
<1>6. InJob /\ InJob'
  BY <1>5 DEF InJob
<1>7. /\ job \in JobType(DOMAIN source) /\ calls \in Seq(Name) /\ splits \in Seq(SplitType)
      /\ job.at \in Nat /\ inst \in Name
      /\ Len(calls) \in Nat /\ DOMAIN calls = 1..Len(calls)
      /\ Len(splits) \in Nat /\ DOMAIN splits = 1..Len(splits)
  <2>1. job \in JobType(DOMAIN source)
    BY <1>2 DEF InvType
  <2>2. calls \in Seq(Name) /\ splits \in Seq(SplitType) /\ job.at \in Nat /\ inst \in Name
    BY <1>1, <2>1 DEF JobType
  <2> QED BY <2>1, <2>2, SeqFacts
<1>8. /\ k \in DOMAIN calls /\ k \in Nat
      /\ Pending = DOMAIN calls /\ Waiting = DOMAIN splits /\ Bare = DOMAIN splits
  <2>1. k \in DOMAIN calls /\ k \in Nat
    BY <1>1, <1>5, <1>7
  <2> QED BY <1>1, <1>5, <2>1 DEF Pending, Waiting, Bare
<1>9. /\ q \in DOMAIN program /\ P \in ParserType /\ P = program[q] /\ CodeFits(program, P, J)
      /\ J = InstanceNames(P)
  <2>1. /\ q \in DOMAIN program /\ P \in ParserType /\ P = program[q] /\ CodeFits(program, P, J)
    BY <1>1, <1>2, <1>6, JobFacts DEF Caller
  <2>2. J = InstanceNames(P)
    BY <1>1, <1>5, <2>1, LastingAll
  <2> QED BY <2>1, <2>2
<1>10. calls[k] # NoValue /\ \E i \in DOMAIN P.states : site = P.states[i]
  <2>1. k \in Pending
    BY <1>8
  <2> QED BY <1>1, <1>2, <1>3, <1>6, <2>1, CallSite
<1>11. PICK B \in DOMAIN P.states : site = P.states[B]
  BY <1>10
<1>12. J \in SUBSET Name /\ inst \in J
  <2>1. J \in SUBSET Name
    BY <1>9, ParserFacts DEF InstanceNames
  <2>2. \E x \in ToSet(P.insts) : x.name = inst
    BY <1>1, <1>2, <1>6 DEF InvJob, JobFits
  <2> QED BY <1>9, <2>1, <2>2, InstanceNamesFacts
<1>13. NewName(P, J, pre) /\ NewName(P, J, post) /\ pre # post
  <2>1. HasNames(P, J)
    BY <1>9 DEF CodeFits
  <2>2. NewName(P, J, pre) /\ Begins(pre, site.name \o <<"pre">>)
    BY <1>4, <1>9, <1>11, <1>12, <2>1, SplitName
  <2>3. NewName(P, J, post) /\ Begins(post, site.name \o <<"post">>)
    BY <1>4, <1>9, <1>11, <1>12, <2>1, SplitName
  <2>4. site.name \in Name
    BY <1>9, <1>11, ParserFacts
  <2> QED BY <2>2, <2>3, <2>4, SplitNamesDiffer
<1>14. PICK Q : Q = InsertStates(P, site.name, <<ParserState(pre, <<>>, Missing),
                                                 ParserState(post, <<>>, Missing)>>)
  OBVIOUS
<1>15. program' = [program EXCEPT ![q] = Q]
  BY <1>5, <1>9, <1>14
<1>16. PICK more : more = Append(splits, [pre |-> pre, post |-> post])
  OBVIOUS
<1>17. /\ job'.parser = q /\ job'.inst = inst /\ job'.calls = calls /\ job'.splits = more
       /\ job'.at = job.at /\ job' = [job EXCEPT !.splits = more]
  BY <1>1, <1>5, <1>7, <1>16 DEF JobType
<1>18. IsSplitInto(P, Q, B, pre, post) /\ CodeFits(program, Q, J)
  BY <1>9, <1>11, <1>12, <1>13, <1>14, SplitFits
<1>19. Q \in ParserType /\ Q.insts = P.insts /\ Q.top = P.top /\ Q.params = P.params
  BY <1>18 DEF IsSplitInto, IsExtendedBy
<1>20. CallsStay(P, Q) /\ CallsStay(Q, P)
  BY <1>13, <1>18, SplitStatesAre DEF NewName, HasSplit
<1>21. /\ more \in Seq(SplitType) /\ Len(more) = k /\ DOMAIN more = DOMAIN splits \cup {k}
       /\ SplitNames(Q, inst, more) /\ SplitStates(Q, more, DOMAIN more, DOMAIN more)
  <2>1. SplitNames(P, inst, splits) /\ SplitStates(P, splits, DOMAIN splits, DOMAIN splits)
    BY <1>1, <1>2, <1>6, <1>8 DEF InvSplits
  <2>2. /\ pre \in Name /\ post \in Name /\ pre \notin StateNames(P) /\ post \notin StateNames(P)
        /\ Apart(inst, pre) /\ Apart(inst, post)
    BY <1>12, <1>13 DEF NewName
  <2>3. OneMore(Q, inst, splits, more)
    BY <1>7, <1>13, <1>16, <1>18, <2>1, <2>2, SplitsGrow
  <2> QED BY <1>1, <2>3 DEF OneMore
<1>22. DOMAIN program' = DOMAIN program /\ program'[q] = Q /\ Caller' = Q
  <2>1. DOMAIN program' = DOMAIN program /\ program'[q] = Q
    BY <1>2, <1>9, <1>15 DEF InvType
  <2> QED BY <1>17, <2>1 DEF Caller
<1>23. Lasting(q)' = J
  BY <1>5, <1>9, <1>19, <1>22 DEF Lasting, Expanding, InstanceNames
<1>24. InvCode' /\ program' \in [DOMAIN source -> ParserType]
  <2>1. \A p \in DOMAIN program : p # q => Lasting(p)' = Lasting(p)
    BY <1>1, <1>2, <1>15, <1>17, LastingOthers
  <2>2. KeepsRank(program, q, Q)
    BY <1>9, <1>19, SameInstsRank
  <2>3. SameSignature(program[q], Q) /\ CodeFits(program, Q, Lasting(q)')
    BY <1>9, <1>18, <1>19, <1>23 DEF SameSignature
  <2> QED BY <1>2, <1>9, <1>15, <1>19, <2>1, <2>2, <2>3, ParserStep
<1>25. InvType'
  <2>1. job' \in JobType(DOMAIN source)
    BY <1>7, <1>17, <1>21 DEF JobType
  <2>2. Len(job'.splits) <= Len(job'.calls) /\ job'.at \in 0..Len(job'.calls) + 1
    BY <1>1, <1>2, <1>5, <1>17, <1>21 DEF InvType
  <2> QED BY <1>2, <1>5, <1>24, <2>1, <2>2 DEF InvType
<1>26. InvJob'
  <2>1. Pending' = DOMAIN calls
    BY <1>5, <1>17 DEF Pending
  <2>2. JobFits(program, P, inst, calls, DOMAIN calls)
    BY <1>1, <1>2, <1>6, <1>8 DEF InvJob
  <2>3. JobFits(program', Q, inst, calls, DOMAIN calls)
    BY <1>19, <1>20, <1>22, <2>2, JobStays
  <2> QED BY <1>5, <1>9, <1>17, <1>22, <2>1, <2>3 DEF InvJob
<1>27. InvSplits'
  <2>1. Waiting' = DOMAIN more /\ Bare' = DOMAIN more
    BY <1>5, <1>17 DEF Waiting, Bare
  <2> QED BY <1>5, <1>17, <1>21, <1>22, <2>1 DEF InvSplits
<1>28. InvFresh'
  BY <1>5 DEF InvFresh
<1>29. InvRound'
  <2>1. CallsStay(program[q], Q) /\ Q.insts = program[q].insts /\ job'.parser = job.parser
        /\ job'.inst = job.inst
    BY <1>1, <1>9, <1>17, <1>19, <1>20
  <2> QED BY <1>1, <1>2, <1>5, <1>9, <1>15, <2>1, RoundStays
<1>30. InvShallow'
  <2> SUFFICES ASSUME NEW l \in DOMAIN calls, l \in DOMAIN more,
                      NEW i \in DOMAIN Q.states, NEW c \in Calls(Q.states[i]),
                      c.inst = inst, c.res = calls[l]
               PROVE  ~c.deep
    BY <1>5, <1>17, <1>22 DEF InvShallow
  <2>1. PICK m \in DOMAIN P.states : c \in Calls(P.states[m])
    BY <1>20 DEF CallsStay
  <2>2. CASE l = k
    <3>1. CanSplitAt(SiteOf(P, calls[k]), calls[k]) /\ IsSSA(P)
      BY <1>3, <1>5, <1>9 DEF CodeFits
    <3> QED BY <1>9, <1>10, <2>1, <2>2, <3>1, ShallowSite
  <2>3. CASE l # k
    <3>1. l \in DOMAIN job.splits
      BY <1>1, <1>21, <2>3
    <3> QED BY <1>1, <1>2, <2>1, <3>1 DEF InvShallow
  <2> QED BY <2>2, <2>3
<1>31. CallsKept
  BY <1>2, <1>9, <1>15, <1>20, OneKept
<1> QED BY <1>31, <1>24, <1>25, <1>26, <1>27, <1>28, <1>29, <1>30 DEF Inv

\* Cancel preserves the invariant and keeps the calls.
LEMMA CancelInv ==
  ASSUME Inv, Cancel
  PROVE  Inv' /\ CallsKept
<1>1. PICK q, P, inst, calls, splits, k, J :
        /\ q = job.parser /\ P = Caller /\ inst = job.inst /\ calls = job.calls
        /\ splits = job.splits /\ k = Len(job.splits) + 1 /\ J = Lasting(job.parser)
  OBVIOUS
<1>2. InvType /\ InvCode /\ InvJob /\ InvSplits /\ InvRound
  BY DEF Inv
<1>3. PICK gone : gone = Created
  OBVIOUS
<1>4. /\ phase = "split" /\ k <= Len(calls) /\ ~CanSplitAt(SiteOf(P, calls[k]), calls[k])
      /\ program' = [program EXCEPT ![q].states = Chosen(@, {i \in DOMAIN @ : @[i].name \notin gone})]
      /\ job' = NoJob /\ source' = source /\ order' = order /\ phase' = "visit" /\ todo' = todo
      /\ changed' = changed
  BY <1>1, <1>3 DEF Cancel
<1>5. InJob /\ ~InJob'
  BY <1>4 DEF InJob
<1>6. /\ calls \in Seq(Name) /\ splits \in Seq(SplitType)
      /\ Len(calls) \in Nat /\ DOMAIN calls = 1..Len(calls)
      /\ Len(splits) \in Nat /\ DOMAIN splits = 1..Len(splits)
  <2>1. job \in JobType(DOMAIN source)
    BY <1>2 DEF InvType
  <2>2. calls \in Seq(Name) /\ splits \in Seq(SplitType)
    BY <1>1, <2>1 DEF JobType
  <2> QED BY <2>2, SeqFacts
<1>7. /\ k \in DOMAIN calls
      /\ Pending = DOMAIN calls /\ Waiting = DOMAIN splits /\ Bare = DOMAIN splits
  <2>1. k \in DOMAIN calls
    BY <1>1, <1>4, <1>6
  <2> QED BY <1>1, <1>4, <2>1 DEF Pending, Waiting, Bare
<1>8. /\ q \in DOMAIN program /\ P \in ParserType /\ P = program[q] /\ CodeFits(program, P, J)
      /\ J = InstanceNames(P)
  <2>1. /\ q \in DOMAIN program /\ P \in ParserType /\ P = program[q] /\ CodeFits(program, P, J)
    BY <1>1, <1>2, <1>5, JobFacts DEF Caller
  <2>2. J = InstanceNames(P)
    BY <1>1, <1>4, <2>1, LastingAll
  <2> QED BY <2>1, <2>2
<1>9. \A i \in DOMAIN P.states : P.states[i].name \in gone => IsUnfinished(P.states[i])
  <2>1. SplitStates(P, splits, DOMAIN splits, DOMAIN splits)
    BY <1>1, <1>2, <1>5, <1>7 DEF InvSplits
  <2>2. gone = UNION {{splits[l].pre, splits[l].post} : l \in DOMAIN splits}
    BY <1>1, <1>3 DEF Created
  <2> QED BY <2>1, <2>2 DEF SplitStates
<1>10. PICK Q : Q = [P EXCEPT !.states = Chosen(@, {i \in DOMAIN @ : @[i].name \notin gone})]
  OBVIOUS
<1>11. program' = [program EXCEPT ![q] = Q]
  BY <1>4, <1>8, <1>10
<1>12. IsReduced(program, P, Q, J)
  BY <1>8, <1>9, <1>10, ReducedFits
<1>13. /\ Q \in ParserType /\ Q.params = P.params /\ Q.top = P.top /\ Q.insts = P.insts
       /\ CallsStay(P, Q) /\ CallsStay(Q, P) /\ CodeFits(program, Q, J)
  BY <1>12 DEF IsReduced
<1>14. /\ DOMAIN program' = DOMAIN program /\ program'[q] = Q
       /\ \A p \in DOMAIN program : p # q => program'[p] = program[p]
  BY <1>2, <1>8, <1>11 DEF InvType
<1>15. Lasting(q)' = J
  <2>1. Lasting(q)' = InstanceNames(program'[q])
    BY <1>4, LastingAllNext
  <2> QED BY <1>8, <1>13, <1>14, <2>1 DEF InstanceNames
<1>16. InvCode' /\ program' \in [DOMAIN source -> ParserType]
  <2>1. \A p \in DOMAIN program : p # q => Lasting(p)' = Lasting(p)
    BY <1>1, <1>2, <1>4, <1>11, LastingOthers
  <2>2. KeepsRank(program, q, Q)
    BY <1>8, <1>13, SameInstsRank
  <2>3. SameSignature(program[q], Q) /\ CodeFits(program, Q, Lasting(q)')
    BY <1>8, <1>13, <1>15 DEF SameSignature
  <2> QED BY <1>2, <1>8, <1>11, <1>13, <2>1, <2>2, <2>3, ParserStep
<1>17. InvType'
  <2>1. Len(job'.splits) <= Len(job'.calls) /\ job'.at \in 0..Len(job'.calls) + 1
    BY <1>4, NoJobFacts
  <2> QED BY <1>2, <1>4, <1>16, <2>1, NoJobType DEF InvType
<1>18. InvJob' /\ InvSplits' /\ InvFresh' /\ InvShallow'
  BY <1>4, <1>5, NoJobFacts DEF InvJob, InvSplits, InvFresh, InvShallow
<1>21. HasDeep(P, inst)
  <2>1. PICK i \in DOMAIN P.states : \E j \in DOMAIN P.states[i].ops :
          /\ SiteOf(P, calls[k]) = P.states[i] /\ CallIn(P.states[i], calls[k]) = j
          /\ IsCallOf(P.states[i].ops[j], inst)
    <3>1. k \in Pending
      BY <1>7
    <3> QED BY <1>1, <1>2, <1>5, <3>1, CallSite
  <2> PICK j \in DOMAIN P.states[i].ops :
          /\ SiteOf(P, calls[k]) = P.states[i] /\ CallIn(P.states[i], calls[k]) = j
          /\ IsCallOf(P.states[i].ops[j], inst)
    BY <2>1
  <2>2. P.states[i].ops[j].deep
    BY <1>4, <2>1 DEF CanSplitAt
  <2>3. CallOf(P.states[i].ops[j]) \in Calls(P.states[i])
    BY <2>1, CallsFacts DEF IsCallOf
  <2> QED BY <2>1, <2>2, <2>3, CallOfFacts DEF HasDeep, IsCallOf
<1>20. InvRound'
  <2> SUFFICES ASSUME ~changed, NEW p \in DOMAIN program, NEW x \in ToSet(program'[p].insts),
                      x.callee \in DOMAIN program
               PROVE  <<p, x.name>> \in ToSet(todo) \/ HasDeep(program'[p], x.name)
    BY <1>4, <1>14 DEF InvRound
  <2>1. x \in ToSet(program[p].insts)
    BY <1>8, <1>13, <1>14
  <2>2. \/ <<p, x.name>> \in ToSet(todo)
        \/ p = q /\ x.name = inst
        \/ HasDeep(program[p], x.name)
    BY <1>1, <1>2, <1>4, <2>1 DEF InvRound
  <2>3. HasDeep(program[p], x.name) => HasDeep(program'[p], x.name)
    BY <1>8, <1>13, <1>14, DeepStays
  <2> QED BY <1>8, <1>21, <2>2, <2>3
<1>22. CallsKept
  BY <1>2, <1>8, <1>11, <1>13, OneKept
<1> QED BY <1>16, <1>17, <1>18, <1>20, <1>22 DEF Inv

-----------------------------------------------------------------------------
(* The step that copies the locals and the instances of the callee *)

\* What the step does.
LocalsStep(q, P, C, inst, L, own, i, Q) ==
  /\ LocalsFit(P, C, inst, L) /\ own = InstsOf(C, inst) /\ i \in DOMAIN P.insts
  /\ Q = [P EXCEPT !.top = L \o @, !.insts = InsertAfter(@, i - 1, own)]
  /\ program' = [program EXCEPT ![q] = Q]

\* The parts of the step CloneLocals.
LEMMA CloneLocalsIs ==
  ASSUME InvType, InvCode, InvJob, CloneLocals, NEW q, NEW P, NEW C, NEW x, NEW inst,
         q = job.parser, P = Caller, C = Callee, x = Inst, inst = job.inst
  PROVE  \E L, own, i, Q : LocalsStep(q, P, C, inst, L, own, i, Q)
<1>3. PICK i : i = CHOOSE j \in DOMAIN P.insts : P.insts[j].name = inst
  OBVIOUS
<1>4. PICK L, own : L = LocalsOf(P, C, x) /\ own = InstsOf(C, inst)
  OBVIOUS
<1>5. phase = "split" /\ InJob
  BY DEF CloneLocals, InJob
<1>7. /\ q \in DOMAIN program /\ P \in ParserType /\ P = program[q]
      /\ x \in ToSet(P.insts) /\ x.name = inst /\ x.callee \in DOMAIN program /\ x.callee # q
      /\ C \in ParserType /\ C = program[x.callee] /\ x = InstOf(P, inst)
      /\ CodeFits(program, P, InstanceNames(P)) /\ CodeFits(program, C, InstanceNames(C))
  <2>1. Lasting(q) = InstanceNames(program[q])
    BY <1>5, LastingAll
  <2> QED BY <1>5, <2>1, JobFacts DEF Caller
<1>8. inst \in InstanceNames(P) /\ inst \in Name
  <2>1. inst \in InstanceNames(P)
    BY <1>7, InstanceNamesFacts
  <2>2. InstanceNames(P) \subseteq Name
    BY <1>7, ParserFacts DEF InstanceNames
  <2> QED BY <2>1, <2>2
<1>9. program' = [program EXCEPT ![q].top = L \o @, ![q].insts = InsertAfter(@, i - 1, own)]
  <2>1. L = [n \in DOMAIN SharedOps |-> CloneShared(SharedOps[n])]
    <3>1. SharedOps = SharedIn(C)
      BY DEF SharedOps, SharedAt, SharedIn
    <3>2. \A o : CloneShared(o) = SharedCopy(P, x, o)
      BY <1>7 DEF CloneShared, SharedCopy, SharedName
    <3> QED BY <1>4, <3>1, <3>2 DEF LocalsOf
  <2>2. own = [n \in DOMAIN Callee.insts |->
                  [Callee.insts[n] EXCEPT
                      !.name = SharedName(@),
                      !.args = [a \in DOMAIN @ |-> SharedName(@[a])]]]
    BY <1>4 DEF InstsOf, InstCopy, SharedName
  <2>3. i = CHOOSE k \in DOMAIN Caller.insts : Caller.insts[k].name = job.inst
    BY <1>3
  <2> QED BY <2>1, <2>2, <2>3 DEF CloneLocals
<1>10. i \in DOMAIN P.insts
  <2>1. \E k \in DOMAIN P.insts : P.insts[k].name = inst
    BY <1>7 DEF ToSet
  <2> QED BY <1>3, <2>1
<1>11. PICK Q : Q = [P EXCEPT !.top = L \o @, !.insts = InsertAfter(@, i - 1, own)]
  OBVIOUS
<1>12. program' = [program EXCEPT ![q] = Q]
  BY <1>7, <1>9, <1>11
<1>13. LocalsFit(P, C, inst, L)
  <2>1. InstFits(program, P, x) /\ HasKinds(P) /\ HasKinds(C)
    BY <1>7, LinkedFacts DEF CodeFits
  <2>2. DefinedOnce(P.top) /\ DefinedOnce(C.top)
    BY <1>7, SSAFacts DEF CodeFits
  <2> QED BY <1>4, <1>7, <1>8, <2>1, <2>2, LocalsFacts
<1>14. LocalsStep(q, P, C, inst, L, own, i, Q)
  BY <1>4, <1>10, <1>11, <1>12, <1>13 DEF LocalsStep
<1> QED BY <1>14

\* CloneLocals preserves the invariant and keeps the calls.
LEMMA CloneLocalsInv ==
  ASSUME Inv, CloneLocals
  PROVE  Inv' /\ CallsKept
<1>1. PICK q, P, C, x, inst, calls, splits :
        /\ q = job.parser /\ P = Caller /\ C = Callee /\ x = Inst /\ inst = job.inst
        /\ calls = job.calls /\ splits = job.splits
  OBVIOUS
<1>2. InvType /\ InvCode /\ InvJob /\ InvSplits /\ InvShallow
  BY DEF Inv
<1>5. /\ phase = "split" /\ Len(splits) = Len(calls) /\ phase' = "clone"
      /\ job' = [job EXCEPT !.at = 1] /\ source' = source /\ order' = order
      /\ todo' = todo /\ changed' = changed
  BY <1>1 DEF CloneLocals
<1>6. InJob /\ InJob'
  BY <1>5 DEF InJob
<1>7. /\ q \in DOMAIN program /\ P \in ParserType /\ P = program[q]
      /\ x \in ToSet(P.insts) /\ x.name = inst /\ x.callee \in DOMAIN program /\ x.callee # q
      /\ C \in ParserType /\ C = program[x.callee] /\ x = InstOf(P, inst)
      /\ CodeFits(program, P, InstanceNames(P)) /\ CodeFits(program, C, InstanceNames(C))
  <2>1. Lasting(q) = InstanceNames(program[q])
    BY <1>5, LastingAll
  <2> QED BY <1>1, <1>2, <1>6, <2>1, JobFacts DEF Caller
<1>8. inst \in InstanceNames(P) /\ inst \in Name
  <2>1. inst \in InstanceNames(P)
    BY <1>7, InstanceNamesFacts
  <2>2. InstanceNames(P) \subseteq Name
    BY <1>7, ParserFacts DEF InstanceNames
  <2> QED BY <2>1, <2>2
<1>9. PICK L, own, i, Q : LocalsStep(q, P, C, inst, L, own, i, Q)
  BY <1>1, <1>2, CloneLocalsIs
<1>10. i \in DOMAIN P.insts /\ own = InstsOf(C, inst)
  BY <1>9 DEF LocalsStep
<1>11. Q = [P EXCEPT !.top = L \o @, !.insts = InsertAfter(@, i - 1, own)]
  BY <1>9 DEF LocalsStep
<1>12. program' = [program EXCEPT ![q] = Q]
  BY <1>9 DEF LocalsStep
<1>13. LocalsFit(P, C, inst, L)
  BY <1>9 DEF LocalsStep
<1>14. AreInstCopies(C, inst, own)
  BY <1>7, <1>8, <1>10, InstsCopied
<1>15. IsWithLocals(P, Q, L, own)
  <2>1. L \in Seq(Operation) /\ own \in Seq(InstanceType)
    BY <1>13, <1>14 DEF LocalsFit, AreInstCopies
  <2> QED BY <1>7, <1>10, <1>11, <2>1, WithLocals
<1>16. /\ IsSSA(P) /\ HasKinds(P) /\ IsLinked(program, P) /\ CallsKnown(P)
       /\ HasNames(P, InstanceNames(P))
       /\ IsSSA(C) /\ HasKinds(C) /\ IsLinked(program, C) /\ HasNames(C, InstanceNames(C))
  BY <1>7 DEF CodeFits
<1>17. NamesWith(P, C, inst, Q)
  BY <1>7, <1>8, <1>13, <1>14, <1>15, <1>16, NamesWithLocals
<1>18. Q \in ParserType /\ Q.params = P.params /\ Q.states = P.states /\ ToSet(Q.insts) = ToSet(P.insts) \cup ToSet(own)
  BY <1>15 DEF IsWithLocals
<1>19. PICK J : J = Instead(P, C, inst)
  OBVIOUS
<1>20. CodeFits(program, Q, J) /\ SameSignature(P, Q)
  <2>1. IsSSA(Q) /\ HasKinds(Q) /\ UniqueStates(Q) /\ SameSignature(P, Q)
    BY <1>7, <1>8, <1>13, <1>15, <1>16, LocalsSSA
  <2>2. HasNames(Q, J)
    BY <1>7, <1>8, <1>16, <1>17, <1>18, <1>19, <2>1, LocalsHaveNames
  <2>3. IsLinked(program, Q) /\ CallsKnown(Q)
    BY <1>7, <1>8, <1>13, <1>14, <1>15, <1>16, <1>17, LocalsLinked
  <2> QED BY <2>1, <2>2, <2>3 DEF CodeFits
<1>21. FreshIn(Q, C, inst, Len(calls) > 1, 1, J)
  BY <1>7, <1>8, <1>13, <1>14, <1>15, <1>16, <1>17, <1>19, LocalsFresh
<1>22. KeepsRank(program, q, Q)
  BY <1>7, <1>14, <1>15, LocalsRank
<1>23. /\ job \in JobType(DOMAIN source) /\ calls \in Seq(Name) /\ splits \in Seq(SplitType)
       /\ Len(calls) \in Nat /\ DOMAIN calls = 1..Len(calls)
       /\ Len(splits) \in Nat /\ DOMAIN splits = 1..Len(splits)
       /\ job' \in JobType(DOMAIN source)
       /\ job'.parser = q /\ job'.inst = inst /\ job'.calls = calls /\ job'.splits = splits
       /\ job'.at = 1
  <2>1. job \in JobType(DOMAIN source)
    BY <1>2 DEF InvType
  <2>2. calls \in Seq(Name) /\ splits \in Seq(SplitType)
    BY <1>1, <2>1 DEF JobType
  <2>3. job' \in JobType(DOMAIN source) /\ job'.parser = q /\ job'.inst = inst
        /\ job'.calls = calls /\ job'.splits = splits /\ job'.at = 1
    BY <1>1, <1>5, <2>1 DEF JobType
  <2> QED BY <2>1, <2>2, <2>3, SeqFacts
<1>24. /\ DOMAIN program' = DOMAIN program /\ program'[q] = Q
       /\ program'[x.callee] = C
  BY <1>2, <1>7, <1>12 DEF InvType
<1>25. Caller' = Q /\ Inst' = x /\ Callee' = C
  <2>1. Caller' = Q
    BY <1>23, <1>24 DEF Caller
  <2>2. Inst' = InstOf(Q, inst)
    BY <1>23, <2>1 DEF Inst, InstOf
  <2>3. UniqueInsts(Q) /\ x \in ToSet(Q.insts)
    BY <1>7, <1>17, <1>18 DEF NamesWith
  <2>4. Inst' = x
    BY <1>7, <2>2, <2>3, InstOfFacts
  <2> QED BY <1>24, <2>1, <2>4 DEF Callee
<1>26. Lasting(q)' = J
  <2>1. Lasting(q)' = InstanceNames(Q) \ {inst}
    BY <1>5, <1>23, <1>24 DEF Lasting, Expanding
  <2>2. inst \notin Renamed(C, inst)
    BY <1>8, <1>17 DEF NamesWith, Renamed
  <2> QED BY <1>17, <1>19, <2>1, <2>2 DEF NamesWith, Instead
<1>27. InvCode' /\ program' \in [DOMAIN source -> ParserType]
  <2>1. \A p \in DOMAIN program : p # q => Lasting(p)' = Lasting(p)
    BY <1>1, <1>2, <1>12, <1>23, LastingOthers
  <2>2. SameSignature(program[q], Q) /\ CodeFits(program, Q, Lasting(q)')
    BY <1>7, <1>20, <1>26
  <2> QED BY <1>2, <1>7, <1>12, <1>18, <1>22, <2>1, <2>2, ParserStep
<1>28. InvType'
  <2>1. Len(job'.splits) <= Len(job'.calls) /\ job'.at \in 0..Len(job'.calls) + 1
    BY <1>5, <1>23
  <2> QED BY <1>2, <1>5, <1>23, <1>27, <2>1 DEF InvType
<1>29. CallsStay(P, Q) /\ CallsStay(Q, P)
  BY <1>18 DEF CallsStay
<1>30. InvJob'
  <2>1. Pending' = DOMAIN calls /\ Pending = DOMAIN calls
    BY <1>1, <1>5, <1>23 DEF Pending
  <2>2. JobFits(program, P, inst, calls, DOMAIN calls)
    BY <1>1, <1>2, <1>6, <2>1 DEF InvJob
  <2>3. JobFits(program', Q, inst, calls, DOMAIN calls)
    BY <1>18, <1>24, <1>29, <2>2, JobStays
  <2>4. job'.at \in 1..Len(job'.calls) + 1 /\ Len(job'.splits) = Len(job'.calls)
    BY <1>5, <1>23
  <2> QED BY <1>7, <1>23, <1>24, <1>25, <2>1, <2>3, <2>4 DEF InvJob
<1>31. InvSplits'
  <2>1. Waiting' = DOMAIN splits /\ Bare' = DOMAIN splits /\ Waiting = DOMAIN splits /\ Bare = DOMAIN splits
    BY <1>1, <1>5, <1>23 DEF Waiting, Bare
  <2>2. SplitNames(P, inst, splits) /\ SplitStates(P, splits, DOMAIN splits, DOMAIN splits)
    BY <1>1, <1>2, <1>6, <2>1 DEF InvSplits
  <2>3. SplitNames(Q, inst, splits) /\ SplitStates(Q, splits, DOMAIN splits, DOMAIN splits)
    BY <1>17, <1>18, <2>2 DEF SplitNames, SplitStates, NamesWith
  <2>4. CopiesCallOthers(Q, inst)
    <3>1. \A s \in DOMAIN P.states : ~Begins(P.states[s].name, inst)
      BY <1>8, <1>16 DEF HasNames, Apart, StateNames
    <3> QED BY <1>18, <3>1 DEF CopiesCallOthers
  <2> QED BY <1>23, <1>25, <2>1, <2>3, <2>4 DEF InvSplits
<1>32. InvFresh'
  BY <1>21, <1>23, <1>25, <1>26 DEF InvFresh
<1>33. InvRound'
  BY <1>5 DEF InvRound
<1>34. InvShallow'
  <2> SUFFICES ASSUME NEW l \in DOMAIN calls, NEW s \in DOMAIN P.states, NEW c \in Calls(P.states[s]),
                      c.inst = inst, c.res = calls[l]
               PROVE  ~c.deep
    BY <1>18, <1>23, <1>25 DEF InvShallow
  <2>1. l \in DOMAIN job.splits /\ l \in DOMAIN job.calls
    BY <1>1, <1>5, <1>23
  <2> QED BY <1>1, <1>2, <2>1 DEF InvShallow
<1>35. CallsKept
  BY <1>2, <1>7, <1>12, <1>29, OneKept
<1> QED BY <1>35, <1>27, <1>28, <1>30, <1>31, <1>32, <1>33, <1>34 DEF Inv

-----------------------------------------------------------------------------
(* The parser with the copies of the states *)

\* To replace the element before the insertion does not matter to it.
LEMMA InsertedAround ==
  ASSUME NEW s, NEW t, NEW r, NEW i, IsInserted(r, s, t, i), Len(s) \in Nat, DOMAIN s = 1..Len(s),
         Len(t) \in Nat, DOMAIN t = 1..Len(t), i \in 1..Len(s), NEW x,
         NEW s2, s2 = [s EXCEPT ![i] = x], Len(s2) = Len(s), NEW r2, r2 = [r EXCEPT ![i] = x]
  PROVE  IsInserted(r2, s2, t, i)
<1>1. i \in 1..i /\ i \in Int
  OBVIOUS
<1>2. i \in DOMAIN r /\ DOMAIN r2 = DOMAIN r /\ DOMAIN s2 = DOMAIN s
  BY <1>1 DEF IsInserted
<1>3. r2[i] = x /\ s2[i] = x
  BY <1>2
<1>4. \A m \in DOMAIN r : m # i => r2[m] = r[m]
  BY <1>2
<1>5. \A m \in DOMAIN s : m # i => s2[m] = s[m]
  BY <1>2
<1>6. \A n \in 1..i : n \in DOMAIN r2 /\ r2[n] = s2[n]
  <2> TAKE n \in 1..i
  <2>1. n \in DOMAIN r /\ r[n] = s[n] /\ n \in DOMAIN s
    BY DEF IsInserted
  <2> QED BY <1>2, <1>3, <1>4, <1>5, <2>1
<1>7. \A n \in DOMAIN t : i + n \in DOMAIN r2 /\ r2[i + n] = t[n]
  <2> TAKE n \in DOMAIN t
  <2>1. i + n # i
    OBVIOUS
  <2>2. i + n \in DOMAIN r /\ r[i + n] = t[n]
    BY DEF IsInserted
  <2> QED BY <1>2, <1>4, <2>1, <2>2
<1>8. \A n \in i + 1..Len(s) : n + Len(t) \in DOMAIN r2 /\ r2[n + Len(t)] = s2[n]
  <2> TAKE n \in i + 1..Len(s)
  <2>1. n + Len(t) # i /\ n # i /\ n \in DOMAIN s
    OBVIOUS
  <2>2. n + Len(t) \in DOMAIN r /\ r[n + Len(t)] = s[n]
    BY DEF IsInserted
  <2> QED BY <1>2, <1>4, <1>5, <2>1, <2>2
<1>9. \A m \in DOMAIN r2 :
       \/ m \in 1..i
       \/ \E n \in DOMAIN t : m = i + n
       \/ \E n \in i + 1..Len(s2) : m = n + Len(t)
  BY <1>2 DEF IsInserted
<1>10. \A n \in i + 1..Len(s2) : n + Len(t) \in DOMAIN r2 /\ r2[n + Len(t)] = s2[n]
  BY <1>8
<1> HIDE DEF IsInserted
<1> QED BY <1>6, <1>7, <1>9, <1>10 DEF IsInserted

\* The unfinished state B of P enters the new states.
IsEntered(P, Q, B, e, new) ==
  /\ Q \in ParserType /\ Q.params = P.params /\ Q.top = P.top /\ Q.insts = P.insts
  /\ Q.start = P.start
  /\ IsMixed(Q.states, [P.states EXCEPT ![B] = e], new)

\* What CloneStates does to the parser.
LEMMA Entered ==
  ASSUME NEW P \in ParserType, UniqueStates(P), NEW B \in DOMAIN P.states,
         NEW e \in StateType, NEW new \in Seq(StateType), NEW Q,
         Q = [InsertStates(P, P.states[B].name, new) EXCEPT !.states[B] = e]
  PROVE  IsEntered(P, Q, B, e, new)
<1>1. PICK R : R = InsertStates(P, P.states[B].name, new)
  OBVIOUS
<1>2. /\ R \in ParserType /\ R.params = P.params /\ R.top = P.top /\ R.insts = P.insts
      /\ R.start = P.start /\ IsInserted(R.states, P.states, new, B)
  BY <1>1, InsertStatesFacts
<1>3. PICK s2, r2 : s2 = [P.states EXCEPT ![B] = e] /\ r2 = [R.states EXCEPT ![B] = e]
  OBVIOUS
<1>4. /\ P.states \in Seq(StateType) /\ R.states \in Seq(StateType)
      /\ Len(P.states) \in Nat /\ DOMAIN P.states = 1..Len(P.states)
      /\ Len(R.states) \in Nat /\ DOMAIN R.states = 1..Len(R.states)
      /\ Len(new) \in Nat /\ DOMAIN new = 1..Len(new)
  BY <1>2, ParserFacts, SeqFacts
<1>5. s2 \in Seq(StateType) /\ Len(s2) = Len(P.states) /\ DOMAIN s2 = 1..Len(s2)
      /\ r2 \in Seq(StateType)
  <2>1. \A n \in DOMAIN P.states : P.states[n] \in StateType
    BY <1>4, SeqFacts
  <2>2. \A n \in DOMAIN R.states : R.states[n] \in StateType
    BY <1>4, SeqFacts
  <2>3. s2 \in [1..Len(P.states) -> StateType]
    BY <1>3, <1>4, <2>1
  <2>4. r2 \in [1..Len(R.states) -> StateType]
    BY <1>3, <1>4, <2>2
  <2> QED BY <1>4, <2>3, <2>4, AsSeq
<1>6. Q = [R EXCEPT !.states = r2]
  BY <1>1, <1>2, <1>3
<1>7. /\ Q \in ParserType /\ Q.params = P.params /\ Q.top = P.top /\ Q.insts = P.insts
      /\ Q.start = P.start /\ Q.states = r2
  BY <1>2, <1>5, <1>6 DEF ParserType
<1>8. IsInserted(r2, s2, new, B)
  BY <1>2, <1>3, <1>4, <1>5, InsertedAround
<1>9. B \in 0..Len(s2)
  BY <1>4, <1>5
<1>10. IsMixed(r2, s2, new)
  BY <1>4, <1>5, <1>8, <1>9, InsertedMixed
<1> QED BY <1>3, <1>7, <1>10 DEF IsEntered

\* The copies of all states.
AreStateCopies(C, inst, many, k, args, post, new) ==
  /\ new \in Seq(StateType) /\ DOMAIN new = DOMAIN C.states
  /\ \A n \in DOMAIN new : IsStateCopy(C, inst, many, k, args, C.states[n], post, new[n])

\* StateCopy makes them.
LEMMA StatesCopied ==
  ASSUME NEW M, NEW P, NEW C, NEW inst, NEW many, NEW k, NEW args, NEW J,
         Cloning(M, P, C, inst, many, k, args, J), NEW post \in Name, NEW new,
         new = [n \in DOMAIN C.states |-> StateCopy(C, inst, many, k, args, C.states[n], post)]
  PROVE  AreStateCopies(C, inst, many, k, args, post, new)
<1>1. /\ C.states \in Seq(StateType) /\ Len(C.states) \in Nat /\ DOMAIN C.states = 1..Len(C.states)
      /\ \A n \in DOMAIN C.states : C.states[n] \in StateType
  BY ParserFacts, SeqFacts DEF Cloning
<1>2. /\ C \in ParserType /\ inst \in Name /\ k \in Nat /\ args \in Seq(Name)
      /\ Len(args) = Len(C.params) /\ ToSet(C.params) \cap Results(SharedIn(C)) = {}
  BY CloningFacts DEF Cloning
<1>3. \A n \in DOMAIN C.states : IsStateCopy(C, inst, many, k, args, C.states[n], post, new[n])
  <2> TAKE n \in DOMAIN C.states
  <2>1. new[n] = StateCopy(C, inst, many, k, args, C.states[n], post) /\ C.states[n] \in StateType
    BY <1>1
  <2> QED BY <1>2, <2>1, StateCopied
<1>4. new \in [1..Len(C.states) -> StateType]
  BY <1>1, <1>3 DEF IsStateCopy
<1> QED BY <1>1, <1>3, <1>4, AsSeq DEF AreStateCopies

\* The copied states are apart.
LEMMA CopiesAreApart ==
  ASSUME NEW M, NEW P, NEW C, NEW inst, NEW many, NEW k, NEW args, NEW J,
         Cloning(M, P, C, inst, many, k, args, J), NEW post, NEW new,
         AreStateCopies(C, inst, many, k, args, post, new)
  PROVE  ApartStates(new)
<1>1. /\ C \in ParserType /\ IsSSA(C) /\ HasKinds(C) /\ UniqueStates(C) /\ DOMAIN new = DOMAIN C.states
      /\ inst \in Name /\ k \in Nat \ {0}
  BY CloningFacts DEF Cloning, CodeFits, HasNames, AreStateCopies
<1>2. \A n \in DOMAIN new : /\ new[n].name = CopyName(inst, many, k, C.states[n].name)
                            /\ AreOpCopies(C, inst, k, args, C.states[n].ops, new[n].ops)
                            /\ C.states[n] \in ToSet(C.states)
                            /\ C.states[n].name \in StateNames(C)
  BY <1>1 DEF AreStateCopies, IsStateCopy, ToSet, StateNames
<1>3. \A n \in DOMAIN new : IsOwnCode(C, C.states[n].ops)
  BY <1>1, <1>2, StatesAreOwn
<1>4. \A n \in DOMAIN new : AreCopied(inst, k, C.states[n].ops, new[n].ops)
  BY <1>2, <1>3, CodeCopied
<1> SUFFICES ASSUME NEW a \in DOMAIN new, NEW b \in DOMAIN new,
                    new[a].name = new[b].name \/ Results(new[a].ops) \cap Results(new[b].ops) # {}
             PROVE  a = b
  BY DEF ApartStates
<1>5. CASE new[a].name = new[b].name
  <2>1. C.states[a].name = C.states[b].name
    BY <1>2, <1>5, NewNames
  <2> QED BY <1>1, <2>1 DEF UniqueStates
<1>6. CASE Results(new[a].ops) \cap Results(new[b].ops) # {}
  <2>1. PICK v : v \in Results(new[a].ops) /\ v \in Results(new[b].ops)
    BY <1>6
  <2>2. PICK w \in Results(C.states[a].ops) : v = CopyPrefix(inst, k) \o w
    BY <1>4, <2>1 DEF AreCopied
  <2>3. PICK y \in Results(C.states[b].ops) : v = CopyPrefix(inst, k) \o y
    BY <1>4, <2>1 DEF AreCopied
  <2>4. w \in ValuesOf(C) /\ y \in ValuesOf(C)
    BY <1>3, <2>2, <2>3 DEF IsOwnCode, Own
  <2>5. CopiesApart(inst, k, w, k, y)
    BY <1>1, <2>4, CloningFacts, CopiesDiffer
  <2>6. w = y
    BY <2>2, <2>3, <2>5 DEF CopiesApart
  <2> QED BY <1>1, <2>2, <2>3, <2>6 DEF IsSSA
<1> QED BY <1>5, <1>6

\* The states of Q: those of P but for B, the state that enters the copy, and copies.
EnteredStates(M, P, Q, C, inst, many, k, J, B) ==
  \A m \in DOMAIN Q.states :
    \/ \E a \in DOMAIN P.states : a # B /\ Q.states[m] = P.states[a]
    \/ /\ StateFits(M, P, J, Q.states[m])
       /\ \A v \in Results(Q.states[m].ops) :
            IsNew(P, J, inst, v) /\ \E w \in ValuesOf(C) : v = CopyPrefix(inst, k) \o w
       /\ \/ Q.states[m].name = P.states[B].name /\ Calls(Q.states[m]) = {}
          \/ /\ \E s \in StateNames(C) : Q.states[m].name = CopyName(inst, many, k, s)
             /\ IsNew(P, J, inst, Q.states[m].name) /\ Q.states[m].name \notin StateNames(P)
             /\ \A c \in Calls(Q.states[m]) : c.inst # inst

\* The calls in Q, and where its code is known from.
IsCopiedInto(M, P, Q, C, inst, many, k, J, B) ==
  /\ Q \in ParserType /\ Q.params = P.params /\ Q.top = P.top /\ Q.insts = P.insts
  /\ Q.start = P.start
  /\ CodeFits(M, Q, J)
  /\ EnteredStates(M, P, Q, C, inst, many, k, J, B)
  /\ StateNames(P) \subseteq StateNames(Q)
  /\ CallsStay(P, Q)

\* CloneStates keeps the code well formed.
LEMMA EnteredFits ==
  ASSUME NEW M, NEW P, NEW C, NEW inst, NEW many, NEW k, NEW args, NEW J,
         Cloning(M, P, C, inst, many, k, args, J),
         NEW B \in DOMAIN P.states, Calls(P.states[B]) = {},
         NEW post, NEW new, AreStateCopies(C, inst, many, k, args, post, new),
         NEW e \in StateType, e.name = P.states[B].name,
         AreOpCopies(C, inst, k, args, InitsIn(C), e.ops),
         NEW Q, IsEntered(P, Q, B, e, new)
  PROVE  IsCopiedInto(M, P, Q, C, inst, many, k, J, B)
<1>1. /\ P \in ParserType /\ C \in ParserType /\ CodeFits(M, P, J) /\ IsSSA(C) /\ HasKinds(C)
      /\ UniqueStates(P) /\ IsSSA(P)
      /\ inst \in Name /\ k \in Nat \ {0}
  BY CloningFacts DEF Cloning, CodeFits, HasNames
<1>2. PICK s2 : s2 = [P.states EXCEPT ![B] = e]
  OBVIOUS
<1>3. /\ Q \in ParserType /\ Q.params = P.params /\ Q.top = P.top /\ Q.insts = P.insts
      /\ Q.start = P.start /\ IsMixed(Q.states, s2, new)
  BY <1>2 DEF IsEntered
<1>4. /\ DOMAIN s2 = DOMAIN P.states /\ s2[B] = e
      /\ \A a \in DOMAIN P.states : a # B => s2[a] = P.states[a]
      /\ \A a \in DOMAIN P.states : s2[a].name = P.states[a].name
  BY <1>2
<1>5. P.states[B].name \in StateNames(P)
  BY DEF StateNames
<1>6. /\ StateFits(M, P, J, e) /\ Calls(e) = {} /\ AreCopied(inst, k, InitsIn(C), e.ops)
      /\ \A v \in Results(e.ops) : v \notin ValuesOf(P) /\ IsNew(P, J, inst, v)
  BY <1>5, EnterFits
<1>7. IsOwnCode(C, InitsIn(C))
      /\ \A i \in DOMAIN C.states : Results(InitsIn(C)) \cap Results(C.states[i].ops) = {}
  BY <1>1, InitsAreOwn
<1>8. ASSUME NEW n \in DOMAIN new
      PROVE  /\ StateFits(M, P, J, new[n]) /\ n \in DOMAIN C.states
             /\ new[n].name \notin StateNames(P) /\ IsNew(P, J, inst, new[n].name)
             /\ new[n].name = CopyName(inst, many, k, C.states[n].name)
             /\ C.states[n].name \in StateNames(C)
             /\ \A v \in Results(new[n].ops) : v \notin ValuesOf(P) /\ IsNew(P, J, inst, v)
             /\ AreCopied(inst, k, C.states[n].ops, new[n].ops)
             /\ IsOwnCode(C, C.states[n].ops)
             /\ \A c \in Calls(new[n]) : c.inst # inst
  <2>1. n \in DOMAIN C.states /\ IsStateCopy(C, inst, many, k, args, C.states[n], post, new[n])
    BY DEF AreStateCopies
  <2>2. C.states[n] \in ToSet(C.states) /\ C.states[n].name \in StateNames(C)
    BY <2>1 DEF ToSet, StateNames
  <2>3. /\ StateFits(M, P, J, new[n])
        /\ new[n].name \notin StateNames(P) /\ IsNew(P, J, inst, new[n].name)
        /\ \A v \in Results(new[n].ops) : v \notin ValuesOf(P) /\ IsNew(P, J, inst, v)
    BY <2>1, <2>2, CopyFits
  <2>4. IsOwnCode(C, C.states[n].ops)
    BY <1>1, <2>2, StatesAreOwn
  <2>5. new[n].name = CopyName(inst, many, k, C.states[n].name)
        /\ AreOpCopies(C, inst, k, args, C.states[n].ops, new[n].ops)
    BY <2>1 DEF IsStateCopy
  <2>6. AreCopied(inst, k, C.states[n].ops, new[n].ops)
    BY <2>4, <2>5, CodeCopied
  <2>7. \A c \in Calls(new[n]) : c.inst # inst
    BY <2>2, <2>5, CallsCopied
  <2> QED BY <2>1, <2>2, <2>3, <2>4, <2>5, <2>6, <2>7
<1>9. ApartStates(s2)
  <2>1. ApartStates(P.states)
    BY <1>1, SSAFacts
  <2>2. \A a \in DOMAIN P.states : a # B => Results(s2[a].ops) \cap Results(e.ops) = {}
    <3> TAKE a \in DOMAIN P.states
    <3> HAVE a # B
    <3>1. s2[a] = P.states[a] /\ Results(P.states[a].ops) \subseteq ValuesOf(P)
      BY <1>1, <1>4, ValuesFacts
    <3> QED BY <1>6, <3>1
  <2> SUFFICES ASSUME NEW a \in DOMAIN P.states, NEW b \in DOMAIN P.states, a # b
               PROVE  s2[a].name # s2[b].name /\ Results(s2[a].ops) \cap Results(s2[b].ops) = {}
    BY <1>4 DEF ApartStates
  <2>3. s2[a].name # s2[b].name
    BY <1>4, <2>1 DEF ApartStates
  <2>4. Results(s2[a].ops) \cap Results(s2[b].ops) = {}
    <3>1. CASE a = B
      BY <1>4, <2>2, <3>1
    <3>2. CASE b = B
      BY <1>4, <2>2, <3>2
    <3>3. CASE a # B /\ b # B
      BY <1>4, <2>1, <3>3 DEF ApartStates
    <3> QED BY <3>1, <3>2, <3>3
  <2> QED BY <2>3, <2>4
<1>10. ApartStates(new)
  BY CopiesAreApart
<1>11. Disjoint(s2, new)
  <2> SUFFICES ASSUME NEW a \in DOMAIN P.states, NEW n \in DOMAIN new
               PROVE  s2[a].name # new[n].name /\ Results(s2[a].ops) \cap Results(new[n].ops) = {}
    BY <1>4 DEF Disjoint
  <2>1. s2[a].name # new[n].name
    BY <1>4, <1>8 DEF StateNames
  <2>2. CASE a # B
    <3>1. s2[a] = P.states[a] /\ Results(P.states[a].ops) \subseteq ValuesOf(P)
      BY <1>1, <1>4, <2>2, ValuesFacts
    <3> QED BY <1>8, <2>1, <3>1
  <2>3. CASE a = B
    <3> SUFFICES ASSUME NEW v, v \in Results(e.ops), v \in Results(new[n].ops) PROVE FALSE
      BY <1>4, <2>1, <2>3
    <3>1. PICK w \in Results(InitsIn(C)) : v = CopyPrefix(inst, k) \o w
      BY <1>6 DEF AreCopied
    <3>2. PICK y \in Results(C.states[n].ops) : v = CopyPrefix(inst, k) \o y
      BY <1>8 DEF AreCopied
    <3>3. w \in ValuesOf(C) /\ y \in ValuesOf(C)
      BY <1>7, <1>8, <3>1, <3>2 DEF IsOwnCode, Own
    <3>4. CopiesApart(inst, k, w, k, y)
      BY <1>1, <3>3, CloningFacts, CopiesDiffer
    <3>5. w = y
      BY <3>1, <3>2, <3>4 DEF CopiesApart
    <3> QED BY <1>7, <1>8, <3>1, <3>2, <3>5
  <2> QED BY <2>2, <2>3
<1>12. ApartStates(Q.states)
  BY <1>3, <1>9, <1>10, <1>11, MixedApart
<1>13. EnteredStates(M, P, Q, C, inst, many, k, J, B)
  <2> SUFFICES ASSUME NEW m \in DOMAIN Q.states
               PROVE  \/ \E a \in DOMAIN P.states : a # B /\ Q.states[m] = P.states[a]
                      \/ /\ StateFits(M, P, J, Q.states[m])
                         /\ \A v \in Results(Q.states[m].ops) :
                              IsNew(P, J, inst, v) /\ \E w \in ValuesOf(C) : v = CopyPrefix(inst, k) \o w
                         /\ \/ Q.states[m].name = P.states[B].name /\ Calls(Q.states[m]) = {}
                            \/ /\ \E s \in StateNames(C) : Q.states[m].name = CopyName(inst, many, k, s)
                               /\ IsNew(P, J, inst, Q.states[m].name) /\ Q.states[m].name \notin StateNames(P)
                               /\ \A c \in Calls(Q.states[m]) : c.inst # inst
    BY DEF EnteredStates
  <2>1. CASE \E a \in DOMAIN s2 : Q.states[m] = s2[a]
    <3>1. PICK a \in DOMAIN P.states : Q.states[m] = s2[a]
      BY <1>4, <2>1
    <3>2. CASE a # B
      BY <1>4, <3>1, <3>2
    <3>3. CASE a = B
      <4>1. Q.states[m] = e
        BY <1>4, <3>1, <3>3
      <4>2. \A v \in Results(e.ops) : \E w \in ValuesOf(C) : v = CopyPrefix(inst, k) \o w
        BY <1>6, <1>7 DEF AreCopied, IsOwnCode, Own
      <4> QED BY <1>6, <4>1, <4>2
    <3> QED BY <3>2, <3>3
  <2>2. CASE \E n \in DOMAIN new : Q.states[m] = new[n]
    <3>1. PICK n \in DOMAIN new : Q.states[m] = new[n]
      BY <2>2
    <3>2. \A v \in Results(new[n].ops) : \E w \in ValuesOf(C) : v = CopyPrefix(inst, k) \o w
      BY <1>8 DEF AreCopied, IsOwnCode, Own
    <3> QED BY <1>8, <3>1, <3>2
  <2> QED BY <1>3, <2>1, <2>2 DEF IsMixed
<1>14. CodeFits(M, Q, J)
  <2>1. \A m \in DOMAIN Q.states : \/ \E a \in DOMAIN P.states : Q.states[m] = P.states[a]
                                   \/ StateFits(M, P, J, Q.states[m])
    BY <1>13 DEF EnteredStates
  <2> QED BY <1>1, <1>3, <1>12, <2>1, StatesFit
<1>15. \A a \in DOMAIN P.states : \E m \in DOMAIN Q.states : Q.states[m] = s2[a]
  BY <1>3, <1>4 DEF IsMixed
<1>16. StateNames(P) \subseteq StateNames(Q)
  BY <1>4, <1>15 DEF StateNames
<1>17. CallsStay(P, Q)
  BY <1>4, <1>15 DEF CallsStay
<1> QED BY <1>3, <1>13, <1>14, <1>16, <1>17 DEF IsCopiedInto

\* After CloneStates the names for the next call are free.
LEMMA EnteredFresh ==
  ASSUME NEW M, NEW P, NEW C, NEW inst, NEW many, NEW k, NEW args, NEW J,
         Cloning(M, P, C, inst, many, k, args, J), NEW B \in DOMAIN P.states,
         NEW Q, IsCopiedInto(M, P, Q, C, inst, many, k, J, B)
  PROVE  FreshIn(Q, C, inst, many, k + 1, J)
<1>1. /\ P \in ParserType /\ Q \in ParserType /\ Q.params = P.params /\ Q.top = P.top /\ Q.insts = P.insts
      /\ EnteredStates(M, P, Q, C, inst, many, k, J, B)
      /\ FreshIn(P, C, inst, many, k, J) /\ k \in Nat \ {0}
  BY DEF IsCopiedInto, Cloning
<1>2. (k + 1) - 1 = k /\ k \in 1..k /\ \A l \in 1..k - 1 : l \in 1..k
  BY <1>1
<1>3. ASSUME NEW n \in StateNames(Q)
      PROVE  /\ ~Begins(inst, n)
             /\ Begins(n, inst) => \E l \in 1..k : \E s \in StateNames(C) : n = CopyName(inst, many, l, s)
  <2>1. PICK m \in DOMAIN Q.states : Q.states[m].name = n
    BY DEF StateNames
  <2>2. CASE n \in StateNames(P)
    BY <1>1, <1>2, <2>2 DEF FreshIn
  <2>3. CASE /\ \E s \in StateNames(C) : Q.states[m].name = CopyName(inst, many, k, s)
             /\ IsNew(P, J, inst, Q.states[m].name)
    BY <1>2, <2>1, <2>3 DEF IsNew
  <2>4. (\E a \in DOMAIN P.states : Q.states[m] = P.states[a]) \/ Q.states[m].name = P.states[B].name =>
           n \in StateNames(P)
    BY <2>1 DEF StateNames
  <2> QED BY <1>1, <2>2, <2>3, <2>4 DEF EnteredStates
<1>4. ASSUME NEW v \in ValuesOf(Q)
      PROVE  /\ ~Begins(inst, v)
             /\ Begins(v, inst) =>
                  \/ \E w \in Results(SharedIn(C)) : v = inst \o w
                  \/ \E l \in 1..k : \E w \in ValuesOf(C) : v = CopyPrefix(inst, l) \o w
  <2>1. \/ v \in ValuesOf(P)
        \/ \E m \in DOMAIN Q.states : v \in Results(Q.states[m].ops)
    BY <1>1, ValuesFacts
  <2>2. CASE v \in ValuesOf(P)
    BY <1>1, <1>2, <2>2 DEF FreshIn
  <2>3. CASE \E m \in DOMAIN Q.states : v \in Results(Q.states[m].ops)
    <3>1. PICK m \in DOMAIN Q.states : v \in Results(Q.states[m].ops)
      BY <2>3
    <3>2. CASE \E a \in DOMAIN P.states : Q.states[m] = P.states[a]
      <4>1. v \in ValuesOf(P)
        BY <1>1, <3>1, <3>2, ValuesFacts
      <4> QED BY <2>2, <4>1
    <3>3. CASE IsNew(P, J, inst, v) /\ \E w \in ValuesOf(C) : v = CopyPrefix(inst, k) \o w
      BY <1>2, <3>3 DEF IsNew
    <3> QED BY <1>1, <3>1, <3>2, <3>3 DEF EnteredStates
  <2> QED BY <2>1, <2>2, <2>3
<1>5. \A w \in Results(SharedIn(C)) : inst \o w \in Results(Q.top)
  BY <1>1 DEF FreshIn
<1>6. \A x \in ToSet(C.insts) : \E y \in ToSet(Q.insts) : y.name = inst \o x.name /\ y.callee = x.callee
  BY <1>1 DEF FreshIn
<1>7. \A a \in J : Apart(a, inst) \/ \E b \in InstanceNames(C) : a = inst \o b
  BY <1>1 DEF FreshIn
<1> QED BY <1>2, <1>3, <1>4, <1>5, <1>6, <1>7 DEF FreshIn

\* The states around the calls while states are copied.
LEMMA EnteredSplits ==
  ASSUME NEW M, NEW P, NEW Q, NEW C, NEW inst, NEW many, NEW k \in Nat, NEW J, NEW B \in DOMAIN P.states,
         IsCopiedInto(M, P, Q, C, inst, many, k, J, B),
         NEW splits, k \in DOMAIN splits, P.states[B].name = splits[k].pre,
         SplitNames(P, inst, splits), NEW waiting, NEW bare, SplitStates(P, splits, waiting, bare),
         CopiesCallOthers(P, inst)
  PROVE  /\ SplitNames(Q, inst, splits) /\ SplitStates(Q, splits, waiting, bare \ {k})
         /\ CopiesCallOthers(Q, inst)
<1>1. EnteredStates(M, P, Q, C, inst, many, k, J, B) /\ StateNames(P) \subseteq StateNames(Q)
  BY DEF IsCopiedInto
<1>2. SplitNames(Q, inst, splits)
  BY <1>1 DEF SplitNames
<1>3. \A m \in DOMAIN Q.states :
        \/ \E a \in DOMAIN P.states : Q.states[m] = P.states[a]
        \/ Q.states[m].name = splits[k].pre /\ Calls(Q.states[m]) = {}
        \/ Q.states[m].name \notin StateNames(P)
  BY <1>1 DEF EnteredStates
<1>4. \A m \in DOMAIN Q.states :
        \/ \E a \in DOMAIN P.states : Q.states[m] = P.states[a]
        \/ \A c \in Calls(Q.states[m]) : c.inst # inst
  BY <1>1 DEF EnteredStates
<1>5. CopiesCallOthers(Q, inst)
  BY <1>4 DEF CopiesCallOthers
<1>6. SplitStates(Q, splits, waiting, bare \ {k})
  <2> SUFFICES ASSUME NEW l \in DOMAIN splits, NEW m \in DOMAIN Q.states
               PROVE  /\ Q.states[m].name = splits[l].post /\ l \in waiting => IsUnfinished(Q.states[m])
                      /\ Q.states[m].name = splits[l].pre /\ l \in bare \ {k} => IsUnfinished(Q.states[m])
                      /\ Q.states[m].name = splits[l].pre /\ l \in waiting => Calls(Q.states[m]) = {}
    BY DEF SplitStates
  <2>1. splits[l].pre \in StateNames(P) /\ splits[l].post \in StateNames(P)
        /\ splits[l].post # splits[k].pre /\ (splits[l].pre = splits[k].pre => l = k)
    BY DEF SplitNames
  <2>2. CASE \E a \in DOMAIN P.states : Q.states[m] = P.states[a]
    BY <2>2 DEF SplitStates
  <2>3. CASE Q.states[m].name = splits[k].pre /\ Calls(Q.states[m]) = {}
    BY <2>1, <2>3
  <2>4. CASE Q.states[m].name \notin StateNames(P)
    BY <2>1, <2>4
  <2> QED BY <1>3, <2>2, <2>3, <2>4
<1> QED BY <1>2, <1>5, <1>6

\* After CloneStates the job is as it was; the copies do not call the instance.
LEMMA EnteredJob ==
  ASSUME NEW M, NEW P, NEW Q, NEW C, NEW inst, NEW many, NEW k, NEW J, NEW B \in DOMAIN P.states,
         IsCopiedInto(M, P, Q, C, inst, many, k, J, B),
         NEW calls, NEW pending, JobFits(M, P, inst, calls, pending),
         NEW N, DOMAIN N = DOMAIN M
  PROVE  /\ JobFits(N, Q, inst, calls, pending)
         /\ \A m \in DOMAIN Q.states : \A c \in Calls(Q.states[m]) :
              c.inst = inst => \E a \in DOMAIN P.states : c \in Calls(P.states[a])
<1>1. /\ EnteredStates(M, P, Q, C, inst, many, k, J, B) /\ Q.insts = P.insts /\ CallsStay(P, Q)
  BY DEF IsCopiedInto
<1>2. \A m \in DOMAIN Q.states : \A c \in Calls(Q.states[m]) :
        c.inst = inst => \E a \in DOMAIN P.states : c \in Calls(P.states[a])
  BY <1>1 DEF EnteredStates
<1>3. ASSUME NEW l \in pending
      PROVE  \E i \in DOMAIN Q.states : \E c \in Calls(Q.states[i]) : c.inst = inst /\ c.res = calls[l]
  BY <1>1 DEF JobFits, CallsStay
<1>4. ASSUME NEW i \in DOMAIN Q.states, NEW c \in Calls(Q.states[i]), c.inst = inst
      PROVE  \E l \in pending : c.res = calls[l]
  BY <1>2, <1>4 DEF JobFits
<1> QED BY <1>1, <1>2, <1>3, <1>4 DEF JobFits

-----------------------------------------------------------------------------
(* The step that copies the states for a call *)

\* The parts of the step CloneStates.
CloneStep(q, P, C, inst, calls, splits, k, many, args, new, inits, e, B) ==
  program' = [program EXCEPT ![q] =
    [InsertStates(@, splits[k].pre, new) EXCEPT !.states[B] = e]]

\* What the step does, in terms of the copies.
LEMMA CloneStatesIs ==
  ASSUME CloneStates, NEW q, NEW P, NEW C, NEW inst, NEW calls, NEW splits, NEW k, NEW many, NEW args,
         q = job.parser, P = Caller, C = Callee, inst = job.inst, calls = job.calls,
         splits = job.splits, k = job.at, many = (Len(calls) > 1),
         args = SiteOf(P, calls[k]).ops[CallIn(SiteOf(P, calls[k]), calls[k])].args,
         NEW new, new = [n \in DOMAIN C.states |-> StateCopy(C, inst, many, k, args, C.states[n], splits[k].post)],
         NEW inits, inits = [n \in DOMAIN InitsIn(C) |-> OpCopy(C, inst, k, args, InitsIn(C)[n])],
         NEW e, e = ParserState(splits[k].pre, inits, To(CopyName(inst, many, k, C.start))),
         NEW B, B = StateAt(P, splits[k].pre)
  PROVE  CloneStep(q, P, C, inst, calls, splits, k, many, args, new, inits, e, B)
<1>1. SharedOps = SharedIn(C) /\ InitOps = InitsIn(C)
  BY DEF SharedOps, SharedAt, SharedIn, InitOps, InitsIn
<1>2. \A n : StateName(k, n) = CopyName(inst, many, k, n)
  BY DEF StateName, CopyName, CallPrefix, CopyPrefix
<1>3. ASSUME NEW v PROVE ValueIn(k, v) = CopyOf(C, inst, k, args, v)
  <2>1. ValueIn(k, v) =
          CASE v \in ToSet(C.params) -> args[CHOOSE i \in DOMAIN C.params : C.params[i] = v]
            [] v \in Results(SharedIn(C)) -> inst \o v
            [] OTHER -> (inst \o Marks("#", k)) \o v
    BY <1>1, Zenon DEF ValueIn, SharedName, CallPrefix
  <2> QED BY <2>1, Zenon DEF CopyOf, CopyPrefix
<1>4. ASSUME NEW o PROVE CloneOp(k, o) = OpCopy(C, inst, k, args, o)
  BY <1>3 DEF CloneOp, OpCopy, SharedName
<1>5. ASSUME NEW next, NEW post PROVE CloneNext(k, next, post) = NextCopy(C, inst, many, k, args, next, post)
  BY <1>2, <1>3 DEF CloneNext, NextCopy
<1>6. ASSUME NEW s, NEW post PROVE CloneState(k, s, post) = StateCopy(C, inst, many, k, args, s, post)
  BY <1>2, <1>4, <1>5 DEF CloneState, StateCopy
<1>7. new = [n \in DOMAIN Callee.states |-> CloneState(k, Callee.states[n], splits[k].post)]
  <2>1. \A n \in DOMAIN C.states :
          StateCopy(C, inst, many, k, args, C.states[n], splits[k].post) = CloneState(k, C.states[n], splits[k].post)
    <3> TAKE n \in DOMAIN C.states
    <3>1. PICK s, post : s = C.states[n] /\ post = splits[k].post
      OBVIOUS
    <3>2. CloneState(k, s, post) = StateCopy(C, inst, many, k, args, s, post)
      BY ONLY <1>6
    <3> QED BY ONLY <3>1, <3>2
  <2>2. new = [n \in DOMAIN C.states |-> CloneState(k, C.states[n], splits[k].post)]
    BY <2>1
  <2> QED BY <2>2
<1>8. inits = [n \in DOMAIN InitOps |-> CloneOp(k, InitOps[n])]
  BY <1>1, <1>4
<1>9. e = ParserState(splits[k].pre, inits, To(StateName(k, Callee.start)))
  BY <1>2
<1> QED BY <1>7, <1>8, <1>9 DEF CloneStates, CloneStep

\* The state around the step CloneStates.
LEMMA CloneStatesFrame ==
  ASSUME Inv, CloneStates, NEW q, NEW P, NEW C, NEW x, NEW inst, NEW calls, NEW splits, NEW k,
         NEW many, NEW J, q = job.parser, P = Caller, C = Callee, x = Inst, inst = job.inst,
         calls = job.calls, splits = job.splits, k = job.at, many = (Len(calls) > 1),
         J = Lasting(job.parser)
  PROVE  /\ phase = "clone" /\ k <= Len(calls) /\ phase' = "clone"
         /\ job' = [job EXCEPT !.at = k + 1] /\ source' = source /\ order' = order
         /\ todo' = todo /\ changed' = changed
         /\ InJob /\ InJob'
         /\ q \in DOMAIN program /\ P \in ParserType /\ P = program[q]
         /\ x \in ToSet(P.insts) /\ x.name = inst /\ x.callee \in DOMAIN program /\ x.callee # q
         /\ C \in ParserType /\ C = program[x.callee] /\ x = InstOf(P, inst)
         /\ CodeFits(program, P, J) /\ CodeFits(program, C, InstanceNames(C))
         /\ inst \in InstanceNames(P) /\ inst \in Name
         /\ job \in JobType(DOMAIN source) /\ calls \in Seq(Name) /\ splits \in Seq(SplitType)
         /\ Len(calls) \in Nat /\ DOMAIN calls = 1..Len(calls)
         /\ Len(splits) = Len(calls) /\ DOMAIN splits = DOMAIN calls
         /\ k \in DOMAIN calls /\ k \in Nat \ {0}
         /\ job' \in JobType(DOMAIN source)
         /\ job'.parser = q /\ job'.inst = inst /\ job'.calls = calls /\ job'.splits = splits
         /\ job'.at = k + 1
         /\ Pending = DOMAIN calls /\ Pending' = DOMAIN calls
         /\ Waiting = DOMAIN splits /\ Waiting' = DOMAIN splits
         /\ Bare' = Bare \ {k} /\ k \in Bare
<1>1. /\ q = job.parser /\ P = Caller /\ C = Callee /\ x = Inst /\ inst = job.inst
      /\ calls = job.calls /\ splits = job.splits /\ k = job.at /\ many = (Len(calls) > 1)
      /\ J = Lasting(job.parser)
  OBVIOUS
<1>2. InvType /\ InvCode /\ InvJob /\ InvSplits /\ InvFresh /\ InvShallow
  BY DEF Inv
<1>3. /\ phase = "clone" /\ k <= Len(calls) /\ phase' = "clone"
      /\ job' = [job EXCEPT !.at = k + 1] /\ source' = source /\ order' = order
      /\ todo' = todo /\ changed' = changed
  BY <1>1 DEF CloneStates
<1>4. InJob /\ InJob' /\ phase # "split" /\ phase' # "split"
  BY <1>3 DEF InJob
<1>5. /\ q \in DOMAIN program /\ P \in ParserType /\ P = program[q]
      /\ x \in ToSet(P.insts) /\ x.name = inst /\ x.callee \in DOMAIN program /\ x.callee # q
      /\ C \in ParserType /\ C = program[x.callee] /\ x = InstOf(P, inst)
      /\ CodeFits(program, P, J) /\ CodeFits(program, C, InstanceNames(C))
  BY <1>1, <1>2, <1>4, JobFacts DEF Caller
<1>6. inst \in InstanceNames(P) /\ inst \in Name
  <2>1. inst \in InstanceNames(P)
    BY <1>5, InstanceNamesFacts
  <2>2. InstanceNames(P) \subseteq Name
    BY <1>5, ParserFacts DEF InstanceNames
  <2> QED BY <2>1, <2>2
<1>7. /\ job \in JobType(DOMAIN source) /\ calls \in Seq(Name) /\ splits \in Seq(SplitType)
      /\ Len(calls) \in Nat /\ DOMAIN calls = 1..Len(calls)
      /\ Len(splits) = Len(calls) /\ DOMAIN splits = DOMAIN calls
      /\ k \in DOMAIN calls /\ k \in Nat \ {0}
  <2>1. job \in JobType(DOMAIN source)
    BY <1>2 DEF InvType
  <2>2. calls \in Seq(Name) /\ splits \in Seq(SplitType)
    BY <1>1, <2>1 DEF JobType
  <2>3. Len(splits) = Len(calls) /\ k \in 1..Len(calls) + 1
    BY <1>1, <1>2, <1>4 DEF InvJob
  <2>4. Len(calls) \in Nat /\ DOMAIN calls = 1..Len(calls) /\ DOMAIN splits = 1..Len(splits)
    BY <2>2, SeqFacts
  <2> QED BY <1>3, <2>1, <2>2, <2>3, <2>4
<1>8. /\ job' \in JobType(DOMAIN source)
      /\ job'.parser = q /\ job'.inst = inst /\ job'.calls = calls /\ job'.splits = splits
      /\ job'.at = k + 1
  <2>1. k + 1 \in Nat
    BY <1>7
  <2>2. /\ job'.parser = q /\ job'.inst = inst /\ job'.calls = calls /\ job'.splits = splits
        /\ job'.at = k + 1
    BY <1>1, <1>3, <1>7 DEF JobType
  <2>3. job' \in JobType(DOMAIN source)
    BY <1>1, <1>3, <1>7, <2>1 DEF JobType
  <2> QED BY <2>2, <2>3
<1>9. /\ Pending = DOMAIN calls /\ Pending' = DOMAIN calls
      /\ Waiting = DOMAIN splits /\ Waiting' = DOMAIN splits
      /\ Bare' = Bare \ {k} /\ k \in Bare
  <2>1. /\ Pending = DOMAIN calls /\ Pending' = DOMAIN calls
        /\ Waiting = DOMAIN splits /\ Waiting' = DOMAIN splits
    BY <1>1, <1>3, <1>8 DEF Pending, Waiting
  <2>2. Bare = {l \in DOMAIN splits : l >= k} /\ Bare' = {l \in DOMAIN splits : l >= k + 1}
    BY <1>1, <1>3, <1>8 DEF Bare
  <2> QED BY <1>7, <2>1, <2>2
<1> QED BY <1>3, <1>4, <1>5, <1>6, <1>7, <1>8, <1>9

\* What the step does for the call of the j-th operation of the i-th state: the state
\* B becomes e, the copies are new.
StatesStep(q, P, C, inst, calls, splits, k, many, J, i, j, args, B, new, e, Q) ==
  /\ i \in DOMAIN P.states /\ j \in DOMAIN P.states[i].ops
  /\ IsCallOf(P.states[i].ops[j], inst) /\ P.states[i].ops[j].res = calls[k]
  /\ args = P.states[i].ops[j].args
  /\ Cloning(program, P, C, inst, many, k, args, J)
  /\ splits[k].pre \in Name /\ splits[k].post \in StateNames(P)
  /\ B \in DOMAIN P.states /\ P.states[B].name = splits[k].pre
  /\ SplitNames(P, inst, splits) /\ SplitStates(P, splits, DOMAIN splits, Bare)
  /\ CopiesCallOthers(P, inst)
  /\ AreStateCopies(C, inst, many, k, args, splits[k].post, new)
  /\ AreOpCopies(C, inst, k, args, InitsIn(C), e.ops)
  /\ e \in StateType /\ e.name = splits[k].pre
  /\ e.next = To(CopyName(inst, many, k, C.start))
  /\ IsEntered(P, Q, B, e, new)
  /\ program' = [program EXCEPT ![q] = Q]

\* There are parts for every step CloneStates.
LEMMA CloneStatesHas ==
  ASSUME Inv, CloneStates, NEW q, NEW P, NEW C, NEW x, NEW inst, NEW calls, NEW splits, NEW k,
         NEW many, NEW J, q = job.parser, P = Caller, C = Callee, x = Inst, inst = job.inst,
         calls = job.calls, splits = job.splits, k = job.at, many = (Len(calls) > 1),
         J = Lasting(job.parser)
  PROVE  \E i, j, args, B, new, e, Q :
           StatesStep(q, P, C, inst, calls, splits, k, many, J, i, j, args, B, new, e, Q)
<1>1. /\ q = job.parser /\ P = Caller /\ C = Callee /\ x = Inst /\ inst = job.inst
      /\ calls = job.calls /\ splits = job.splits /\ k = job.at /\ many = (Len(calls) > 1)
      /\ J = Lasting(job.parser)
  OBVIOUS
<1>2. InvType /\ InvCode /\ InvJob /\ InvSplits /\ InvFresh /\ InvShallow
  BY DEF Inv
<1>3. /\ phase = "clone" /\ k <= Len(calls) /\ phase' = "clone"
      /\ job' = [job EXCEPT !.at = k + 1] /\ source' = source /\ order' = order
      /\ todo' = todo /\ changed' = changed
  BY <1>1, CloneStatesFrame
<1>4. InJob /\ InJob' /\ phase # "split" /\ phase' # "split"
  BY <1>1, <1>3, CloneStatesFrame
<1>5. /\ q \in DOMAIN program /\ P \in ParserType /\ P = program[q]
      /\ x \in ToSet(P.insts) /\ x.name = inst /\ x.callee \in DOMAIN program /\ x.callee # q
      /\ C \in ParserType /\ C = program[x.callee] /\ x = InstOf(P, inst)
      /\ CodeFits(program, P, J) /\ CodeFits(program, C, InstanceNames(C))
  BY <1>1, CloneStatesFrame
<1>6. inst \in InstanceNames(P) /\ inst \in Name
  BY <1>1, CloneStatesFrame
<1>7. /\ job \in JobType(DOMAIN source) /\ calls \in Seq(Name) /\ splits \in Seq(SplitType)
      /\ Len(calls) \in Nat /\ DOMAIN calls = 1..Len(calls)
      /\ Len(splits) = Len(calls) /\ DOMAIN splits = DOMAIN calls
      /\ k \in DOMAIN calls /\ k \in Nat \ {0}
  BY <1>1, CloneStatesFrame
<1>8. /\ job' \in JobType(DOMAIN source)
      /\ job'.parser = q /\ job'.inst = inst /\ job'.calls = calls /\ job'.splits = splits
      /\ job'.at = k + 1
  BY <1>1, CloneStatesFrame
<1>9. /\ Pending = DOMAIN calls /\ Pending' = DOMAIN calls
      /\ Waiting = DOMAIN splits /\ Waiting' = DOMAIN splits
      /\ Bare' = Bare \ {k} /\ k \in Bare
  BY <1>1, CloneStatesFrame
<1>10. PICK i \in DOMAIN P.states : \E j \in DOMAIN P.states[i].ops :
              /\ SiteOf(P, calls[k]) = P.states[i]
              /\ CallIn(P.states[i], calls[k]) = j
              /\ IsCallOf(P.states[i].ops[j], inst)
              /\ P.states[i].ops[j].res = calls[k]
  <2>1. k \in Pending
    BY <1>7, <1>9
  <2> QED BY <1>1, <1>2, <1>4, <2>1, CallSite
<1>11. PICK j \in DOMAIN P.states[i].ops :
              /\ SiteOf(P, calls[k]) = P.states[i]
              /\ CallIn(P.states[i], calls[k]) = j
              /\ IsCallOf(P.states[i].ops[j], inst)
              /\ P.states[i].ops[j].res = calls[k]
  BY <1>10
<1>12. PICK args : args = P.states[i].ops[j].args
  OBVIOUS
<1>13. args \in Seq(Name) /\ Len(args) = Len(C.params)
  <2>1. P.states[i].ops[j] \in Operation
    BY <1>5, ParserFacts, SeqFacts
  <2>2. CallOf(P.states[i].ops[j]) \in Calls(P.states[i])
    BY <1>11, CallsFacts DEF IsCallOf
  <2>3. InstFits(program, P, x)
    BY <1>5, LinkedFacts DEF CodeFits
  <2>4. CallOf(P.states[i].ops[j]).inst = x.name /\ CallOf(P.states[i].ops[j]).arity = Len(args)
    BY <1>5, <1>11, <1>12, CallOfFacts DEF IsCallOf
  <2> QED BY <1>5, <1>12, <2>1, <2>2, <2>3, <2>4, OpFacts DEF InstFits
<1>14. J \in SUBSET Name
  BY <1>1, <1>5, ParserFacts DEF InstanceNames, Lasting
<1>15. Cloning(program, P, C, inst, many, k, args, J)
  <2>1. FreshIn(P, C, inst, many, k, J)
    BY <1>1, <1>2, <1>3 DEF InvFresh
  <2>2. many \in BOOLEAN /\ (many \/ k = 1)
    <3>1. CASE Len(calls) > 1
      BY <1>1, <3>1
    <3>2. CASE ~(Len(calls) > 1)
      <4>1. k = 1
        BY <1>7, <3>2
      <4> QED BY <1>1, <3>2, <4>1
    <3> QED BY <3>1, <3>2
  <2> QED BY <1>5, <1>6, <1>7, <1>13, <1>14, <2>1, <2>2 DEF Cloning
<1>16. /\ splits[k].pre \in StateNames(P) /\ splits[k].pre \in Name /\ splits[k].post \in Name
  <2>1. splits[k] \in SplitType
    BY <1>7, SeqFacts
  <2>2. SplitNames(P, inst, splits)
    BY <1>1, <1>2, <1>4 DEF InvSplits
  <2> QED BY <1>7, <2>1, <2>2 DEF SplitNames, SplitType
<1>17. PICK B : B = StateAt(P, splits[k].pre)
  OBVIOUS
<1>18. B \in DOMAIN P.states /\ P.states[B].name = splits[k].pre
  BY <1>5, <1>16, <1>17, StateAtFacts
<1>19. /\ SplitNames(P, inst, splits) /\ SplitStates(P, splits, DOMAIN splits, Bare)
       /\ CopiesCallOthers(P, inst)
  BY <1>1, <1>2, <1>4, <1>9 DEF InvSplits
<1>20. Calls(P.states[B]) = {}
  BY <1>7, <1>18, <1>19 DEF SplitStates
<1>21. PICK new : new = [n \in DOMAIN C.states |->
                           StateCopy(C, inst, many, k, args, C.states[n], splits[k].post)]
  OBVIOUS
<1>22. PICK inits : inits = [n \in DOMAIN InitsIn(C) |-> OpCopy(C, inst, k, args, InitsIn(C)[n])]
  OBVIOUS
<1>23. PICK e : e = ParserState(splits[k].pre, inits, To(CopyName(inst, many, k, C.start)))
  OBVIOUS
<1>24. PICK Q : Q = [InsertStates(P, splits[k].pre, new) EXCEPT !.states[B] = e]
  OBVIOUS
<1>25. program' = [program EXCEPT ![q] = Q]
  <2>1. args = SiteOf(P, calls[k]).ops[CallIn(SiteOf(P, calls[k]), calls[k])].args
    BY <1>11, <1>12
  <2>2. CloneStep(q, P, C, inst, calls, splits, k, many, args, new, inits, e, B)
    BY <1>1, <1>17, <1>21, <1>22, <1>23, <2>1, CloneStatesIs
  <2> QED BY <1>5, <1>24, <2>2 DEF CloneStep
<1>26. AreStateCopies(C, inst, many, k, args, splits[k].post, new)
  BY <1>15, <1>16, <1>21, StatesCopied
<1>27. AreOpCopies(C, inst, k, args, InitsIn(C), inits)
  <2>1. InitsIn(C) \in Seq(Operation)
    BY <1>5, InitsAreOwn DEF CodeFits, IsOwnCode
  <2>2. ToSet(C.params) \cap Results(SharedIn(C)) = {}
    BY <1>15, CloningFacts
  <2> QED BY <1>5, <1>6, <1>7, <1>13, <1>22, <2>1, <2>2, OpsCopied
<1>28. e \in StateType /\ e.name = splits[k].pre /\ e.ops = inits
  <2>1. inits \in Seq(Operation)
    BY <1>27 DEF AreOpCopies
  <2>2. CopyName(inst, many, k, C.start) \in Name
    <3>1. C.start \in Name /\ CopyPrefix(inst, k) \in Name
      BY <1>5, <1>6, <1>7, ParserFacts, CopyPrefixName
    <3> QED BY <1>6, <3>1, NameConcat DEF CopyName
  <2>3. To(CopyName(inst, many, k, C.start)) \in Transition
    BY <2>2, NoValueName DEF To, NextTo, Transition
  <2> QED BY <1>16, <1>23, <2>1, <2>3 DEF ParserState, StateType
<1>29. IsEntered(P, Q, B, e, new)
  <2>1. new \in Seq(StateType) /\ UniqueStates(P)
    BY <1>5, <1>26 DEF AreStateCopies, CodeFits, HasNames
  <2> QED BY <1>5, <1>18, <1>24, <1>28, <2>1, Entered
<1>30. splits[k].post \in StateNames(P) /\ e.next = To(CopyName(inst, many, k, C.start))
  BY <1>7, <1>19, <1>23 DEF SplitNames, ParserState
<1>31. StatesStep(q, P, C, inst, calls, splits, k, many, J, i, j, args, B, new, e, Q)
  BY <1>11, <1>12, <1>15, <1>16, <1>18, <1>19, <1>25, <1>26, <1>27, <1>28, <1>29, <1>30 DEF StatesStep
<1> QED BY <1>31

\* CloneStates preserves the invariant and keeps the calls.
LEMMA CloneStatesInv ==
  ASSUME Inv, CloneStates
  PROVE  Inv' /\ CallsKept
<1>1. PICK q, P, C, x, inst, calls, splits, k, many, J :
        /\ q = job.parser /\ P = Caller /\ C = Callee /\ x = Inst /\ inst = job.inst
        /\ calls = job.calls /\ splits = job.splits /\ k = job.at /\ many = (Len(calls) > 1)
        /\ J = Lasting(job.parser)
  OBVIOUS
<1>2. InvType /\ InvCode /\ InvJob /\ InvSplits /\ InvFresh /\ InvShallow
  BY DEF Inv
<1>3. /\ phase = "clone" /\ k <= Len(calls) /\ phase' = "clone"
      /\ job' = [job EXCEPT !.at = k + 1] /\ source' = source /\ order' = order
      /\ todo' = todo /\ changed' = changed
  BY <1>1, CloneStatesFrame
<1>4. InJob /\ InJob' /\ phase # "split" /\ phase' # "split"
  BY <1>1, <1>3, CloneStatesFrame
<1>5. /\ q \in DOMAIN program /\ P \in ParserType /\ P = program[q]
      /\ x \in ToSet(P.insts) /\ x.name = inst /\ x.callee \in DOMAIN program /\ x.callee # q
      /\ C \in ParserType /\ C = program[x.callee] /\ x = InstOf(P, inst)
      /\ CodeFits(program, P, J) /\ CodeFits(program, C, InstanceNames(C))
  BY <1>1, CloneStatesFrame
<1>6. inst \in InstanceNames(P) /\ inst \in Name
  BY <1>1, CloneStatesFrame
<1>7. /\ job \in JobType(DOMAIN source) /\ calls \in Seq(Name) /\ splits \in Seq(SplitType)
      /\ Len(calls) \in Nat /\ DOMAIN calls = 1..Len(calls)
      /\ Len(splits) = Len(calls) /\ DOMAIN splits = DOMAIN calls
      /\ k \in DOMAIN calls /\ k \in Nat \ {0}
  BY <1>1, CloneStatesFrame
<1>8. /\ job' \in JobType(DOMAIN source)
      /\ job'.parser = q /\ job'.inst = inst /\ job'.calls = calls /\ job'.splits = splits
      /\ job'.at = k + 1
  BY <1>1, CloneStatesFrame
<1>9. /\ Pending = DOMAIN calls /\ Pending' = DOMAIN calls
      /\ Waiting = DOMAIN splits /\ Waiting' = DOMAIN splits
      /\ Bare' = Bare \ {k} /\ k \in Bare
  BY <1>1, CloneStatesFrame
<1>10. PICK i, j, args, B, new, e, Q :
         StatesStep(q, P, C, inst, calls, splits, k, many, J, i, j, args, B, new, e, Q)
  BY <1>1, CloneStatesHas
<1>15. Cloning(program, P, C, inst, many, k, args, J)
  BY <1>10 DEF StatesStep
<1>18. B \in DOMAIN P.states /\ P.states[B].name = splits[k].pre
  BY <1>10 DEF StatesStep
<1>19. /\ SplitNames(P, inst, splits) /\ SplitStates(P, splits, DOMAIN splits, Bare)
       /\ CopiesCallOthers(P, inst)
  BY <1>10 DEF StatesStep
<1>20. Calls(P.states[B]) = {}
  BY <1>7, <1>18, <1>19 DEF SplitStates
<1>25. program' = [program EXCEPT ![q] = Q]
  BY <1>10 DEF StatesStep
<1>26. AreStateCopies(C, inst, many, k, args, splits[k].post, new)
  BY <1>10 DEF StatesStep
<1>27. AreOpCopies(C, inst, k, args, InitsIn(C), e.ops)
  BY <1>10 DEF StatesStep
<1>28. e \in StateType /\ e.name = splits[k].pre
  BY <1>10 DEF StatesStep
<1>29. IsEntered(P, Q, B, e, new)
  BY <1>10 DEF StatesStep
<1>30. IsCopiedInto(program, P, Q, C, inst, many, k, J, B)
  BY <1>15, <1>18, <1>20, <1>26, <1>27, <1>28, <1>29, EnteredFits
<1>31. /\ Q \in ParserType /\ Q.params = P.params /\ Q.top = P.top /\ Q.insts = P.insts
       /\ CodeFits(program, Q, J)
  BY <1>30 DEF IsCopiedInto
<1>32. /\ DOMAIN program' = DOMAIN program /\ program'[q] = Q
       /\ program'[x.callee] = C
  BY <1>2, <1>5, <1>25 DEF InvType
<1>33. Caller' = Q /\ Callee' = C
  <2>1. Caller' = Q
    BY <1>8, <1>32 DEF Caller
  <2>2. Inst' = InstOf(Q, inst)
    BY <1>8, <2>1 DEF Inst, InstOf
  <2>3. InstOf(Q, inst) = InstOf(P, inst)
    BY <1>31 DEF InstOf
  <2> QED BY <1>5, <1>32, <2>1, <2>2, <2>3 DEF Callee
<1>34. Lasting(q)' = J
  <2>1. Lasting(q)' = InstanceNames(Q) \ {inst}
    BY <1>3, <1>8, <1>32 DEF Lasting, Expanding
  <2>2. J = InstanceNames(P) \ {inst}
    BY <1>1, <1>3, <1>5 DEF Lasting, Expanding
  <2> QED BY <1>31, <2>1, <2>2 DEF InstanceNames
<1>35. InvCode' /\ program' \in [DOMAIN source -> ParserType]
  <2>1. \A p \in DOMAIN program : p # q => Lasting(p)' = Lasting(p)
    BY <1>1, <1>2, <1>8, <1>25, LastingOthers
  <2>2. KeepsRank(program, q, Q)
    BY <1>5, <1>31, SameInstsRank
  <2>3. SameSignature(program[q], Q) /\ CodeFits(program, Q, Lasting(q)')
    BY <1>5, <1>31, <1>34 DEF SameSignature
  <2> QED BY <1>2, <1>5, <1>25, <1>31, <2>1, <2>2, <2>3, ParserStep
<1>36. InvType'
  <2>1. Len(job'.splits) <= Len(job'.calls) /\ job'.at \in 0..Len(job'.calls) + 1
    BY <1>7, <1>8
  <2> QED BY <1>2, <1>3, <1>8, <1>35, <2>1 DEF InvType
<1>37. JobFits(program', Q, inst, calls, DOMAIN calls)
       /\ \A m \in DOMAIN Q.states : \A c \in Calls(Q.states[m]) :
            c.inst = inst => \E a \in DOMAIN P.states : c \in Calls(P.states[a])
  <2>1. JobFits(program, P, inst, calls, DOMAIN calls)
    BY <1>1, <1>2, <1>4, <1>9 DEF InvJob
  <2> QED BY <1>18, <1>30, <1>32, <2>1, EnteredJob
<1>38. InvJob'
  <2>1. job'.at \in 1..Len(job'.calls) + 1 /\ Len(job'.splits) = Len(job'.calls)
    BY <1>7, <1>8
  <2> QED BY <1>5, <1>8, <1>9, <1>32, <1>33, <1>37, <2>1 DEF InvJob
<1>39. InvSplits'
  <2>1. /\ SplitNames(Q, inst, splits) /\ SplitStates(Q, splits, DOMAIN splits, Bare \ {k})
        /\ CopiesCallOthers(Q, inst)
    BY <1>7, <1>18, <1>19, <1>30, EnteredSplits
  <2> QED BY <1>8, <1>9, <1>33, <2>1 DEF InvSplits
<1>40. InvFresh'
  <2>1. FreshIn(Q, C, inst, many, k + 1, J)
    BY <1>15, <1>18, <1>30, EnteredFresh
  <2> QED BY <1>1, <1>8, <1>33, <1>34, <2>1 DEF InvFresh
<1>41. InvRound'
  BY <1>3 DEF InvRound
<1>42. InvShallow'
  <2> SUFFICES ASSUME NEW l \in DOMAIN calls, NEW s \in DOMAIN Q.states, NEW c \in Calls(Q.states[s]),
                      c.inst = inst, c.res = calls[l]
               PROVE  ~c.deep
    BY <1>8, <1>33 DEF InvShallow
  <2>1. PICK a \in DOMAIN P.states : c \in Calls(P.states[a])
    BY <1>37
  <2> QED BY <1>1, <1>2, <1>3, <2>1 DEF InvShallow
<1>43. CallsKept
  <2>1. CallsStay(program[q], Q)
    BY <1>5, <1>30 DEF IsCopiedInto
  <2> QED BY <1>2, <1>5, <1>25, <2>1, OneKept
<1> QED BY <1>43, <1>35, <1>36, <1>38, <1>39, <1>40, <1>41, <1>42 DEF Inv

-----------------------------------------------------------------------------
(* The code around a call *)

\* The operations before and after the j-th one.
IsCut(ops, j, head, tail) ==
  /\ head \in Seq(Operation) /\ tail \in Seq(Operation)
  /\ DOMAIN head = 1..j - 1 /\ DOMAIN tail = 1..Len(ops) - j
  /\ \A n \in DOMAIN head : n \in DOMAIN ops /\ n < j /\ head[n] = ops[n]
  /\ \A n \in DOMAIN tail : j + n \in DOMAIN ops /\ tail[n] = ops[j + n]
  /\ \A m \in DOMAIN ops :
       \/ m = j
       \/ m \in DOMAIN head /\ head[m] = ops[m]
       \/ \E n \in DOMAIN tail : m = j + n /\ tail[n] = ops[m]

\* The code of a state before and after an operation.
LEMMA Cut ==
  ASSUME NEW ops \in Seq(Operation), NEW j \in DOMAIN ops, NEW head, NEW tail,
         head = SubSeq(ops, 1, j - 1), tail = SubSeq(ops, j + 1, Len(ops))
  PROVE  IsCut(ops, j, head, tail)
<1>1. Len(ops) \in Nat /\ DOMAIN ops = 1..Len(ops) /\ j \in Nat
  BY SeqFacts
<1>2. PICK i, k : i = j - 1 /\ k = j + 1
  OBVIOUS
<1>3. i \in 0..Len(ops) /\ k \in 1..Len(ops) + 1 /\ Len(ops) - k + 1 = Len(ops) - j
  BY <1>1, <1>2
<1>4. head \in Seq(Operation) /\ Len(head) = i /\ \A n \in 1..i : head[n] = ops[n]
  BY <1>2, <1>3, Prefix
<1>5. tail \in Seq(Operation) /\ Len(tail) = Len(ops) - k + 1
      /\ \A n \in 1..Len(ops) - k + 1 : tail[n] = ops[k + n - 1]
  BY <1>2, <1>3, Suffix
<1>6. DOMAIN head = 1..j - 1 /\ DOMAIN tail = 1..Len(ops) - j
  <2>1. DOMAIN head = 1..Len(head) /\ DOMAIN tail = 1..Len(tail)
    BY <1>4, <1>5, SeqFacts
  <2> QED BY ONLY <1>2, <1>3, <1>4, <1>5, <2>1
<1>7. \A n \in DOMAIN head : n \in DOMAIN ops /\ n < j /\ head[n] = ops[n]
  <2> TAKE n \in DOMAIN head
  <2>1. n \in 1..i /\ n \in DOMAIN ops /\ n < j
    BY ONLY <1>1, <1>2, <1>6, n \in DOMAIN head, j \in DOMAIN ops
  <2> QED BY ONLY <1>4, <2>1
<1>8. ASSUME NEW n \in DOMAIN tail PROVE j + n \in DOMAIN ops /\ tail[n] = ops[j + n]
  <2>1. n \in 1..Len(ops) - k + 1 /\ k + n - 1 = j + n /\ j + n \in DOMAIN ops
    <3>1. n \in 1..Len(ops) - j
      BY ONLY <1>6, n \in DOMAIN tail
    <3>2. n \in Nat /\ n <= Len(ops) - j /\ n >= 1
      BY ONLY <1>1, <3>1
    <3>3. k + n - 1 = j + n
      BY ONLY <1>1, <1>2, <3>2
    <3>4. j + n \in 1..Len(ops)
      BY ONLY <1>1, <3>2
    <3> QED BY ONLY <1>1, <1>3, <3>1, <3>3, <3>4
  <2> QED BY ONLY <1>5, <2>1
<1>9. ASSUME NEW m \in DOMAIN ops, m # j
      PROVE  \/ m \in DOMAIN head /\ head[m] = ops[m]
             \/ \E n \in DOMAIN tail : m = j + n /\ tail[n] = ops[m]
  <2>1. CASE m < j
    <3>1. m \in DOMAIN head
      BY <1>1, <1>6, <2>1
    <3> QED BY <1>7, <3>1
  <2>2. CASE m > j
    <3>1. PICK n : n = m - j
      OBVIOUS
    <3>2. n \in DOMAIN tail /\ m = j + n
      BY ONLY <1>1, <1>6, <2>2, <3>1, m \in DOMAIN ops
    <3> QED BY <1>8, <3>2
  <2> QED BY <1>1, <1>9, <2>1, <2>2
<1> QED BY <1>4, <1>5, <1>6, <1>7, <1>8, <1>9 DEF IsCut

\* The two parts of the code have no common result.
LEMMA CutResults ==
  ASSUME NEW ops \in Seq(Operation), NEW j \in DOMAIN ops, NEW head, NEW tail,
         IsCut(ops, j, head, tail), DefinedOnce(ops)
  PROVE  /\ Results(head) \subseteq Results(ops) /\ Results(tail) \subseteq Results(ops)
         /\ Results(head) \cap Results(tail) = {}
         /\ DefinedOnce(head) /\ DefinedOnce(tail)
<1>1. /\ \A n \in DOMAIN head : n \in DOMAIN ops /\ n < j /\ head[n] = ops[n]
      /\ \A n \in DOMAIN tail : j + n \in DOMAIN ops /\ tail[n] = ops[j + n]
      /\ head \in Seq(Operation) /\ tail \in Seq(Operation)
  BY DEF IsCut
<1>2. j \in Nat /\ DOMAIN tail \subseteq Nat \ {0}
  <2>1. DOMAIN ops = 1..Len(ops) /\ DOMAIN tail = 1..Len(tail)
    BY <1>1, SeqFacts
  <2> QED BY <2>1
<1>3. Results(head) \subseteq Results(ops)
  BY <1>1 DEF Results
<1>4. Results(tail) \subseteq Results(ops)
  BY <1>1 DEF Results
<1>5. Results(head) \cap Results(tail) = {}
  <2> SUFFICES ASSUME NEW v, v \in Results(head), v \in Results(tail) PROVE FALSE
    OBVIOUS
  <2>1. PICK n \in DOMAIN head : head[n].res = v /\ v # NoValue
    BY <1>1, ResultsFacts
  <2>2. PICK m \in DOMAIN tail : tail[m].res = v
    BY <1>1, ResultsFacts
  <2>3. ops[n].res = ops[j + m].res /\ ops[n].res # NoValue /\ n \in DOMAIN ops /\ j + m \in DOMAIN ops
    BY <1>1, <2>1, <2>2
  <2>4. n = j + m
    BY <2>3 DEF DefinedOnce
  <2> QED BY <1>1, <1>2, <2>4
<1>6. DefinedOnce(head)
  BY <1>1 DEF DefinedOnce
<1>7. DefinedOnce(tail)
  <2> SUFFICES ASSUME NEW m \in DOMAIN tail, NEW n \in DOMAIN tail, tail[m].res = tail[n].res,
                      tail[m].res # NoValue
               PROVE  m = n
    BY DEF DefinedOnce
  <2>1. j + m = j + n
    BY <1>1 DEF DefinedOnce
  <2> QED BY <1>2, <2>1
<1> QED BY <1>3, <1>4, <1>5, <1>6, <1>7

\* The code of the state i around its j-th operation comes to the states B and D.
IsCutInto(P, R, i, j, B, D, head, tail) ==
  /\ SameRest(P, R) /\ R.top = P.top
  /\ IsCut(P.states[i].ops, j, head, tail)
  /\ R.states[i] = ParserState(P.states[i].name, <<>>, To(P.states[B].name))
  /\ R.states[B] = [P.states[B] EXCEPT !.ops = head \o @]
  /\ R.states[D] = ParserState(P.states[D].name, tail, P.states[i].next)
  /\ \A m \in DOMAIN P.states : m \notin {i, B, D} => R.states[m] = P.states[m]

\* AroundCall moves the two parts to the states B and D.
LEMMA CutInto ==
  ASSUME NEW P \in ParserType, UniqueStates(P), NEW i \in DOMAIN P.states,
         NEW j \in DOMAIN P.states[i].ops, NEW B \in DOMAIN P.states, NEW D \in DOMAIN P.states,
         i # B, i # D, B # D, NEW split, split.pre = P.states[B].name, split.post = P.states[D].name,
         NEW R, R = [P EXCEPT !.states = [m \in DOMAIN @ |-> AroundCall(P.states[i], j, split, @[m])]],
         NEW head, NEW tail, head = SubSeq(P.states[i].ops, 1, j - 1),
         tail = SubSeq(P.states[i].ops, j + 1, Len(P.states[i].ops))
  PROVE  IsCutInto(P, R, i, j, B, D, head, tail)
<1>1. /\ P.states \in Seq(StateType) /\ Len(P.states) \in Nat /\ DOMAIN P.states = 1..Len(P.states)
      /\ \A m \in DOMAIN P.states : P.states[m] \in StateType /\ P.states[m].ops \in Seq(Operation)
                                    /\ P.states[m].name \in Name /\ P.states[m].next \in Transition
  BY ParserFacts, SeqFacts, StateFacts
<1>2. IsCut(P.states[i].ops, j, head, tail)
  BY <1>1, Cut
<1>3. head \in Seq(Operation) /\ tail \in Seq(Operation)
  BY <1>2 DEF IsCut
<1>0. PICK site, pre, post : /\ pre = P.states[B].name /\ post = P.states[D].name
                             /\ site = P.states[i]
  OBVIOUS
<1>4. \A m \in DOMAIN P.states : /\ P.states[m].name = site.name <=> m = i
                                 /\ P.states[m].name = pre <=> m = B
                                 /\ P.states[m].name = post <=> m = D
  BY <1>0 DEF UniqueStates
<1>5. PICK T : T = [m \in DOMAIN P.states |-> AroundCall(P.states[i], j, split, P.states[m])]
  OBVIOUS
<1>14. ASSUME NEW m \in DOMAIN P.states
       PROVE  T[m] = CASE P.states[m].name = site.name -> ParserState(site.name, <<>>, To(pre))
                       [] P.states[m].name = pre -> [P.states[m] EXCEPT !.ops = head \o @]
                       [] P.states[m].name = post -> ParserState(post, tail, site.next)
                       [] OTHER -> P.states[m]
  <2>1. T[m] = AroundCall(P.states[i], j, split, P.states[m])
    BY <1>5
  <2> QED BY <1>0, <2>1 DEF AroundCall
<1>6. T[i] = ParserState(site.name, <<>>, To(pre))
  BY <1>4, <1>14
<1>7. T[B] = [P.states[B] EXCEPT !.ops = head \o @]
  BY <1>4, <1>14
<1>8. T[D] = ParserState(post, tail, site.next)
  BY <1>4, <1>14
<1>9. \A m \in DOMAIN P.states : m \notin {i, B, D} => T[m] = P.states[m]
  BY <1>4, <1>14
<1>15. i \in DOMAIN P.states /\ B \in DOMAIN P.states /\ D \in DOMAIN P.states
  OBVIOUS
<1>10. \A m \in DOMAIN P.states : T[m] \in StateType
  <2>1. T[i] \in StateType
    <3>1. To(pre) \in Transition
      BY ONLY <1>0, <1>15, <1>1, NoValueName DEF To, NextTo, Transition
    <3> QED BY ONLY <1>0, <1>15, <1>1, <1>6, <3>1 DEF ParserState, StateType
  <2>2. T[B] \in StateType
    <3>1. head \o P.states[B].ops \in Seq(Operation)
      BY ONLY <1>0, <1>15, <1>1, <1>3
    <3> QED BY ONLY <1>0, <1>15, <1>1, <1>7, <3>1 DEF StateType
  <2>3. T[D] \in StateType
    BY ONLY <1>0, <1>15, <1>1, <1>3, <1>8 DEF ParserState, StateType
  <2> QED BY ONLY <1>0, <1>15, <1>1, <1>9, <2>1, <2>2, <2>3
<1>11. T \in Seq(StateType) /\ Len(T) = Len(P.states) /\ DOMAIN T = DOMAIN P.states
  <2>1. T \in [1..Len(P.states) -> StateType]
    BY ONLY <1>1, <1>5, <1>10
  <2> QED BY ONLY <1>1, <2>1, AsSeq
<1>12. R = [P EXCEPT !.states = T]
  BY <1>5
<1>13. SameRest(P, R) /\ R.top = P.top /\ R.states = T
  BY <1>11, <1>12 DEF ParserType, SameRest
<1> QED BY <1>0, <1>2, <1>6, <1>7, <1>8, <1>9, <1>13 DEF IsCutInto

\* The operations of r are those of s and then those of t.
JoinsCode(r, s, t) ==
  /\ r \in Seq(Operation)
  /\ \A m \in DOMAIN r : (\E a \in DOMAIN s : r[m] = s[a]) \/ (\E b \in DOMAIN t : r[m] = t[b])
  /\ \A a \in DOMAIN s : \E m \in DOMAIN r : r[m] = s[a]
  /\ \A b \in DOMAIN t : \E m \in DOMAIN r : r[m] = t[b]
  /\ Results(r) = Results(s) \cup Results(t)
  /\ DefinedOnce(s) /\ DefinedOnce(t) /\ Results(s) \cap Results(t) = {} => DefinedOnce(r)

\* A concatenation is such code.
LEMMA JoinedCode ==
  ASSUME NEW s \in Seq(Operation), NEW t \in Seq(Operation)
  PROVE  JoinsCode(s \o t, s, t)
<1>0. PICK r : r = s \o t
  OBVIOUS
<1>1. r \in Seq(Operation) /\ IsJoined(r, s, t)
  BY <1>0, Joined
<1>2. /\ Len(s) \in Nat /\ DOMAIN s = 1..Len(s) /\ Len(t) \in Nat /\ DOMAIN t = 1..Len(t)
      /\ DOMAIN r = 1..Len(s) + Len(t)
      /\ \A n \in DOMAIN s : r[n] = s[n]
      /\ \A n \in DOMAIN t : r[n + Len(s)] = t[n]
  BY <1>1, SeqFacts DEF IsJoined
<1>3. ASSUME NEW m \in DOMAIN r
      PROVE  \/ m \in DOMAIN s /\ r[m] = s[m]
             \/ \E b \in DOMAIN t : m = b + Len(s) /\ r[m] = t[b]
  <2>1. CASE m <= Len(s)
    <3>1. m \in DOMAIN s
      BY ONLY <1>2, <2>1, m \in DOMAIN r
    <3> QED BY <1>2, <3>1
  <2>2. CASE ~(m <= Len(s))
    <3>1. PICK b : b = m - Len(s)
      OBVIOUS
    <3>2. b \in DOMAIN t /\ m = b + Len(s)
      BY ONLY <1>2, <2>2, <3>1, m \in DOMAIN r
    <3> QED BY <1>2, <3>2
  <2> QED BY <2>1, <2>2
<1>4. \A m \in DOMAIN r : (\E a \in DOMAIN s : r[m] = s[a]) \/ (\E b \in DOMAIN t : r[m] = t[b])
  BY <1>3
<1>5. \A a \in DOMAIN s : a \in DOMAIN r /\ r[a] = s[a]
  BY ONLY <1>2
<1>6. \A b \in DOMAIN t : b + Len(s) \in DOMAIN r /\ r[b + Len(s)] = t[b]
  BY ONLY <1>2
<1>7. Results(r) = Results(s) \cup Results(t)
  <2>1. \A v : v \in Results(r) => v \in Results(s) \/ v \in Results(t)
    BY <1>4 DEF Results
  <2>2. \A v : v \in Results(s) => v \in Results(r)
    BY <1>5 DEF Results
  <2>3. \A v : v \in Results(t) => v \in Results(r)
    BY <1>6 DEF Results
  <2> QED BY <2>1, <2>2, <2>3
<1>8. ASSUME DefinedOnce(s), DefinedOnce(t), Results(s) \cap Results(t) = {},
             NEW m \in DOMAIN r, NEW n \in DOMAIN r, r[m].res = r[n].res, r[m].res # NoValue
      PROVE  m = n
  <2>1. CASE m \in DOMAIN s /\ r[m] = s[m] /\ n \in DOMAIN s /\ r[n] = s[n]
    BY <1>8, <2>1 DEF DefinedOnce
  <2>2. CASE (\E b \in DOMAIN t : m = b + Len(s) /\ r[m] = t[b]) /\ (\E b \in DOMAIN t : n = b + Len(s) /\ r[n] = t[b])
    <3>1. PICK b \in DOMAIN t : m = b + Len(s) /\ r[m] = t[b]
      BY <2>2
    <3>2. PICK c \in DOMAIN t : n = c + Len(s) /\ r[n] = t[c]
      BY <2>2
    <3>3. b = c
      BY <1>8, <3>1, <3>2 DEF DefinedOnce
    <3> QED BY <3>1, <3>2, <3>3
  <2>3. ASSUME NEW a \in DOMAIN s, NEW b \in DOMAIN t, s[a].res = t[b].res, s[a].res # NoValue
        PROVE  FALSE
    <3>1. s[a].res \in Results(s) /\ t[b].res \in Results(t)
      BY <2>3 DEF Results
    <3> QED BY <1>8, <2>3, <3>1
  <2> QED BY <1>3, <1>8, <2>1, <2>2, <2>3
<1>9. DefinedOnce(s) /\ DefinedOnce(t) /\ Results(s) \cap Results(t) = {} => DefinedOnce(r)
  BY <1>8 DEF DefinedOnce
<1>10. JoinsCode(r, s, t)
  BY <1>1, <1>4, <1>5, <1>6, <1>7, <1>9 DEF JoinsCode
<1> QED BY <1>0, <1>10

\* A state that has become one with other code, which it takes from states of P.
TakesFrom(P, s, t, from) ==
  /\ t.name = s.name
  /\ KindsFit(t) /\ DefinedOnce(t.ops)
  /\ Results(t.ops) \subseteq UNION {Results(P.states[m].ops) : m \in from}
  /\ \A c \in Calls(t) : \E m \in from : c \in Calls(P.states[m])

\* A state with code from states of P fits into P.
LEMMA TakesFits ==
  ASSUME NEW M, NEW P \in ParserType, NEW J, CodeFits(M, P, J), NEW a \in DOMAIN P.states,
         NEW from \in SUBSET DOMAIN P.states, NEW t, TakesFrom(P, P.states[a], t, from)
  PROVE  StateFits(M, P, J, t)
<1>1. /\ IsSSA(P) /\ CallsKnown(P) /\ IsLinked(M, P) /\ HasNames(P, J)
  BY DEF CodeFits
<1>2. OwnResults(P.states, OuterValues(P))
  BY <1>1, SSAFacts
<1>3. Results(t.ops) \cap OuterValues(P) = {}
  BY <1>2 DEF TakesFrom, OwnResults
<1>4. \A v \in Results(t.ops) : v \in ValuesOf(P)
  BY ValuesFacts DEF TakesFrom
<1>5. t.name \in StateNames(P)
  BY DEF TakesFrom, StateNames
<1>6. \A v \in {t.name} \cup Results(t.ops) : IsStem(v) /\ \A b \in J : Apart(b, v)
  BY <1>1, <1>4, <1>5 DEF HasNames
<1>7. ASSUME NEW c \in Calls(t)
      PROVE  /\ c.inst \in InstanceNames(P)
             /\ \A x \in ToSet(P.insts) : x.name = c.inst /\ x.callee \in DOMAIN M =>
                  c.arity = Len(M[x.callee].params)
  <2>1. PICK m \in DOMAIN P.states : c \in Calls(P.states[m])
    BY DEF TakesFrom
  <2>2. c.inst \in InstanceNames(P)
    BY <1>1, <2>1 DEF CallsKnown
  <2>3. \A x \in ToSet(P.insts) : InstFits(M, P, x)
    BY <1>1, LinkedFacts
  <2> QED BY <2>1, <2>2, <2>3 DEF InstFits
<1> QED BY <1>3, <1>6, <1>7 DEF StateFits, TakesFrom

\* The code around the call id.
IsCutAway(P, R, id) ==
  /\ \A m \in DOMAIN R.states : \A c \in Calls(R.states[m]) :
       c.res # id /\ \E a \in DOMAIN P.states : c \in Calls(P.states[a])
  /\ \A a \in DOMAIN P.states : \A c \in Calls(P.states[a]) :
       c.res # id => \E m \in DOMAIN R.states : c \in Calls(R.states[m])

-----------------------------------------------------------------------------
(* Code that was cut *)

\* What the states have become, by what they take from which states.
IsCutAt(P, R, i, B, D) ==
  /\ SameRest(P, R) /\ R.top = P.top
  /\ TakesFrom(P, P.states[i], R.states[i], {})
  /\ TakesFrom(P, P.states[B], R.states[B], {B, i})
  /\ TakesFrom(P, P.states[D], R.states[D], {i})
  /\ Results(R.states[i].ops) = {}
  /\ Results(R.states[B].ops) \cap Results(R.states[D].ops) = {}
  /\ \A m \in DOMAIN P.states : m \notin {i, B, D} => R.states[m] = P.states[m]

\* Code that is part of other code.
LEMMA PartOfCode ==
  ASSUME NEW s, NEW ops, NEW t, t.ops = ops, KindsFit(s),
         \A n \in DOMAIN ops : \E m \in DOMAIN s.ops : ops[n] = s.ops[m]
  PROVE  KindsFit(t) /\ Calls(t) \subseteq Calls(s)
<1>1. KindsFit(t)
  BY DEF KindsFit
<1>2. ASSUME NEW c \in Calls(t) PROVE c \in Calls(s)
  <2>1. PICK n \in DOMAIN t.ops : t.ops[n].op = "apply" /\ c = CallOf(t.ops[n])
    BY CallsFacts
  <2>2. PICK m \in DOMAIN s.ops : t.ops[n] = s.ops[m]
    OBVIOUS
  <2> QED BY <2>1, <2>2, CallsFacts
<1> QED BY <1>1, <1>2

\* The states after the cut take their code from states before it.
LEMMA CutTakes ==
  ASSUME NEW P \in ParserType, IsSSA(P), HasKinds(P), UniqueStates(P), NEW i \in DOMAIN P.states,
         NEW j \in DOMAIN P.states[i].ops, NEW B \in DOMAIN P.states, NEW D \in DOMAIN P.states,
         i # B, i # D, B # D, NEW R, NEW head, NEW tail, IsCutInto(P, R, i, j, B, D, head, tail)
  PROVE  IsCutAt(P, R, i, B, D)
<1>1. /\ P.states[i].ops \in Seq(Operation) /\ P.states[B].ops \in Seq(Operation)
      /\ P.states[i] \in StateType /\ P.states[B] \in StateType
  BY ParserFacts
<1>2. /\ DefinedOnce(P.states[i].ops) /\ DefinedOnce(P.states[B].ops)
      /\ Results(P.states[i].ops) \cap Results(P.states[B].ops) = {}
      /\ KindsFit(P.states[i]) /\ KindsFit(P.states[B])
  <2>1. KindsFit(P.states[i]) /\ KindsFit(P.states[B])
    BY KindsFacts
  <2>2. ApartStates(P.states) /\ OwnResults(P.states, OuterValues(P))
    BY SSAFacts
  <2> QED BY <2>1, <2>2 DEF ApartStates, OwnResults
<1>3. IsCut(P.states[i].ops, j, head, tail)
  BY DEF IsCutInto
<1>4. /\ Results(head) \subseteq Results(P.states[i].ops) /\ Results(tail) \subseteq Results(P.states[i].ops)
      /\ Results(head) \cap Results(tail) = {}
      /\ DefinedOnce(head) /\ DefinedOnce(tail)
  BY <1>1, <1>2, <1>3, CutResults
<1>5. /\ head \in Seq(Operation) /\ tail \in Seq(Operation)
      /\ \A n \in DOMAIN head : \E m \in DOMAIN P.states[i].ops : head[n] = P.states[i].ops[m]
      /\ \A n \in DOMAIN tail : \E m \in DOMAIN P.states[i].ops : tail[n] = P.states[i].ops[m]
  BY <1>3 DEF IsCut
<1>6. /\ R.states[i].name = P.states[i].name /\ R.states[i].ops = <<>>
      /\ R.states[D].name = P.states[D].name /\ R.states[D].ops = tail
  BY DEF IsCutInto, ParserState
<1>7. R.states[B].name = P.states[B].name /\ R.states[B].ops = head \o P.states[B].ops
  BY <1>1 DEF IsCutInto, StateType
<1>8. TakesFrom(P, P.states[i], R.states[i], {}) /\ Results(R.states[i].ops) = {}
  <2>1. DOMAIN R.states[i].ops = {}
    BY <1>6
  <2>2. Results(R.states[i].ops) = {} /\ Calls(R.states[i]) = {}
    BY <2>1 DEF Results, Calls
  <2> QED BY <1>6, <2>1, <2>2 DEF TakesFrom, KindsFit, DefinedOnce
<1>9. TakesFrom(P, P.states[D], R.states[D], {i})
  <2>1. KindsFit(R.states[D]) /\ Calls(R.states[D]) \subseteq Calls(P.states[i])
    BY <1>2, <1>5, <1>6, PartOfCode
  <2>2. Results(R.states[D].ops) \subseteq UNION {Results(P.states[m].ops) : m \in {i}}
    BY <1>4, <1>6
  <2> QED BY <1>4, <1>6, <2>1, <2>2 DEF TakesFrom
<1>10. TakesFrom(P, P.states[B], R.states[B], {B, i})
  <2>0. PICK r, own : r = head \o own /\ own = P.states[B].ops
    OBVIOUS
  <2>7. r = R.states[B].ops
    BY <1>7, <2>0
  <2>1. /\ r \in Seq(Operation)
        /\ \A m \in DOMAIN r : (\E a \in DOMAIN head : r[m] = head[a])
                               \/ (\E b \in DOMAIN P.states[B].ops : r[m] = P.states[B].ops[b])
        /\ Results(r) = Results(head) \cup Results(P.states[B].ops)
        /\ DefinedOnce(head) /\ DefinedOnce(P.states[B].ops)
             /\ Results(head) \cap Results(P.states[B].ops) = {} => DefinedOnce(r)
    <3>1. own \in Seq(Operation)
      BY <1>1, <2>0
    <3>2. JoinsCode(r, head, own)
      BY <1>5, <2>0, <3>1, JoinedCode
    <3> QED BY <2>0, <3>2 DEF JoinsCode
  <2>2. \A m \in DOMAIN r : \/ \E a \in DOMAIN P.states[i].ops : r[m] = P.states[i].ops[a]
                            \/ \E b \in DOMAIN P.states[B].ops : r[m] = P.states[B].ops[b]
    BY <1>5, <2>1
  <2>3. DefinedOnce(r)
    BY <1>2, <1>4, <2>1
  <2>4. Results(r) \subseteq UNION {Results(P.states[m].ops) : m \in {B, i}}
    BY <1>4, <2>1
  <2>5. KindsFit(R.states[B])
    BY <1>2, <2>2, <2>7 DEF KindsFit
  <2>6. ASSUME NEW c \in Calls(R.states[B])
        PROVE  c \in Calls(P.states[B]) \/ c \in Calls(P.states[i])
    <3>1. PICK n \in DOMAIN r : r[n].op = "apply" /\ c = CallOf(r[n])
      BY <2>7, CallsFacts
    <3> QED BY <2>2, <3>1, CallsFacts
  <2> QED BY <1>7, <2>3, <2>4, <2>5, <2>6, <2>7 DEF TakesFrom
<1>11. Results(R.states[B].ops) \cap Results(R.states[D].ops) = {}
  <2>0. PICK r, own : r = head \o own /\ own = P.states[B].ops
    OBVIOUS
  <2>2. own \in Seq(Operation)
    BY <1>1, <2>0
  <2>3. JoinsCode(r, head, own)
    BY <1>5, <2>0, <2>2, JoinedCode
  <2>1. Results(R.states[B].ops) = Results(head) \cup Results(P.states[B].ops)
    BY <1>7, <2>0, <2>3 DEF JoinsCode
  <2> QED BY <1>2, <1>4, <1>6, <2>1
<1> QED BY <1>8, <1>9, <1>10, <1>11 DEF IsCutAt, IsCutInto

\* The cut keeps the code well formed.
LEMMA CutFits ==
  ASSUME NEW M, NEW P \in ParserType, NEW J, CodeFits(M, P, J), NEW i \in DOMAIN P.states,
         NEW B \in DOMAIN P.states, NEW D \in DOMAIN P.states,
         i # B, i # D, B # D, NEW R, IsCutAt(P, R, i, B, D)
  PROVE  CodeFits(M, R, J)
<1>1. IsSSA(P) /\ UniqueStates(P) /\ ApartStates(P.states)
  BY SSAFacts DEF CodeFits, HasNames
<1>2. /\ R \in ParserType /\ R.params = P.params /\ R.insts = P.insts /\ R.top = P.top
      /\ DOMAIN R.states = DOMAIN P.states
  BY DEF IsCutAt, SameRest
<1>3. ASSUME NEW m \in DOMAIN R.states
      PROVE  (\E a \in DOMAIN P.states : R.states[m] = P.states[a]) \/ StateFits(M, P, J, R.states[m])
  <2>1. CASE m = i
    BY <2>1, TakesFits DEF IsCutAt
  <2>2. CASE m = B
    BY <2>2, TakesFits DEF IsCutAt
  <2>3. CASE m = D
    BY <2>3, TakesFits DEF IsCutAt
  <2> QED BY <1>2, <2>1, <2>2, <2>3 DEF IsCutAt
<1>4. /\ \A m \in DOMAIN P.states : R.states[m].name = P.states[m].name
      /\ \A m \in DOMAIN P.states : m # B /\ m # D => Results(R.states[m].ops) \subseteq Results(P.states[m].ops)
      /\ Results(R.states[i].ops) = {}
      /\ Results(R.states[B].ops) \subseteq Results(P.states[i].ops) \cup Results(P.states[B].ops)
      /\ Results(R.states[D].ops) \subseteq Results(P.states[i].ops)
      /\ Results(R.states[B].ops) \cap Results(R.states[D].ops) = {}
  BY DEF IsCutAt, TakesFrom
<1>5. \A m, n \in DOMAIN P.states : m # n => Results(P.states[m].ops) \cap Results(P.states[n].ops) = {}
  BY <1>1 DEF ApartStates
<1>6. ASSUME NEW m \in DOMAIN P.states, NEW n \in DOMAIN P.states, m # n
      PROVE  Results(R.states[m].ops) \cap Results(R.states[n].ops) = {}
  <2>1. ASSUME NEW a \in DOMAIN P.states, a # B, a # D, a # i
        PROVE  /\ Results(R.states[a].ops) \cap Results(R.states[B].ops) = {}
               /\ Results(R.states[a].ops) \cap Results(R.states[D].ops) = {}
    <3>1. /\ Results(R.states[a].ops) \subseteq Results(P.states[a].ops)
          /\ Results(P.states[a].ops) \cap Results(P.states[i].ops) = {}
          /\ Results(P.states[a].ops) \cap Results(P.states[B].ops) = {}
      BY <1>4, <1>5, <2>1
    <3> QED BY <1>4, <3>1
  <2>2. CASE m = i \/ n = i
    BY <1>4, <2>2
  <2>3. CASE m # i /\ n # i
    <3>1. CASE m \in {B, D} /\ n \in {B, D}
      BY <1>4, <1>6, <3>1
    <3>2. CASE m \in {B, D} /\ n \notin {B, D}
      BY <2>1, <2>3, <3>2
    <3>3. CASE m \notin {B, D} /\ n \in {B, D}
      BY <2>1, <2>3, <3>3
    <3>4. CASE m \notin {B, D} /\ n \notin {B, D}
      <4>1. /\ Results(R.states[m].ops) \subseteq Results(P.states[m].ops)
            /\ Results(R.states[n].ops) \subseteq Results(P.states[n].ops)
        BY <1>4, <3>4
      <4> QED BY <1>5, <1>6, <4>1
    <3> QED BY <3>1, <3>2, <3>3, <3>4
  <2> QED BY <2>2, <2>3
<1>7. ApartStates(R.states)
  BY <1>1, <1>2, <1>4, <1>6 DEF ApartStates
<1> QED BY <1>2, <1>3, <1>7, StatesFit

\* All operations but the j-th of the state i are still there.
CodeButOne(P, R, i, j) ==
  /\ \A m \in DOMAIN R.states : \A n \in DOMAIN R.states[m].ops :
       \E a \in DOMAIN P.states : \E b \in DOMAIN P.states[a].ops :
         R.states[m].ops[n] = P.states[a].ops[b] /\ (a # i \/ b # j)
  /\ \A a \in DOMAIN P.states : \A b \in DOMAIN P.states[a].ops :
       a # i \/ b # j =>
         \E m \in DOMAIN R.states : \E n \in DOMAIN R.states[m].ops :
           R.states[m].ops[n] = P.states[a].ops[b]

\* The cut keeps all operations but the call.
LEMMA CutCode ==
  ASSUME NEW P \in ParserType, NEW i \in DOMAIN P.states,
         NEW j \in DOMAIN P.states[i].ops, NEW B \in DOMAIN P.states, NEW D \in DOMAIN P.states,
         i # B, i # D, B # D, P.states[D].ops = <<>>,
         NEW R, NEW head, NEW tail, IsCutInto(P, R, i, j, B, D, head, tail)
  PROVE  CodeButOne(P, R, i, j)
<1>1. /\ P.states[i].ops \in Seq(Operation) /\ P.states[B].ops \in Seq(Operation)
      /\ P.states[i] \in StateType /\ P.states[B] \in StateType
  BY ParserFacts
<1>2. IsCut(P.states[i].ops, j, head, tail) /\ DOMAIN R.states = DOMAIN P.states
  BY DEF IsCutInto, SameRest
<1>3. PICK ops, own : ops = P.states[i].ops /\ own = P.states[B].ops
  OBVIOUS
<1>4. /\ head \in Seq(Operation) /\ tail \in Seq(Operation)
      /\ \A n \in DOMAIN head : n \in DOMAIN ops /\ n < j /\ head[n] = ops[n]
      /\ \A n \in DOMAIN tail : j + n \in DOMAIN ops /\ tail[n] = ops[j + n]
      /\ \A m \in DOMAIN ops :
           \/ m = j
           \/ m \in DOMAIN head /\ head[m] = ops[m]
           \/ \E n \in DOMAIN tail : m = j + n /\ tail[n] = ops[m]
  BY <1>2, <1>3 DEF IsCut
<1>5. /\ R.states[i].ops = <<>> /\ R.states[D].ops = tail
      /\ \A m \in DOMAIN P.states : m \notin {i, B, D} => R.states[m] = P.states[m]
  BY DEF IsCutInto, ParserState
<1>6. R.states[B].ops = head \o own
  BY <1>1, <1>3 DEF IsCutInto, StateType
<1>7. JoinsCode(R.states[B].ops, head, own)
  BY <1>1, <1>3, <1>4, <1>6, JoinedCode
<1>8. /\ \A n \in DOMAIN head : \E b \in DOMAIN ops : head[n] = ops[b] /\ b # j
      /\ \A n \in DOMAIN tail : \E b \in DOMAIN ops : tail[n] = ops[b] /\ b # j
  <2>1. j \in Nat /\ DOMAIN head \subseteq Nat /\ DOMAIN tail \subseteq Nat \ {0}
    <3>1. DOMAIN ops = 1..Len(ops) /\ DOMAIN tail = 1..Len(tail) /\ DOMAIN head = 1..Len(head)
      BY <1>1, <1>3, <1>4, SeqFacts
    <3> QED BY <1>3, <3>1
  <2>2. \A n \in DOMAIN tail : j + n # j
    BY <2>1
  <2>3. \A n \in DOMAIN head : n # j
    BY <1>4, <2>1
  <2> QED BY <1>4, <2>2, <2>3
<1>9. ASSUME NEW m \in DOMAIN R.states, NEW n \in DOMAIN R.states[m].ops
      PROVE  \E a \in DOMAIN P.states : \E b \in DOMAIN P.states[a].ops :
               R.states[m].ops[n] = P.states[a].ops[b] /\ (a # i \/ b # j)
  <2>1. CASE m = i
    BY <1>5, <1>9, <2>1
  <2>2. CASE m = D
    BY <1>3, <1>5, <1>8, <2>2
  <2>3. CASE m = B
    <3>1. \/ \E a \in DOMAIN head : R.states[B].ops[n] = head[a]
          \/ \E b \in DOMAIN own : R.states[B].ops[n] = own[b]
      BY <1>7, <2>3 DEF JoinsCode
    <3>2. CASE \E b \in DOMAIN own : R.states[B].ops[n] = own[b]
      BY <1>3, <2>3, <3>2
    <3>3. CASE \E a \in DOMAIN head : R.states[B].ops[n] = head[a]
      BY <1>3, <1>8, <2>3, <3>3
    <3> QED BY <3>1, <3>2, <3>3
  <2>4. CASE m \notin {i, B, D}
    BY <1>2, <1>5, <2>4
  <2> QED BY <2>1, <2>2, <2>3, <2>4
<1>10. ASSUME NEW a \in DOMAIN P.states, NEW b \in DOMAIN P.states[a].ops, a # i \/ b # j
       PROVE  \E m \in DOMAIN R.states : \E n \in DOMAIN R.states[m].ops :
                R.states[m].ops[n] = P.states[a].ops[b]
  <2>1. CASE a = i
    <3>1. \/ b \in DOMAIN head /\ head[b] = ops[b]
          \/ \E n \in DOMAIN tail : tail[n] = ops[b]
      BY <1>3, <1>4, <1>10, <2>1
    <3>2. CASE b \in DOMAIN head /\ head[b] = ops[b]
      <4>1. \E n \in DOMAIN R.states[B].ops : R.states[B].ops[n] = head[b]
        BY <1>7, <3>2 DEF JoinsCode
      <4> QED BY <1>2, <1>3, <2>1, <3>2, <4>1
    <3>3. CASE \E n \in DOMAIN tail : tail[n] = ops[b]
      BY <1>2, <1>3, <1>5, <2>1, <3>3
    <3> QED BY <3>1, <3>2, <3>3
  <2>2. CASE a = B
    <3>1. \E n \in DOMAIN R.states[B].ops : R.states[B].ops[n] = own[b]
      BY <1>3, <1>7, <2>2 DEF JoinsCode
    <3> QED BY <1>2, <1>3, <2>2, <3>1
  <2>3. CASE a = D
    BY <1>10, <2>3
  <2>4. CASE a \notin {i, B, D}
    BY <1>2, <1>5, <2>4
  <2> QED BY <2>1, <2>2, <2>3, <2>4
<1> QED BY <1>9, <1>10 DEF CodeButOne

\* The cut takes away the call and no other one.
LEMMA CutAway ==
  ASSUME NEW P \in ParserType, IsSSA(P), NEW i \in DOMAIN P.states,
         NEW j \in DOMAIN P.states[i].ops, NEW id, id # NoValue, P.states[i].ops[j].res = id,
         NEW R, CodeButOne(P, R, i, j)
  PROVE  IsCutAway(P, R, id)
<1>1. ASSUME NEW a \in DOMAIN P.states, NEW b \in DOMAIN P.states[a].ops, P.states[a].ops[b].res = id
      PROVE  a = i /\ b = j
  <2>1. id \in Results(P.states[a].ops) /\ id \in Results(P.states[i].ops)
    BY <1>1 DEF Results
  <2>2. a = i
    BY <2>1 DEF IsSSA
  <2>3. DefinedOnce(P.states[i].ops)
    BY DEF IsSSA
  <2> QED BY <1>1, <2>2, <2>3 DEF DefinedOnce
<1>2. ASSUME NEW m \in DOMAIN R.states, NEW c \in Calls(R.states[m])
      PROVE  c.res # id /\ \E a \in DOMAIN P.states : c \in Calls(P.states[a])
  <2>1. PICK n \in DOMAIN R.states[m].ops :
          R.states[m].ops[n].op = "apply" /\ c = CallOf(R.states[m].ops[n])
    BY CallsFacts
  <2>2. PICK a \in DOMAIN P.states : \E b \in DOMAIN P.states[a].ops :
          R.states[m].ops[n] = P.states[a].ops[b] /\ (a # i \/ b # j)
    BY DEF CodeButOne
  <2>3. PICK b \in DOMAIN P.states[a].ops :
          R.states[m].ops[n] = P.states[a].ops[b] /\ (a # i \/ b # j)
    BY <2>2
  <2>4. P.states[a].ops[b].res # id
    BY <1>1, <2>3
  <2> QED BY <2>1, <2>3, <2>4, CallsFacts, CallOfFacts
<1>3. ASSUME NEW a \in DOMAIN P.states, NEW c \in Calls(P.states[a]), c.res # id
      PROVE  \E m \in DOMAIN R.states : c \in Calls(R.states[m])
  <2>1. PICK b \in DOMAIN P.states[a].ops :
          P.states[a].ops[b].op = "apply" /\ c = CallOf(P.states[a].ops[b])
    BY CallsFacts
  <2>2. a # i \/ b # j
    BY <1>3, <2>1, CallOfFacts
  <2>3. PICK m \in DOMAIN R.states : \E n \in DOMAIN R.states[m].ops :
           R.states[m].ops[n] = P.states[a].ops[b]
    BY <2>2 DEF CodeButOne
  <2> QED BY <2>1, <2>3, CallsFacts
<1> QED BY <1>2, <1>3 DEF IsCutAway

\* Code that was adjusted.
IsKept(M, P, Q, J) ==
  /\ CodeFits(M, Q, J) /\ SameSignature(P, Q) /\ StateNames(Q) = StateNames(P)
  /\ CallsStay(P, Q) /\ CallsStay(Q, P)

\* What adjustBlockUses keeps is well formed.
LEMMA KeepsFits ==
  ASSUME NEW M, NEW P \in ParserType, NEW J \in SUBSET Name, CodeFits(M, P, J), NEW B, NEW Q, Keeps(P, Q, B)
  PROVE  IsKept(M, P, Q, J)
<1>1. IsLinked(M, P) /\ HasNames(P, J) /\ CallsKnown(P)
  BY DEF CodeFits
<1>2. /\ Q \in ParserType /\ Q.params = P.params /\ Q.insts = P.insts
      /\ DOMAIN Q.states = DOMAIN P.states
      /\ IsSSA(Q) /\ HasKinds(Q)
  BY DEF Keeps, SameRest
<1>3. /\ \A i \in DOMAIN P.states : Q.states[i].name = P.states[i].name /\ Calls(Q.states[i]) = Calls(P.states[i])
      /\ ToSet(P.top) \subseteq ToSet(Q.top)
      /\ \A q \in ToSet(Q.top) : q \in ToSet(P.top) \/ q.op = "var"
      /\ \A v \in ValuesOf(Q) : \E u \in ValuesOf(P) : Begins(v, u)
  BY DEF Keeps
<1>4. StateNames(Q) = StateNames(P) /\ InstanceNames(Q) = InstanceNames(P)
  BY <1>2, <1>3 DEF StateNames, InstanceNames
<1>5. CallsStay(P, Q) /\ CallsStay(Q, P) /\ CallsKnown(Q)
  BY <1>1, <1>2, <1>3, <1>4 DEF CallsStay, CallsKnown
<1>6. SameSignature(P, Q)
  BY <1>2, <1>3 DEF SameSignature
<1>7. IsLinked(M, Q)
  <2> SUFFICES ASSUME NEW x \in ToSet(P.insts) PROVE InstFits(M, Q, x)
    BY <1>2, LinkedFacts
  <2>1. InstFits(M, P, x)
    BY <1>1, LinkedFacts
  <2> QED BY <1>2, <1>3, <2>1 DEF InstFits
<1>8. HasNames(Q, J)
  <2>1. UniqueStates(Q) /\ UniqueInsts(Q)
    BY <1>1, <1>2, <1>3 DEF HasNames, UniqueStates, UniqueInsts
  <2>2. ASSUME NEW v \in ValuesOf(Q)
        PROVE  IsStem(v) /\ \A a \in J : Apart(a, v)
    <3>1. PICK u \in ValuesOf(P) : Begins(v, u)
      BY <1>3
    <3>2. u \in Name /\ v \in Name
      BY <1>2, ValuesFacts
    <3>3. IsStem(u) /\ \A a \in J : Apart(a, u)
      BY <1>1 DEF HasNames
    <3> QED BY <3>1, <3>2, <3>3, StemLonger, ApartLonger
  <2> QED BY <1>1, <1>4, <2>1, <2>2 DEF HasNames
<1> QED BY <1>2, <1>4, <1>5, <1>6, <1>7, <1>8 DEF IsKept, CodeFits

-----------------------------------------------------------------------------
(* The step that moves the code around a call *)

\* Once a split is finalized the others still wait for their code.
LEMMA FinalSplits ==
  ASSUME NEW P, NEW R, NEW Q, NEW i \in DOMAIN P.states, NEW B \in DOMAIN P.states, NEW D \in DOMAIN P.states,
         UniqueStates(P), IsCutAt(P, R, i, B, D), Keeps(R, Q, B), Calls(P.states[i]) # {},
         NEW inst, NEW splits, NEW k \in DOMAIN splits,
         P.states[B].name = splits[k].pre, P.states[D].name = splits[k].post,
         SplitNames(P, inst, splits), NEW waiting \in SUBSET DOMAIN splits,
         SplitStates(P, splits, waiting, {}), CopiesCallOthers(P, inst)
  PROVE  /\ SplitNames(Q, inst, splits) /\ SplitStates(Q, splits, waiting \ {k}, {})
         /\ CopiesCallOthers(Q, inst)
<1>1. /\ DOMAIN R.states = DOMAIN P.states /\ DOMAIN Q.states = DOMAIN P.states
      /\ \A m \in DOMAIN P.states : R.states[m].name = P.states[m].name
      /\ \A m \in DOMAIN P.states : Q.states[m].name = P.states[m].name
      /\ \A m \in DOMAIN P.states : Calls(Q.states[m]) = Calls(R.states[m])
      /\ \A m \in DOMAIN P.states : m # B /\ IsUnfinished(R.states[m]) => Q.states[m] = R.states[m]
  <2>1. DOMAIN R.states = DOMAIN P.states /\ \A m \in DOMAIN P.states : R.states[m].name = P.states[m].name
    BY DEF IsCutAt, TakesFrom, SameRest
  <2> QED BY <2>1 DEF Keeps, SameRest
<1>2. \A m \in DOMAIN P.states : m \notin {i, B, D} => R.states[m] = P.states[m]
  BY DEF IsCutAt
<1>3. Calls(R.states[i]) = {}
  BY DEF IsCutAt, TakesFrom
<1>4. SplitNames(Q, inst, splits)
  <2>1. StateNames(Q) = StateNames(P)
    BY <1>1 DEF StateNames
  <2> QED BY <2>1 DEF SplitNames
<1>5. ASSUME NEW l \in waiting, l # k, NEW m \in DOMAIN P.states,
             P.states[m].name \in {splits[l].pre, splits[l].post}
      PROVE  m # B /\ m # D
  <2>1. /\ splits[l].pre # splits[k].post /\ splits[k].pre # splits[l].post
        /\ splits[l].pre # splits[k].pre /\ splits[k].post # splits[l].post
    BY <1>5 DEF SplitNames
  <2> QED BY <1>5, <2>1
<1>6. SplitStates(Q, splits, waiting \ {k}, {})
  <2>1. ASSUME NEW l \in waiting, l # k, NEW m \in DOMAIN P.states, P.states[m].name = splits[l].post
        PROVE  IsUnfinished(Q.states[m])
    <3>1. IsUnfinished(P.states[m])
      BY <2>1 DEF SplitStates
    <3>2. m # i
      BY <3>1, UnfinishedUses
    <3>3. m # B /\ m # D
      BY <1>5, <2>1
    <3> QED BY <1>1, <1>2, <3>1, <3>2, <3>3
  <2>2. ASSUME NEW l \in waiting, l # k, NEW m \in DOMAIN P.states, P.states[m].name = splits[l].pre
        PROVE  Calls(Q.states[m]) = {}
    <3>1. Calls(P.states[m]) = {}
      BY <2>2 DEF SplitStates
    <3>3. m # B /\ m # D
      BY <1>5, <2>2
    <3> QED BY <1>1, <1>2, <3>1, <3>3
  <2> QED BY <1>1, <2>1, <2>2 DEF SplitStates
<1>7. CopiesCallOthers(Q, inst)
  <2> SUFFICES ASSUME NEW m \in DOMAIN P.states, Begins(P.states[m].name, inst),
                      NEW c \in Calls(Q.states[m])
               PROVE  c.inst # inst
    BY <1>1 DEF CopiesCallOthers
  <2>1. m # B /\ m # D
    BY DEF SplitNames, Apart
  <2>2. m # i /\ Calls(Q.states[m]) = Calls(P.states[m])
    BY <1>1, <1>2, <1>3, <2>1
  <2> QED BY <2>2 DEF CopiesCallOthers
<1> QED BY <1>4, <1>6, <1>7

\* Once a split is finalized its call is gone and the other ones are left.
LEMMA FinalJob ==
  ASSUME NEW M, NEW P, NEW R, NEW Q, NEW inst, NEW calls, NEW pending \in SUBSET DOMAIN calls,
         NEW k \in pending, JobFits(M, P, inst, calls, pending),
         IsCutAway(P, R, calls[k]), CallsStay(R, Q), CallsStay(Q, R), Q.insts = P.insts,
         NEW N, DOMAIN N = DOMAIN M
  PROVE  /\ JobFits(N, Q, inst, calls, pending \ {k})
         /\ \A m \in DOMAIN Q.states : \A c \in Calls(Q.states[m]) :
              \E a \in DOMAIN P.states : c \in Calls(P.states[a])
<1>1. ASSUME NEW m \in DOMAIN Q.states, NEW c \in Calls(Q.states[m])
      PROVE  c.res # calls[k] /\ \E a \in DOMAIN P.states : c \in Calls(P.states[a])
  <2>1. PICK n \in DOMAIN R.states : c \in Calls(R.states[n])
    BY DEF CallsStay
  <2> QED BY <2>1 DEF IsCutAway
<1>2. ASSUME NEW a \in DOMAIN P.states, NEW c \in Calls(P.states[a]), c.res # calls[k]
      PROVE  \E m \in DOMAIN Q.states : c \in Calls(Q.states[m])
  <2>1. PICK n \in DOMAIN R.states : c \in Calls(R.states[n])
    BY <1>2 DEF IsCutAway
  <2> QED BY <2>1 DEF CallsStay
<1>3. /\ \E x \in ToSet(P.insts) : x.name = inst /\ x.callee \in DOMAIN M
      /\ \A l, n \in DOMAIN calls : calls[l] = calls[n] => l = n
      /\ \A l \in pending : \E i \in DOMAIN P.states : \E c \in Calls(P.states[i]) :
           c.inst = inst /\ c.res = calls[l]
      /\ \A i \in DOMAIN P.states : \A c \in Calls(P.states[i]) :
           c.inst = inst => \E l \in pending : c.res = calls[l]
  BY DEF JobFits
<1>4. ASSUME NEW l \in pending, l # k
      PROVE  \E m \in DOMAIN Q.states : \E c \in Calls(Q.states[m]) : c.inst = inst /\ c.res = calls[l]
  <2>1. PICK i \in DOMAIN P.states : \E c \in Calls(P.states[i]) : c.inst = inst /\ c.res = calls[l]
    BY <1>3
  <2>2. PICK c \in Calls(P.states[i]) : c.inst = inst /\ c.res = calls[l]
    BY <2>1
  <2>3. c.res # calls[k]
    BY <1>3, <1>4, <2>2
  <2> QED BY <1>2, <2>2, <2>3
<1>5. ASSUME NEW m \in DOMAIN Q.states, NEW c \in Calls(Q.states[m]), c.inst = inst
      PROVE  \E l \in pending \ {k} : c.res = calls[l]
  BY <1>1, <1>3, <1>5
<1> QED BY <1>1, <1>3, <1>4, <1>5 DEF JobFits

\* What has become of a parser when a split is finalized.
IsFinal(M, P, Q, J, id) ==
  /\ CodeFits(M, Q, J) /\ Q \in ParserType /\ Q.insts = P.insts /\ SameSignature(P, Q)
  /\ \E R : IsCutAway(P, R, id) /\ CallsStay(R, Q) /\ CallsStay(Q, R)

\* R is where the code around the call has moved, Q where the uses are adjusted.
IsFinalizedBy(M, P, R, Q, J, i, j, B, D) ==
  /\ IsCutAt(P, R, i, B, D) /\ Keeps(R, Q, B)
  /\ CodeFits(M, R, J) /\ Q = AdjustBlockUses(R, R.states[B].name)
  /\ \E head, tail : IsCutInto(P, R, i, j, B, D, head, tail)

\* SplitAt keeps the code well formed and takes away the call.
LEMMA FinalFits ==
  ASSUME NEW M, NEW P \in ParserType, NEW J \in SUBSET Name, CodeFits(M, P, J), NEW i \in DOMAIN P.states,
         NEW j \in DOMAIN P.states[i].ops, NEW id, id # NoValue, P.states[i].ops[j].res = id,
         SiteOf(P, id) = P.states[i], CallIn(P.states[i], id) = j,
         NEW B \in DOMAIN P.states, NEW D \in DOMAIN P.states, i # B, i # D, B # D,
         P.states[D].ops = <<>>, NEW split, split.pre = P.states[B].name, split.post = P.states[D].name,
         NEW Q, Q = SplitAt(P, id, split)
  PROVE  /\ IsFinal(M, P, Q, J, id)
         /\ \E R : IsFinalizedBy(M, P, R, Q, J, i, j, B, D)
<1>1. IsSSA(P) /\ HasKinds(P) /\ UniqueStates(P)
  BY DEF CodeFits, HasNames
<1>2. PICK R : R = [P EXCEPT !.states = [m \in DOMAIN @ |-> AroundCall(P.states[i], j, split, @[m])]]
  OBVIOUS
<1>3. PICK head, tail : /\ head = SubSeq(P.states[i].ops, 1, j - 1)
                        /\ tail = SubSeq(P.states[i].ops, j + 1, Len(P.states[i].ops))
  OBVIOUS
<1>4. IsCutInto(P, R, i, j, B, D, head, tail)
  BY <1>1, <1>2, <1>3, CutInto
<1>5. IsCutAt(P, R, i, B, D)
  BY <1>1, <1>4, CutTakes
<1>6. CodeFits(M, R, J)
  BY <1>5, CutFits
<1>7. CodeButOne(P, R, i, j)
  BY <1>4, CutCode
<1>8. IsCutAway(P, R, id)
  BY <1>1, <1>7, CutAway
<1>9. /\ R \in ParserType /\ DOMAIN R.states = DOMAIN P.states /\ R.states[B].name = split.pre
      /\ R.insts = P.insts /\ R.params = P.params /\ R.top = P.top
  BY <1>5 DEF IsCutAt, SameRest, TakesFrom
<1>10. Q = AdjustBlockUses(R, R.states[B].name)
  BY <1>2, <1>9 DEF SplitAt
<1>11. Keeps(R, Q, B)
  <2>1. IsSSA(R) /\ HasKinds(R) /\ UniqueStates(R)
    BY <1>6 DEF CodeFits, HasNames
  <2>2. \A m \in DOMAIN R.states : R.states[m].name # <<>>
    BY <1>6 DEF CodeFits, HasNames, IsStem, StateNames
  <2> QED BY <1>9, <1>10, <2>1, <2>2, BlockKeeps
<1>12. IsKept(M, R, Q, J)
  BY <1>6, <1>9, <1>11, KeepsFits
<1>13. Q \in ParserType /\ Q.insts = P.insts
  BY <1>9, <1>11 DEF Keeps, SameRest
<1>14. SameSignature(P, Q)
  BY <1>9, <1>12 DEF IsKept, SameSignature
<1>15. IsFinalizedBy(M, P, R, Q, J, i, j, B, D)
  BY <1>4, <1>5, <1>6, <1>10, <1>11 DEF IsFinalizedBy
<1> QED BY <1>8, <1>12, <1>13, <1>14, <1>15 DEF IsFinal, IsKept

\* The state around the step FinalizeSplit.
LEMMA FinalizeFrame ==
  ASSUME Inv, FinalizeSplit, NEW q, NEW P, NEW inst, NEW calls, NEW splits, NEW k, NEW J, NEW pending,
         q = job.parser, P = Caller, inst = job.inst, calls = job.calls, splits = job.splits,
         k = job.at, J = Lasting(job.parser), pending = {l \in DOMAIN calls : l >= k}
  PROVE  /\ phase = "finalize" /\ k <= Len(calls) /\ phase' = "finalize"
         /\ job' = [job EXCEPT !.at = k + 1] /\ source' = source /\ order' = order
         /\ todo' = todo /\ changed' = changed
         /\ program' = [program EXCEPT ![q] = SplitAt(@, calls[k], splits[k])]
         /\ InJob /\ InJob'
         /\ q \in DOMAIN program /\ P \in ParserType /\ P = program[q]
         /\ CodeFits(program, P, J)
         /\ job \in JobType(DOMAIN source) /\ calls \in Seq(Name) /\ splits \in Seq(SplitType)
         /\ Len(calls) \in Nat /\ DOMAIN calls = 1..Len(calls)
         /\ Len(splits) = Len(calls) /\ DOMAIN splits = DOMAIN calls
         /\ k \in DOMAIN calls /\ k \in Nat \ {0}
         /\ job' \in JobType(DOMAIN source)
         /\ job'.parser = q /\ job'.inst = inst /\ job'.calls = calls /\ job'.splits = splits
         /\ job'.at = k + 1
         /\ Pending = pending /\ Pending' = pending \ {k}
         /\ Waiting = pending /\ Waiting' = pending \ {k}
         /\ Bare = {} /\ Bare' = {} /\ k \in pending /\ pending \subseteq DOMAIN calls
<1>1. /\ q = job.parser /\ P = Caller /\ inst = job.inst
      /\ calls = job.calls /\ splits = job.splits /\ k = job.at /\ J = Lasting(job.parser)
  OBVIOUS
<1>2. InvType /\ InvCode /\ InvJob /\ InvSplits /\ InvShallow
  BY DEF Inv
<1>3. /\ phase = "finalize" /\ k <= Len(calls) /\ phase' = "finalize"
      /\ job' = [job EXCEPT !.at = k + 1] /\ source' = source /\ order' = order
      /\ todo' = todo /\ changed' = changed
      /\ program' = [program EXCEPT ![q] = SplitAt(@, calls[k], splits[k])]
  BY <1>1 DEF FinalizeSplit
<1>4. InJob /\ InJob' /\ phase # "split" /\ phase' # "split"
  BY <1>3 DEF InJob
<1>5. /\ q \in DOMAIN program /\ P \in ParserType /\ P = program[q]
      /\ CodeFits(program, P, J)
  BY <1>1, <1>2, <1>4, JobFacts DEF Caller
<1>7. /\ job \in JobType(DOMAIN source) /\ calls \in Seq(Name) /\ splits \in Seq(SplitType)
      /\ Len(calls) \in Nat /\ DOMAIN calls = 1..Len(calls)
      /\ Len(splits) = Len(calls) /\ DOMAIN splits = DOMAIN calls
      /\ k \in DOMAIN calls /\ k \in Nat \ {0}
  <2>1. job \in JobType(DOMAIN source)
    BY <1>2 DEF InvType
  <2>2. calls \in Seq(Name) /\ splits \in Seq(SplitType)
    BY <1>1, <2>1 DEF JobType
  <2>3. Len(splits) = Len(calls) /\ k \in 1..Len(calls) + 1
    BY <1>1, <1>2, <1>4 DEF InvJob
  <2>4. Len(calls) \in Nat /\ DOMAIN calls = 1..Len(calls) /\ DOMAIN splits = 1..Len(splits)
    BY <2>2, SeqFacts
  <2> QED BY <1>3, <2>1, <2>2, <2>3, <2>4
<1>8. /\ job' \in JobType(DOMAIN source)
      /\ job'.parser = q /\ job'.inst = inst /\ job'.calls = calls /\ job'.splits = splits
      /\ job'.at = k + 1
  <2>1. k + 1 \in Nat
    BY <1>7
  <2>2. /\ job'.parser = q /\ job'.inst = inst /\ job'.calls = calls /\ job'.splits = splits
        /\ job'.at = k + 1
    BY <1>1, <1>3, <1>7 DEF JobType
  <2>3. job' \in JobType(DOMAIN source)
    BY <1>1, <1>3, <1>7, <2>1 DEF JobType
  <2> QED BY <2>2, <2>3
<1>9. pending = {l \in DOMAIN calls : l >= k}
  OBVIOUS
<1>10. /\ Pending = pending /\ Pending' = pending \ {k}
       /\ Waiting = pending /\ Waiting' = pending \ {k}
       /\ Bare = {} /\ Bare' = {} /\ k \in pending /\ pending \subseteq DOMAIN calls
  <2>1. /\ Pending = pending /\ Waiting = pending
    BY <1>1, <1>3, <1>7, <1>9 DEF Pending, Waiting
  <2>2. /\ Pending' = {l \in DOMAIN calls : l >= k + 1} /\ Waiting' = {l \in DOMAIN calls : l >= k + 1}
    BY <1>3, <1>7, <1>8 DEF Pending, Waiting
  <2>3. {l \in DOMAIN calls : l >= k + 1} = pending \ {k} /\ k \in pending
    BY <1>7, <1>9
  <2>4. Bare = {} /\ Bare' = {}
    BY <1>3 DEF Bare
  <2> QED BY <1>9, <2>1, <2>2, <2>3, <2>4
<1> QED BY <1>3, <1>4, <1>5, <1>7, <1>8, <1>10

\* What the step does for the call of the j-th operation of the i-th state, which has
\* B as its pre and D as its post state.
FinalStep(q, P, inst, calls, splits, k, J, pending, i, j, B, D, R, Q) ==
  /\ i \in DOMAIN P.states /\ j \in DOMAIN P.states[i].ops
  /\ IsCallOf(P.states[i].ops[j], inst) /\ P.states[i].ops[j].res = calls[k] /\ calls[k] # NoValue
  /\ B \in DOMAIN P.states /\ P.states[B].name = splits[k].pre
  /\ D \in DOMAIN P.states /\ P.states[D].name = splits[k].post
  /\ i # B /\ i # D /\ B # D /\ IsUnfinished(P.states[D])
  /\ SplitNames(P, inst, splits) /\ SplitStates(P, splits, pending, {})
  /\ CopiesCallOthers(P, inst)
  /\ IsFinal(program, P, Q, J, calls[k]) /\ IsFinalizedBy(program, P, R, Q, J, i, j, B, D)
  /\ program' = [program EXCEPT ![q] = Q]

\* There are parts for every step FinalizeSplit.
LEMMA FinalizeHas ==
  ASSUME Inv, FinalizeSplit, NEW q, NEW P, NEW inst, NEW calls, NEW splits, NEW k, NEW J, NEW pending,
         q = job.parser, P = Caller, inst = job.inst, calls = job.calls, splits = job.splits,
         k = job.at, J = Lasting(job.parser), pending = {l \in DOMAIN calls : l >= k}
  PROVE  \E i, j, B, D, R, Q :
           FinalStep(q, P, inst, calls, splits, k, J, pending, i, j, B, D, R, Q)
<1>1. /\ q = job.parser /\ P = Caller /\ inst = job.inst
      /\ calls = job.calls /\ splits = job.splits /\ k = job.at /\ J = Lasting(job.parser)
  OBVIOUS
<1>9. pending = {l \in DOMAIN calls : l >= k}
  OBVIOUS
<1>2. InvType /\ InvCode /\ InvJob /\ InvSplits /\ InvShallow
  BY DEF Inv
<1>3. /\ phase = "finalize" /\ k <= Len(calls) /\ phase' = "finalize"
      /\ job' = [job EXCEPT !.at = k + 1] /\ source' = source /\ order' = order
      /\ todo' = todo /\ changed' = changed
      /\ program' = [program EXCEPT ![q] = SplitAt(@, calls[k], splits[k])]
  BY <1>1, <1>9, FinalizeFrame
<1>4. InJob /\ InJob' /\ phase # "split" /\ phase' # "split"
  BY <1>1, <1>3, <1>9, FinalizeFrame
<1>5. /\ q \in DOMAIN program /\ P \in ParserType /\ P = program[q]
      /\ CodeFits(program, P, J)
  BY <1>1, <1>9, FinalizeFrame
<1>7. /\ job \in JobType(DOMAIN source) /\ calls \in Seq(Name) /\ splits \in Seq(SplitType)
      /\ Len(calls) \in Nat /\ DOMAIN calls = 1..Len(calls)
      /\ Len(splits) = Len(calls) /\ DOMAIN splits = DOMAIN calls
      /\ k \in DOMAIN calls /\ k \in Nat \ {0}
  BY <1>1, <1>9, FinalizeFrame
<1>8. /\ job' \in JobType(DOMAIN source)
      /\ job'.parser = q /\ job'.inst = inst /\ job'.calls = calls /\ job'.splits = splits
      /\ job'.at = k + 1
  BY <1>1, <1>9, FinalizeFrame
<1>10. /\ Pending = pending /\ Pending' = pending \ {k}
       /\ Waiting = pending /\ Waiting' = pending \ {k}
       /\ Bare = {} /\ Bare' = {} /\ k \in pending /\ pending \subseteq DOMAIN calls
  BY <1>1, <1>9, FinalizeFrame
<1>11. calls[k] # NoValue
       /\ \E i \in DOMAIN P.states : \E j \in DOMAIN P.states[i].ops :
              /\ SiteOf(P, calls[k]) = P.states[i]
              /\ CallIn(P.states[i], calls[k]) = j
              /\ IsCallOf(P.states[i].ops[j], inst)
              /\ P.states[i].ops[j].res = calls[k]
  <2>1. k \in Pending
    BY <1>10
  <2> QED BY <1>1, <1>2, <1>4, <2>1, CallSite
<1>35. PICK i \in DOMAIN P.states : \E j \in DOMAIN P.states[i].ops :
              /\ SiteOf(P, calls[k]) = P.states[i]
              /\ CallIn(P.states[i], calls[k]) = j
              /\ IsCallOf(P.states[i].ops[j], inst)
              /\ P.states[i].ops[j].res = calls[k]
  BY <1>11
<1>12. PICK j \in DOMAIN P.states[i].ops :
              /\ SiteOf(P, calls[k]) = P.states[i]
              /\ CallIn(P.states[i], calls[k]) = j
              /\ IsCallOf(P.states[i].ops[j], inst)
              /\ P.states[i].ops[j].res = calls[k]
  BY <1>35
<1>13. J \in SUBSET Name
  BY <1>1, <1>5, ParserFacts DEF InstanceNames, Lasting
<1>14. /\ SplitNames(P, inst, splits) /\ SplitStates(P, splits, pending, {})
       /\ CopiesCallOthers(P, inst)
  BY <1>1, <1>2, <1>4, <1>10 DEF InvSplits
<1>15. PICK pre, post : pre = splits[k].pre /\ post = splits[k].post
  OBVIOUS
<1>16. pre \in StateNames(P) /\ post \in StateNames(P) /\ pre # post
  BY <1>7, <1>14, <1>15 DEF SplitNames
<1>17. PICK B \in DOMAIN P.states : P.states[B].name = pre
  BY <1>16 DEF StateNames
<1>18. PICK D \in DOMAIN P.states : P.states[D].name = post
  BY <1>16 DEF StateNames
<1>19. Calls(P.states[B]) = {} /\ IsUnfinished(P.states[D])
  BY <1>7, <1>10, <1>14, <1>15, <1>17, <1>18 DEF SplitStates
<1>20. CallOf(P.states[i].ops[j]) \in Calls(P.states[i])
  BY <1>12, CallsFacts DEF IsCallOf
<1>21. i # B /\ i # D /\ B # D
  BY <1>16, <1>17, <1>18, <1>19, <1>20, UnfinishedUses
<1>22. PICK Q : Q = SplitAt(P, calls[k], splits[k])
  OBVIOUS
<1>23. program' = [program EXCEPT ![q] = Q]
  BY <1>3, <1>5, <1>22
<1>24. IsFinal(program, P, Q, J, calls[k]) /\ \E R : IsFinalizedBy(program, P, R, Q, J, i, j, B, D)
  <2>1. P.states[D].ops = <<>>
    BY <1>19 DEF IsUnfinished
  <2>2. PICK split, id : split = splits[k] /\ id = calls[k]
    OBVIOUS
  <2>3. split.pre = P.states[B].name /\ split.post = P.states[D].name
    BY <1>15, <1>17, <1>18, <2>2
  <2>4. IsFinal(program, P, Q, J, id) /\ \E R : IsFinalizedBy(program, P, R, Q, J, i, j, B, D)
    <3>1. /\ P \in ParserType /\ CodeFits(program, P, J) /\ i \in DOMAIN P.states
          /\ id # NoValue /\ P.states[i].ops[j].res = id
          /\ SiteOf(P, id) = P.states[i] /\ CallIn(P.states[i], id) = j
      BY <1>5, <1>11, <1>12, <2>2
    <3>2. Q = SplitAt(P, id, split)
      BY <1>22, <2>2
    <3>3. j \in DOMAIN P.states[i].ops /\ B \in DOMAIN P.states /\ D \in DOMAIN P.states
      OBVIOUS
    <3> QED BY ONLY <1>13, <1>21, <2>1, <2>3, <3>1, <3>2, <3>3, FinalFits
  <2> QED BY <2>2, <2>4
<1>25. PICK R : IsFinalizedBy(program, P, R, Q, J, i, j, B, D)
  BY <1>24
<1>26. FinalStep(q, P, inst, calls, splits, k, J, pending, i, j, B, D, R, Q)
  BY <1>11, <1>12, <1>14, <1>15, <1>17, <1>18, <1>19, <1>21, <1>23, <1>24, <1>25 DEF FinalStep
<1> QED BY <1>26

\* FinalizeSplit preserves the invariant and keeps the calls.
LEMMA FinalizeInv ==
  ASSUME Inv, FinalizeSplit
  PROVE  Inv' /\ CallsKept
<1>1. PICK q, P, inst, calls, splits, k, J :
        /\ q = job.parser /\ P = Caller /\ inst = job.inst
        /\ calls = job.calls /\ splits = job.splits /\ k = job.at /\ J = Lasting(job.parser)
  OBVIOUS
<1>9. PICK pending : pending = {l \in DOMAIN calls : l >= k}
  OBVIOUS
<1>2. InvType /\ InvCode /\ InvJob /\ InvSplits /\ InvShallow
  BY DEF Inv
<1>3. /\ phase = "finalize" /\ k <= Len(calls) /\ phase' = "finalize"
      /\ job' = [job EXCEPT !.at = k + 1] /\ source' = source /\ order' = order
      /\ todo' = todo /\ changed' = changed
      /\ program' = [program EXCEPT ![q] = SplitAt(@, calls[k], splits[k])]
  BY <1>1, <1>9, FinalizeFrame
<1>4. InJob /\ InJob' /\ phase # "split" /\ phase' # "split"
  BY <1>1, <1>3, <1>9, FinalizeFrame
<1>5. /\ q \in DOMAIN program /\ P \in ParserType /\ P = program[q]
      /\ CodeFits(program, P, J)
  BY <1>1, <1>9, FinalizeFrame
<1>7. /\ job \in JobType(DOMAIN source) /\ calls \in Seq(Name) /\ splits \in Seq(SplitType)
      /\ Len(calls) \in Nat /\ DOMAIN calls = 1..Len(calls)
      /\ Len(splits) = Len(calls) /\ DOMAIN splits = DOMAIN calls
      /\ k \in DOMAIN calls /\ k \in Nat \ {0}
  BY <1>1, <1>9, FinalizeFrame
<1>8. /\ job' \in JobType(DOMAIN source)
      /\ job'.parser = q /\ job'.inst = inst /\ job'.calls = calls /\ job'.splits = splits
      /\ job'.at = k + 1
  BY <1>1, <1>9, FinalizeFrame
<1>10. /\ Pending = pending /\ Pending' = pending \ {k}
       /\ Waiting = pending /\ Waiting' = pending \ {k}
       /\ Bare = {} /\ Bare' = {} /\ k \in pending /\ pending \subseteq DOMAIN calls
  BY <1>1, <1>9, FinalizeFrame
<1>11. PICK i, j, B, D, R, Q :
          FinalStep(q, P, inst, calls, splits, k, J, pending, i, j, B, D, R, Q)
  BY <1>1, <1>9, FinalizeHas
<1>12. /\ i \in DOMAIN P.states /\ j \in DOMAIN P.states[i].ops /\ calls[k] # NoValue
       /\ IsCallOf(P.states[i].ops[j], inst) /\ P.states[i].ops[j].res = calls[k]
  BY <1>11 DEF FinalStep
<1>14. /\ SplitNames(P, inst, splits) /\ SplitStates(P, splits, pending, {})
       /\ CopiesCallOthers(P, inst)
  BY <1>11 DEF FinalStep
<1>15. B \in DOMAIN P.states /\ D \in DOMAIN P.states
  BY <1>11 DEF FinalStep
<1>17. P.states[B].name = splits[k].pre /\ P.states[D].name = splits[k].post
  BY <1>11 DEF FinalStep
<1>20. CallOf(P.states[i].ops[j]) \in Calls(P.states[i])
  BY <1>12, CallsFacts DEF IsCallOf
<1>23. program' = [program EXCEPT ![q] = Q]
  BY <1>11 DEF FinalStep
<1>24. IsFinal(program, P, Q, J, calls[k]) /\ IsCutAt(P, R, i, B, D) /\ Keeps(R, Q, B)
  BY <1>11 DEF FinalStep, IsFinalizedBy
<1>25. CodeFits(program, Q, J) /\ Q \in ParserType /\ Q.insts = P.insts /\ SameSignature(P, Q)
  BY <1>24 DEF IsFinal
<1>26. /\ DOMAIN program' = DOMAIN program /\ program'[q] = Q /\ Caller' = Q
  <2>1. DOMAIN program' = DOMAIN program /\ program'[q] = Q
    BY <1>2, <1>5, <1>23 DEF InvType
  <2> QED BY <1>8, <2>1 DEF Caller
<1>27. Lasting(q)' = J
  <2>1. Lasting(q)' = InstanceNames(Q) \ {inst}
    BY <1>3, <1>8, <1>26 DEF Lasting, Expanding
  <2>2. J = InstanceNames(P) \ {inst}
    BY <1>1, <1>3, <1>5 DEF Lasting, Expanding
  <2> QED BY <1>25, <2>1, <2>2 DEF InstanceNames
<1>28. InvCode' /\ program' \in [DOMAIN source -> ParserType]
  <2>1. \A p \in DOMAIN program : p # q => Lasting(p)' = Lasting(p)
    BY <1>1, <1>2, <1>8, <1>23, LastingOthers
  <2>2. KeepsRank(program, q, Q)
    BY <1>5, <1>25, SameInstsRank
  <2>3. SameSignature(program[q], Q) /\ CodeFits(program, Q, Lasting(q)')
    BY <1>5, <1>25, <1>27
  <2> QED BY <1>2, <1>5, <1>23, <1>25, <2>1, <2>2, <2>3, ParserStep
<1>29. InvType'
  <2>1. Len(job'.splits) <= Len(job'.calls) /\ job'.at \in 0..Len(job'.calls) + 1
    BY <1>7, <1>8
  <2> QED BY <1>2, <1>3, <1>8, <1>28, <2>1 DEF InvType
<1>30. /\ JobFits(program', Q, inst, calls, pending \ {k})
       /\ \A m \in DOMAIN Q.states : \A c \in Calls(Q.states[m]) :
            \E a \in DOMAIN P.states : c \in Calls(P.states[a])
  <2>1. JobFits(program, P, inst, calls, pending)
    BY <1>1, <1>2, <1>4, <1>10 DEF InvJob
  <2>2. PICK S : IsCutAway(P, S, calls[k]) /\ CallsStay(S, Q) /\ CallsStay(Q, S)
    BY <1>24 DEF IsFinal
  <2>3. PICK N : N = program'
    OBVIOUS
  <2>4. DOMAIN N = DOMAIN program /\ pending \in SUBSET DOMAIN calls /\ k \in pending /\ Q.insts = P.insts
    BY <1>10, <1>25, <1>26, <2>3
  <2>5. /\ JobFits(N, Q, inst, calls, pending \ {k})
        /\ \A m \in DOMAIN Q.states : \A c \in Calls(Q.states[m]) :
             \E a \in DOMAIN P.states : c \in Calls(P.states[a])
    BY ONLY <2>1, <2>2, <2>4, FinalJob
  <2> QED BY <2>3, <2>5
<1>31. InvJob'
  <2>1. job'.at \in 1..Len(job'.calls) + 1 /\ Len(job'.splits) = Len(job'.calls)
    BY <1>7, <1>8
  <2> QED BY <1>5, <1>8, <1>10, <1>26, <1>30, <2>1 DEF InvJob
<1>32. InvSplits'
  <2>1. IsCutAt(P, R, i, B, D) /\ Keeps(R, Q, B)
    BY <1>24
  <2>2. UniqueStates(P) /\ Calls(P.states[i]) # {}
    BY <1>5, <1>20 DEF CodeFits, HasNames
  <2>3. P.states[B].name = splits[k].pre /\ P.states[D].name = splits[k].post /\ k \in DOMAIN splits
    BY <1>7, <1>17
  <2>4. pending \in SUBSET DOMAIN splits
    BY <1>7, <1>10
  <2>5. /\ SplitNames(Q, inst, splits) /\ SplitStates(Q, splits, pending \ {k}, {})
        /\ CopiesCallOthers(Q, inst)
    BY ONLY <1>12, <1>14, <1>15, <2>1, <2>2, <2>3, <2>4, FinalSplits
  <2> QED BY <1>8, <1>10, <1>26, <2>5 DEF InvSplits
<1>33. InvFresh' /\ InvRound'
  BY <1>3 DEF InvFresh, InvRound
<1>34. InvShallow'
  <2> SUFFICES ASSUME NEW l \in DOMAIN calls, NEW s \in DOMAIN Q.states, NEW c \in Calls(Q.states[s]),
                      c.inst = inst, c.res = calls[l]
               PROVE  ~c.deep
    BY <1>8, <1>26 DEF InvShallow
  <2>1. PICK a \in DOMAIN P.states : c \in Calls(P.states[a])
    BY <1>30
  <2> QED BY <1>1, <1>2, <1>3, <2>1 DEF InvShallow
<1>36. CallsKept
  <2> SUFFICES ASSUME NEW p \in DOMAIN program, NEW a \in DOMAIN program[p].states,
                      NEW c \in Calls(program[p].states[a]), ~(p = q /\ c.inst = inst)
               PROVE  \E m \in DOMAIN program'[p].states : c \in Calls(program'[p].states[m])
    BY <1>1, <1>3 DEF CallsKept
  <2>1. CASE p # q
    <3>1. program'[p] = program[p]
      BY <1>2, <1>5, <1>23, <2>1 DEF InvType
    <3> QED BY <3>1
  <2>2. CASE p = q
    <3>1. PICK S : IsCutAway(P, S, calls[k]) /\ CallsStay(S, Q)
      BY <1>24 DEF IsFinal
    <3>2. c.res # calls[k]
      <4>1. PICK b \in DOMAIN P.states[a].ops : P.states[a].ops[b].op = "apply" /\ c = CallOf(P.states[a].ops[b])
        BY <1>5, <2>2, CallsFacts
      <4>2. SUFFICES ASSUME P.states[a].ops[b].res = calls[k] PROVE FALSE
        BY <4>1, CallOfFacts
      <4>3. SiteOf(P, calls[k]) = P.states[a] /\ CallIn(P.states[a], calls[k]) = b
        BY <1>5, <1>12, <2>2, <4>2, SiteFacts DEF CodeFits
      <4>4. c = CallOf(P.states[i].ops[j])
        <5>1. SiteOf(P, calls[k]) = P.states[i] /\ CallIn(P.states[i], calls[k]) = j
          BY <1>5, <1>12, SiteFacts DEF CodeFits
        <5> QED BY <4>1, <4>3, <5>1
      <4> QED BY <1>12, <2>2, <4>4, CallOfFacts DEF IsCallOf
    <3>3. PICK n \in DOMAIN S.states : c \in Calls(S.states[n])
      BY <1>5, <2>2, <3>1, <3>2 DEF IsCutAway
    <3> QED BY <1>26, <2>2, <3>1, <3>3 DEF CallsStay
  <2> QED BY <2>1, <2>2
<1> QED BY <1>36, <1>28, <1>29, <1>31, <1>32, <1>33, <1>34 DEF Inv

-----------------------------------------------------------------------------
(* The steps together *)

\* Stuttering preserves the invariant and keeps the calls.
LEMMA StutterInv ==
  ASSUME Inv, UNCHANGED vars
  PROVE  Inv' /\ CallsKept
<1>1. CallsKept
  BY DEF CallsKept, vars
<1>2. InvType' /\ InvCode' /\ InvJob'
  BY DEF Inv, vars, InvType, InvCode, InvJob, Lasting, Expanding, InJob, Caller, Pending
<1>3. InvSplits' /\ InvShallow' /\ InvRound'
  BY DEF Inv, vars, InvSplits, InvShallow, InvRound, InJob, Caller, Waiting, Bare
<1>4. InvFresh'
  <2>1. Caller' = Caller /\ Callee' = Callee /\ Lasting(job.parser)' = Lasting(job.parser)
    BY DEF vars, Caller, Callee, Inst, Lasting, Expanding
  <2> QED BY <2>1 DEF Inv, vars, InvFresh
<1> QED BY <1>1, <1>2, <1>3, <1>4 DEF Inv

\* EraseInstance keeps the calls.
LEMMA EraseKept ==
  ASSUME InvType, EraseInstance
  PROVE  CallsKept
<1>1. ASSUME NEW p \in DOMAIN program PROVE program'[p].states = program[p].states
  <2>1. program' = [program EXCEPT ![job.parser].insts =
                      Chosen(@, {i \in DOMAIN @ : @[i].name # job.inst})]
    BY DEF EraseInstance
  <2>2. program[p] \in ParserType
    BY DEF InvType
  <2> QED BY <2>1, <2>2 DEF InvType, ParserType
<1> QED BY <1>1 DEF CallsKept

\* A step that does not change the code keeps the calls.
LEMMA SameKept ==
  ASSUME program' = program
  PROVE  CallsKept
BY DEF CallsKept

\* Every step preserves the invariant and keeps the calls but for the one it finalizes.
LEMMA NextInv ==
  ASSUME Inv, [Next]_vars
  PROVE  Inv' /\ CallsKept
<1>1. CASE UNCHANGED vars
  BY <1>1, StutterInv
<1>2. CASE CollectInstances
  BY <1>2, CollectInv, SameKept DEF CollectInstances
<1>3. CASE VisitInstance
  BY <1>3, VisitInv, SameKept DEF VisitInstance, Visit
<1>4. CASE SkipInstance
  BY <1>4, SkipInv, SameKept DEF SkipInstance
<1>5. CASE SplitState
  BY <1>5, SplitInv
<1>6. CASE Cancel
  BY <1>6, CancelInv
<1>7. CASE CloneLocals
  BY <1>7, CloneLocalsInv
<1>8. CASE CloneStates
  BY <1>8, CloneStatesInv
<1>9. CASE AllCloned
  BY <1>9, AllClonedInv, SameKept DEF AllCloned
<1>10. CASE FinalizeSplit
  BY <1>10, FinalizeInv
<1>11. CASE EraseInstance
  BY <1>11, EraseInv, EraseKept DEF Inv
<1>12. CASE EndOfRound
  BY <1>12, EndOfRoundInv, SameKept DEF EndOfRound
<1>13. CASE Done
  BY <1>13, StutterInv DEF Done
<1> QED BY <1>1, <1>2, <1>3, <1>4, <1>5, <1>6, <1>7, <1>8, <1>9, <1>10, <1>11, <1>12, <1>13 DEF Next

\* The inductive invariant always holds.
THEOREM Invariance == Spec => []Inv
<1>1. Inv /\ [Next]_vars => Inv'
  BY NextInv
<1> QED BY <1>1, InitInv, PTL DEF Spec

\* Names of states and instances stay unique and every value is defined once, in
\* every parser and in every step of the pass: whatever suffixes and prefixes
\* UniqueName, promoteValToVar and the cloning of an instance make.
THEOREM TypeCorrect == Spec => []TypeOK
<1>1. ASSUME Inv PROVE TypeOK
  <2>1. InvType /\ InvCode
    BY <1>1 DEF Inv
  <2>2. ASSUME NEW p \in DOMAIN program
        PROVE  /\ IsInjective([i \in DOMAIN program[p].states |-> program[p].states[i].name])
               /\ IsInjective([i \in DOMAIN program[p].insts |-> program[p].insts[i].name])
               /\ IsSSA(program[p])
    <3>1. IsSSA(program[p]) /\ UniqueStates(program[p]) /\ UniqueInsts(program[p])
      BY <2>1 DEF InvCode, CodeFits, HasNames
    <3> QED BY <3>1 DEF IsInjective, UniqueStates, UniqueInsts
  <2> QED BY <2>1, <2>2 DEF TypeOK, InvType
<1> QED BY <1>1, Invariance, PTL

\* The calls of an instance, as operations and as records.
LEMMA CallsOfAndCalls ==
  ASSUME NEW P \in ParserType, NEW inst
  PROVE  /\ \A i \in DOMAIN P.states : \A c \in Calls(P.states[i]) : c.inst = inst =>
              \E o \in ToSet(CallsOf(P, inst)) : c = CallOf(o)
         /\ \A o \in ToSet(CallsOf(P, inst)) :
              \E i \in DOMAIN P.states : CallOf(o) \in Calls(P.states[i]) /\ CallOf(o).inst = inst
<1>1. \A o : o \in ToSet(CallsOf(P, inst)) <=>
              \E i \in DOMAIN P.states : \E j \in DOMAIN P.states[i].ops :
                o = P.states[i].ops[j] /\ IsCallOf(o, inst)
  BY CallsOfFacts
<1>2. ASSUME NEW i \in DOMAIN P.states, NEW c \in Calls(P.states[i]), c.inst = inst
      PROVE  \E o \in ToSet(CallsOf(P, inst)) : c = CallOf(o)
  <2>1. PICK j \in DOMAIN P.states[i].ops : P.states[i].ops[j].op = "apply" /\ c = CallOf(P.states[i].ops[j])
    BY CallsFacts
  <2>2. IsCallOf(P.states[i].ops[j], inst)
    BY <1>2, <2>1, CallOfFacts DEF IsCallOf
  <2> QED BY <1>1, <2>1, <2>2
<1>3. ASSUME NEW o \in ToSet(CallsOf(P, inst))
      PROVE  \E i \in DOMAIN P.states : CallOf(o) \in Calls(P.states[i]) /\ CallOf(o).inst = inst
  <2>1. PICK i \in DOMAIN P.states : \E j \in DOMAIN P.states[i].ops :
                o = P.states[i].ops[j] /\ IsCallOf(o, inst)
    BY <1>1
  <2> QED BY <2>1, CallsFacts, CallOfFacts DEF IsCallOf
<1> QED BY <1>2, <1>3

\* When the pass is done, every instance of a parser that is left has a call nested
\* in a conditional: no round ends early, and none forgets an instance.
THEOREM NothingLeftProved == Spec => []NothingLeft
<1>1. ASSUME Inv PROVE NothingLeft
  <2>1. InvType /\ InvRound
    BY <1>1 DEF Inv
  <2> SUFFICES ASSUME phase = "done", NEW p \in DOMAIN program, NEW x \in ToSet(program[p].insts),
                      x.callee \in DOMAIN program
               PROVE  \E o \in ToSet(CallsOf(program[p], x.name)) : o.deep
    BY DEF NothingLeft
  <2>2. HasDeep(program[p], x.name)
    <3>1. ToSet(todo) = {} /\ ~changed
      BY <2>1 DEF InvRound, ToSet
    <3> QED BY <2>1, <3>1 DEF InvRound
  <2>3. PICK i \in DOMAIN program[p].states : \E c \in Calls(program[p].states[i]) : c.inst = x.name /\ c.deep
    BY <2>2 DEF HasDeep
  <2>4. PICK c \in Calls(program[p].states[i]) : c.inst = x.name /\ c.deep
    BY <2>3
  <2>5. program[p] \in ParserType
    BY <2>1 DEF InvType
  <2>6. PICK o \in ToSet(CallsOf(program[p], x.name)) : c = CallOf(o)
    BY <2>4, <2>5, CallsOfAndCalls
  <2> QED BY <2>4, <2>6, CallOfFacts
<1> QED BY <1>1, Invariance, PTL

\* While a call of an instance is nested in a conditional, no call of that instance
\* disappears: either all calls of an instance are replaced or none is.
THEOREM AllOrNone == Spec => AllCallsOrNone
<1>1. ASSUME Inv, Inv', [Next]_vars
      PROVE  \A p \in DOMAIN program :
               \A inst \in ToSet(program[p].insts) :
                 (\E o \in ToSet(CallsOf(program[p], inst.name)) : o.deep) =>
                  {o.res : o \in ToSet(CallsOf(program[p], inst.name))}
                      \subseteq {o.res : o \in ToSet(CallsOf(program'[p], inst.name))}
  <2>1. InvType /\ InvType' /\ InvJob /\ InvShallow /\ CallsKept
    BY <1>1, NextInv DEF Inv
  <2> SUFFICES ASSUME NEW p \in DOMAIN program, NEW inst,
                      NEW d \in ToSet(CallsOf(program[p], inst)), d.deep,
                      NEW o \in ToSet(CallsOf(program[p], inst))
               PROVE  \E r \in ToSet(CallsOf(program'[p], inst)) : r.res = o.res
    OBVIOUS
  <2>2. PICK P, Q : P = program[p] /\ Q = program'[p]
    OBVIOUS
  <2>3. P \in ParserType /\ Q \in ParserType
    <3>1. DOMAIN program = DOMAIN source /\ source' = source
      BY <1>1, <2>1 DEF InvType, Next, vars, CollectInstances, VisitInstance, Visit, SkipInstance, SplitState,
         Cancel, CloneLocals, CloneStates, AllCloned, FinalizeSplit, EraseInstance, EndOfRound, Done
    <3> QED BY <2>1, <2>2, <3>1 DEF InvType
  <2>4. ~(phase = "finalize" /\ p = job.parser /\ inst = job.inst)
    <3> SUFFICES ASSUME phase = "finalize", p = job.parser, inst = job.inst PROVE FALSE
      OBVIOUS
    <3>1. PICK i \in DOMAIN P.states : CallOf(d) \in Calls(P.states[i]) /\ CallOf(d).inst = inst
      BY <2>2, <2>3, CallsOfAndCalls
    <3>2. PICK k \in Pending : CallOf(d).res = job.calls[k]
      BY <2>1, <2>2, <3>1 DEF InvJob, InJob, JobFits, Caller
    <3>3. ~CallOf(d).deep
      BY <2>1, <2>2, <3>1, <3>2 DEF InvShallow, Pending, Caller
    <3> QED BY <3>3, CallOfFacts
  <2>5. PICK i \in DOMAIN P.states : CallOf(o) \in Calls(P.states[i]) /\ CallOf(o).inst = inst
    BY <2>2, <2>3, CallsOfAndCalls
  <2>6. PICK m \in DOMAIN Q.states : CallOf(o) \in Calls(Q.states[m])
    BY <2>1, <2>2, <2>4, <2>5 DEF CallsKept
  <2>7. PICK r \in ToSet(CallsOf(Q, inst)) : CallOf(o) = CallOf(r)
    BY <2>3, <2>5, <2>6, CallsOfAndCalls
  <2>8. r.res = o.res
    BY <2>7, CallOfFacts
  <2> QED BY <2>2, <2>7, <2>8
<1>2. Inv /\ Inv' /\ [Next]_vars =>
        [\A p \in DOMAIN program :
          \A inst \in ToSet(program[p].insts) :
              (\E o \in ToSet(CallsOf(program[p], inst.name)) : o.deep) =>
                  {o.res : o \in ToSet(CallsOf(program[p], inst.name))}
                      \subseteq {o.res : o \in ToSet(CallsOf(program'[p], inst.name))}]_vars
  BY <1>1
<1> QED BY <1>2, Invariance, PTL DEF Spec, AllCallsOrNone

-----------------------------------------------------------------------------
(* What makes code valid *)

\* Nothing is owed to any state.
NoDebts == [n \in Name |-> {}]

\* Each operation has its operands from above or from outside, but for the debts.
IsFed(P, D) ==
  /\ CodeFed(P.top, ToSet(P.params))
  /\ \A i \in DOMAIN P.states : Fed(P.states[i], OuterValues(P) \cup D[P.states[i].name])

\* Transitions lead to states that are not hidden, only loose states have none.
HasTargets(P, hidden, loose) ==
  /\ P.start \in StateNames(P) \ hidden
  /\ \A i \in DOMAIN P.states :
       /\ ToSet(P.states[i].next.targets) \subseteq StateNames(P) \ hidden
       /\ P.states[i].next.kind = "missing" => P.states[i].name \in loose

\* What is computed is in the code, what is computed before is above.
LEMMA ComputedFacts ==
  ASSUME NEW ops \in Seq(Operation)
  PROVE  /\ \A v : v \in Computed(ops) <=> InCode(ops, v)
         /\ \A j \in DOMAIN ops : \A v : v \in Computed(SubSeq(ops, 1, j - 1)) <=> Above(ops, j, v)
<1>1. \A new : \A v : v \in Computed(new) <=> InCode(new, v)
  BY DEF Computed, InCode, Produces
<1>2. ASSUME NEW j \in DOMAIN ops, NEW v
      PROVE  v \in Computed(SubSeq(ops, 1, j - 1)) <=> Above(ops, j, v)
  <2>1. Len(ops) \in Nat /\ DOMAIN ops = 1..Len(ops) /\ j - 1 \in 0..Len(ops)
    BY <1>2, SeqFacts
  <2>2. PICK new : new = SubSeq(ops, 1, j - 1)
    OBVIOUS
  <2>3. new \in Seq(Operation) /\ Len(new) = j - 1 /\ \A n \in 1..j - 1 : new[n] = ops[n]
    BY <2>1, <2>2, Prefix
  <2>4. DOMAIN new = 1..j - 1
    BY <2>3, SeqFacts
  <2>5. \A n \in DOMAIN ops : n < j <=> n \in DOMAIN new
    BY ONLY <2>1, <2>4, j \in DOMAIN ops
  <2>6. \A n \in DOMAIN new : n \in DOMAIN ops
    BY ONLY <2>1, <2>4, j \in DOMAIN ops
  <2>7. InCode(new, v) <=> Above(ops, j, v)
    BY <2>3, <2>4, <2>5, <2>6 DEF InCode, Above
  <2> QED BY <1>1, <2>2, <2>7
<1> QED BY <1>1, <1>2

\* The two ways to say that code is fed agree.
LEMMA UsesBeforeFacts ==
  ASSUME NEW ops \in Seq(Operation), NEW O
  PROVE  UsesBefore(ops, O) <=> CodeFed(ops, O)
<1>1. \A j \in DOMAIN ops : \A v : v \in O \cup Computed(SubSeq(ops, 1, j - 1)) <=> Given(ops, j, O, v)
  <2> TAKE j \in DOMAIN ops
  <2>1. \A v : v \in Computed(SubSeq(ops, 1, j - 1)) <=> Above(ops, j, v)
    BY ComputedFacts
  <2> QED BY ONLY <2>1 DEF Given
<1>2. \A j \in DOMAIN ops : ops[j].args \in Seq(Name)
  BY SeqFacts, OpFacts
<1>3. ASSUME NEW j \in DOMAIN ops
      PROVE  ToSet(ops[j].args) \subseteq O \cup Computed(SubSeq(ops, 1, j - 1))
               <=> \A a \in DOMAIN ops[j].args : Given(ops, j, O, ops[j].args[a])
  <2>1. /\ \A a \in DOMAIN ops[j].args : ops[j].args[a] \in ToSet(ops[j].args)
        /\ \A v \in ToSet(ops[j].args) : \E a \in DOMAIN ops[j].args : ops[j].args[a] = v
    BY <1>2, SeqFacts
  <2> QED BY <1>1, <2>1
<1> QED BY <1>3 DEF UsesBefore, CodeFed

\* Valid code is code that is fed without debts and has its targets.
LEMMA ValidFacts ==
  ASSUME NEW P \in ParserType, HasKinds(P)
  PROVE  IsValid(P) <=> IsFed(P, NoDebts) /\ HasTargets(P, {}, {}) /\ CallsKnown(P)
<1>1. /\ P.top \in Seq(Operation) /\ P.states \in Seq(StateType)
      /\ \A i \in DOMAIN P.states :
           P.states[i] \in StateType /\ P.states[i].name \in Name /\ P.states[i].ops \in Seq(Operation)
  BY ParserFacts
<1>2. PICK O : O = ToSet(P.params) \cup Computed(P.top)
  OBVIOUS
<1>3. O = OuterValues(P)
  <2>1. \A j \in DOMAIN P.top : P.top[j].op # "apply"
    <3>1. \A j \in DOMAIN P.top : P.top[j] \in ToSet(P.top)
      BY <1>1, SeqFacts
    <3> QED BY <3>1, KindsFacts
  <2>2. \A v : v \in Computed(P.top) <=> v \in Results(P.top)
    <3>1. \A v : v \in Computed(P.top) <=> InCode(P.top, v)
      BY <1>1, ComputedFacts
    <3>2. \A v : InCode(P.top, v) <=> v \in Results(P.top)
      BY <2>1, InCodeResults
    <3> QED BY <3>1, <3>2
  <2> QED BY <1>2, <2>2 DEF OuterValues
<1>4. UsesBefore(P.top, ToSet(P.params)) <=> CodeFed(P.top, ToSet(P.params))
  BY <1>1, UsesBeforeFacts
<1>5. ASSUME NEW i \in DOMAIN P.states, NEW s, s = P.states[i]
      PROVE  /\ UsesBefore(s.ops, O) /\ UsesIn(s) \subseteq O \cup Computed(s.ops)
                <=> Fed(s, OuterValues(P) \cup NoDebts[s.name])
             /\ (\A o \in ToSet(s.ops) : o.op = "apply" => o.inst \in InstanceNames(P))
                <=> \A c \in Calls(s) : c.inst \in InstanceNames(P)
  <2>1. s \in StateType /\ s.ops \in Seq(Operation) /\ s.name \in Name
    BY <1>1, <1>5
  <2>2. OuterValues(P) \cup NoDebts[s.name] = O
    BY <1>3, <2>1 DEF NoDebts
  <2>3. UsesBefore(s.ops, O) <=> CodeFed(s.ops, O)
    BY <2>1, UsesBeforeFacts
  <2>4. \A v : v \in Computed(s.ops) <=> InCode(s.ops, v)
    BY <2>1, ComputedFacts
  <2>5. UsesIn(s) \subseteq O \cup Computed(s.ops) => NextFed(s, O)
    BY <2>1, <2>4, UsesFacts DEF NextFed
  <2>6. Fed(s, O) => UsesIn(s) \subseteq O \cup Computed(s.ops)
    BY <2>1, <2>4, FedUses
  <2>7. UsesBefore(s.ops, O) /\ UsesIn(s) \subseteq O \cup Computed(s.ops) <=> Fed(s, O)
    BY <2>3, <2>5, <2>6 DEF Fed
  <2>8. (\A o \in ToSet(s.ops) : o.op = "apply" => o.inst \in InstanceNames(P))
           <=> \A j \in DOMAIN s.ops : s.ops[j].op = "apply" => s.ops[j].inst \in InstanceNames(P)
    BY <2>1, SeqFacts
  <2>9. (\A c \in Calls(s) : c.inst \in InstanceNames(P))
           <=> \A j \in DOMAIN s.ops : s.ops[j].op = "apply" => s.ops[j].inst \in InstanceNames(P)
    BY CallsFacts, CallOfFacts
  <2> QED BY <2>2, <2>7, <2>8, <2>9
<1>6. IsValid(P) <=>
        /\ UsesBefore(P.top, ToSet(P.params))
        /\ P.start \in StateNames(P)
        /\ \A i \in DOMAIN P.states :
             /\ UsesBefore(P.states[i].ops, O)
             /\ UsesIn(P.states[i]) \subseteq O \cup Computed(P.states[i].ops)
             /\ \A o \in ToSet(P.states[i].ops) : o.op = "apply" => o.inst \in InstanceNames(P)
             /\ P.states[i].next.kind # "missing"
             /\ ToSet(P.states[i].next.targets) \subseteq StateNames(P)
  BY <1>2 DEF IsValid
<1>7. \A i \in DOMAIN P.states :
        /\ UsesBefore(P.states[i].ops, O) /\ UsesIn(P.states[i]) \subseteq O \cup Computed(P.states[i].ops)
           <=> Fed(P.states[i], OuterValues(P) \cup NoDebts[P.states[i].name])
        /\ (\A o \in ToSet(P.states[i].ops) : o.op = "apply" => o.inst \in InstanceNames(P))
           <=> \A c \in Calls(P.states[i]) : c.inst \in InstanceNames(P)
  BY <1>5
<1> QED BY <1>4, <1>6, <1>7 DEF IsFed, HasTargets, CallsKnown

-----------------------------------------------------------------------------
(* Valid code between the steps *)

\* A value of the state with a call, from above the call.
IsAhead(P, id, v) == \E i \in DOMAIN P.states : AheadIn(P.states[i], id, v)

\* A value of a state with a name.
IsIn(P, n, v) == \E i \in DOMAIN P.states : P.states[i].name = n /\ InCode(P.states[i].ops, v)

\* What a state will have once the code before the pending calls is in their pre
\* states: these begin with it, the copies take it from there.
IsOwed(P, C, inst, many, calls, splits, pending, n, v) ==
  \E k \in pending :
    \/ n = splits[k].pre /\ IsAhead(P, calls[k], v)
    \/ /\ \E t \in StateNames(C) : n = CopyName(inst, many, k, t)
       /\ IsAhead(P, calls[k], v) \/ IsIn(P, splits[k].pre, v)

\* The debts of the pending calls.
Owed(P, C, inst, many, calls, splits, pending) ==
  [n \in Name |-> {v \in Name : IsOwed(P, C, inst, many, calls, splits, pending, n, v)}]

\* The values that the states of p wait for.
Debts(p) ==
  IF Expanding(p)
  THEN Owed(Caller, Callee, job.inst, Len(job.calls) > 1, job.calls, job.splits, Pending)
  ELSE NoDebts

\* Every use has its value, or the finalizing of a split will bring it.
InvUses == \A p \in DOMAIN program : IsFed(program[p], Debts(p))

\* No transition leads to a state that may still go.
Hidden(p) == IF phase = "split" /\ p = job.parser THEN Created ELSE {}

\* The states that are not finished.
Loose(p) ==
  IF InJob /\ p = job.parser
  THEN {job.splits[k].post : k \in Waiting} \cup {job.splits[k].pre : k \in Bare}
  ELSE {}

\* Every transition has its target and every finished state its transition.
InvTargets == \A p \in DOMAIN program : HasTargets(program[p], Hidden(p), Loose(p))

InvValid == InvUses /\ InvTargets

\* Without pending calls nothing is owed.
LEMMA NoneOwed ==
  ASSUME NEW P, NEW C, NEW inst, NEW many, NEW calls, NEW splits
  PROVE  Owed(P, C, inst, many, calls, splits, {}) = NoDebts
<1>1. PICK f : f = Owed(P, C, inst, many, calls, splits, {})
  OBVIOUS
<1>2. f = [n \in Name |-> {v \in Name : IsOwed(P, C, inst, many, calls, splits, {}, n, v)}]
  BY <1>1 DEF Owed
<1>3. \A n \in Name : f[n] = {}
  BY <1>2 DEF IsOwed
<1>4. f = [n \in Name |-> f[n]]
  BY <1>2
<1>5. f = NoDebts
  BY <1>3, <1>4 DEF NoDebts
<1> QED BY <1>1, <1>5

\* Debts are only made while an instance is replaced.
LEMMA IdleDebts ==
  ASSUME phase \notin {"clone", "finalize"}
  PROVE  \A p : Debts(p) = NoDebts
BY DEF Debts, Expanding

\* The same after a step.
LEMMA IdleDebtsNext ==
  ASSUME phase' \notin {"clone", "finalize"}
  PROVE  \A p : Debts(p)' = NoDebts
BY DEF Debts, Expanding, NoDebts

\* States are only hidden or loose while an instance is replaced.
LEMMA IdleTargets ==
  ASSUME phase \notin {"split", "clone", "finalize"}
  PROVE  \A p : Hidden(p) = {} /\ Loose(p) = {}
BY DEF Hidden, Loose, InJob

\* The same after a step.
LEMMA IdleTargetsNext ==
  ASSUME phase' \notin {"split", "clone", "finalize"}
  PROVE  \A p : Hidden(p)' = {} /\ Loose(p)' = {}
BY DEF Hidden, Loose, InJob

\* The parsers that are not worked on.
LEMMA OtherDebts ==
  ASSUME NEW p, p # job.parser
  PROVE  Debts(p) = NoDebts /\ Hidden(p) = {} /\ Loose(p) = {}
BY DEF Debts, Expanding, Hidden, Loose

\* The same after a step.
LEMMA OtherDebtsNext ==
  ASSUME NEW p, p # job'.parser
  PROVE  Debts(p)' = NoDebts /\ Hidden(p)' = {} /\ Loose(p)' = {}
BY DEF Debts, Expanding, Hidden, Loose, NoDebts

\* One parser changes.
LEMMA OneValid ==
  ASSUME InvType, InvValid, NEW q \in DOMAIN program, q = job.parser, NEW Q,
         program' = [program EXCEPT ![q] = Q],
         job'.parser = q \/ phase' \notin {"split", "clone", "finalize"},
         IsFed(Q, Debts(q)'), HasTargets(Q, Hidden(q)', Loose(q)')
  PROVE  InvValid'
<1>1. DOMAIN program' = DOMAIN program /\ program'[q] = Q
      /\ \A p \in DOMAIN program : p # q => program'[p] = program[p]
  OBVIOUS
<1>2. ASSUME NEW p \in DOMAIN program
      PROVE  IsFed(program'[p], Debts(p)') /\ HasTargets(program'[p], Hidden(p)', Loose(p)')
  <2>1. CASE p = q
    BY <1>1, <2>1
  <2>2. CASE p # q
    <3>1. Debts(p) = NoDebts /\ Hidden(p) = {} /\ Loose(p) = {}
      BY <2>2, OtherDebts
    <3>2. Debts(p)' = NoDebts /\ Hidden(p)' = {} /\ Loose(p)' = {}
      BY <2>2, OtherDebtsNext, IdleDebtsNext, IdleTargetsNext
    <3>3. IsFed(program[p], NoDebts) /\ HasTargets(program[p], {}, {})
      BY <3>1 DEF InvValid, InvUses, InvTargets
    <3> QED BY <1>1, <2>2, <3>2, <3>3
  <2> QED BY <2>1, <2>2
<1> QED BY <1>1, <1>2 DEF InvValid, InvUses, InvTargets

\* The program stays.
LEMMA SameValid ==
  ASSUME InvValid, program' = program,
         \A p \in DOMAIN program :
           Debts(p)' = Debts(p) /\ Hidden(p)' = Hidden(p) /\ Loose(p)' = Loose(p)
  PROVE  InvValid'
<1>1. ASSUME NEW p \in DOMAIN program
      PROVE  IsFed(program'[p], Debts(p)') /\ HasTargets(program'[p], Hidden(p)', Loose(p)')
  <2>1. IsFed(program[p], Debts(p)) /\ HasTargets(program[p], Hidden(p), Loose(p))
    BY DEF InvValid, InvUses, InvTargets
  <2> QED BY <2>1
<1> QED BY <1>1 DEF InvValid, InvUses, InvTargets

-----------------------------------------------------------------------------
(* The beginning, and the steps that leave the code alone *)

\* A module is valid when the pass begins.
LEMMA InitValid ==
  ASSUME Init
  PROVE  InvValid
<1>1. IsModule(program) /\ phase = "collect"
  BY ProgramsAssumption DEF Init
<1>2. ASSUME NEW p \in DOMAIN program
      PROVE  IsFed(program[p], NoDebts) /\ HasTargets(program[p], {}, {})
  <2>1. program[p] \in ParserType /\ HasKinds(program[p]) /\ IsValid(program[p])
    BY <1>1 DEF IsModule
  <2> QED BY <2>1, ValidFacts
<1>3. \A p : Debts(p) = NoDebts /\ Hidden(p) = {} /\ Loose(p) = {}
  BY <1>1, IdleDebts, IdleTargets
<1> QED BY <1>2, <1>3 DEF InvValid, InvUses, InvTargets

\* A step between the jobs that does not touch the program keeps it valid.
LEMMA IdleValid ==
  ASSUME InvValid, program' = program,
         phase \notin {"split", "clone", "finalize"}, phase' \notin {"split", "clone", "finalize"}
  PROVE  InvValid'
<1>1. \A p : Debts(p)' = Debts(p)
  BY IdleDebts, IdleDebtsNext
<1>2. \A p : Hidden(p)' = Hidden(p) /\ Loose(p)' = Loose(p)
  BY IdleTargets, IdleTargetsNext
<1> QED BY <1>1, <1>2, SameValid

\* VisitInstance keeps the code valid.
LEMMA VisitValid ==
  ASSUME InvValid, VisitInstance
  PROVE  InvValid'
<1>1. program' = program /\ phase = "visit" /\ phase' = "split" /\ job'.splits = <<>>
  <2>1. job' = [NoJob EXCEPT !.parser = Head(todo)[1], !.inst = Head(todo)[2],
                             !.calls = [k \in DOMAIN CallsOf(program[Head(todo)[1]], Head(todo)[2]) |->
                                          CallsOf(program[Head(todo)[1]], Head(todo)[2])[k].res]]
    BY DEF VisitInstance, Visit
  <2> QED BY <2>1 DEF VisitInstance, Visit, NoJob
<1>2. \A p : Debts(p)' = Debts(p)
  BY <1>1, IdleDebts, IdleDebtsNext
<1>3. DOMAIN job'.splits = {}
  BY <1>1
<1>4. \A p : Hidden(p)' = {}
  BY <1>3 DEF Hidden, Created
<1>5. \A p : Loose(p)' = {}
  BY <1>3 DEF Loose, Waiting, Bare
<1>6. \A p : Hidden(p)' = Hidden(p) /\ Loose(p)' = Loose(p)
  BY <1>1, <1>4, <1>5, IdleTargets
<1> QED BY <1>1, <1>2, <1>6, SameValid

\* AllCloned keeps the code valid.
LEMMA AllClonedValid ==
  ASSUME InvType, InvJob, InvValid, AllCloned
  PROVE  InvValid'
<1>1. /\ program' = program /\ phase = "clone" /\ phase' = "finalize" /\ job.at > Len(job.calls)
      /\ job' = [job EXCEPT !.at = 1]
  BY DEF AllCloned
<1>2. job \in JobType(DOMAIN source)
  BY DEF InvType
<1>3. /\ job'.parser = job.parser /\ job'.inst = job.inst /\ job'.calls = job.calls
      /\ job'.splits = job.splits /\ job'.at = 1
  BY <1>1, <1>2 DEF JobType
<1>4. /\ Len(job.calls) \in Nat /\ DOMAIN job.calls = 1..Len(job.calls)
      /\ Len(job.splits) \in Nat /\ DOMAIN job.splits = 1..Len(job.splits)
      /\ Len(job.splits) = Len(job.calls) /\ job.at \in Nat
  <2>1. job.calls \in Seq(Name) /\ job.splits \in Seq(SplitType) /\ job.at \in Nat
    BY <1>2 DEF JobType
  <2>2. Len(job.splits) = Len(job.calls)
    BY <1>1 DEF InvJob, InJob
  <2> QED BY <2>1, <2>2, SeqFacts
<1>5. Pending' = Pending /\ Waiting' = Waiting
  <2>1. Pending = DOMAIN job.calls /\ Waiting = DOMAIN job.splits
    BY <1>1 DEF Pending, Waiting
  <2>2. Pending' = {k \in DOMAIN job.calls : k >= 1} /\ Waiting' = {k \in DOMAIN job.splits : k >= 1}
    BY <1>1, <1>3 DEF Pending, Waiting
  <2>3. \A k \in DOMAIN job.calls : k >= 1
    BY <1>4
  <2>4. \A k \in DOMAIN job.splits : k >= 1
    BY <1>4
  <2> QED BY ONLY <2>1, <2>2, <2>3, <2>4
<1>6. Bare' = Bare
  <2>1. Bare = {}
    BY <1>1, <1>4 DEF Bare
  <2>2. Bare' = {}
    BY <1>1 DEF Bare
  <2> QED BY <2>1, <2>2
<1>7. \A p : Debts(p)' = Debts(p)
  BY <1>1, <1>3, <1>5 DEF Debts, Expanding, Caller, Callee, Inst, NoDebts, Owed
<1>8. \A p : Hidden(p)' = Hidden(p)
  BY <1>1 DEF Hidden
<1>9. \A p : Loose(p)' = Loose(p)
  BY <1>1, <1>3, <1>5, <1>6 DEF Loose, InJob
<1> QED BY <1>1, <1>7, <1>8, <1>9, SameValid

\* EraseInstance keeps the code valid.
LEMMA EraseValid ==
  ASSUME Inv, InvValid, EraseInstance
  PROVE  InvValid'
<1>1. PICK q, P, Q : /\ q = job.parser /\ P = program[q]
                     /\ Q = [P EXCEPT !.insts = Chosen(@, {i \in DOMAIN @ : @[i].name # job.inst})]
  OBVIOUS
<1>2. /\ phase = "finalize" /\ phase' = "visit" /\ program' = [program EXCEPT ![q] = Q]
      /\ job.at > Len(job.calls)
  BY <1>1 DEF EraseInstance
<1>3. q \in DOMAIN program /\ P \in ParserType /\ Len(job.splits) = Len(job.calls)
  <2>1. q \in DOMAIN program /\ Len(job.splits) = Len(job.calls)
    BY <1>1, <1>2 DEF Inv, InvJob, InJob
  <2> QED BY <1>1, <2>1 DEF Inv, InvType
<1>4. /\ job.calls \in Seq(Name) /\ job.splits \in Seq(SplitType) /\ job.at \in Nat
  BY DEF Inv, InvType, JobType
<1>5. /\ Len(job.calls) \in Nat /\ DOMAIN job.calls = 1..Len(job.calls)
      /\ DOMAIN job.splits = 1..Len(job.splits)
  BY <1>4, SeqFacts
<1>6. Pending = {} /\ Waiting = {} /\ Bare = {}
  BY <1>2, <1>3, <1>4, <1>5 DEF Pending, Waiting, Bare
<1>7. Debts(q) = NoDebts
  BY <1>6, NoneOwed DEF Debts
<1>8. Hidden(q) = {} /\ Loose(q) = {}
  BY <1>2, <1>6 DEF Hidden, Loose
<1>9. Q.params = P.params /\ Q.top = P.top /\ Q.states = P.states /\ Q.start = P.start
  BY <1>1, <1>3 DEF ParserType
<1>10. IsFed(P, NoDebts) /\ HasTargets(P, {}, {})
  BY <1>1, <1>3, <1>7, <1>8 DEF InvValid, InvUses, InvTargets
<1>11. IsFed(Q, NoDebts) /\ HasTargets(Q, {}, {})
  BY <1>9, <1>10 DEF IsFed, HasTargets, OuterValues, StateNames
<1>12. Debts(q)' = NoDebts /\ Hidden(q)' = {} /\ Loose(q)' = {}
  BY <1>2, IdleDebtsNext, IdleTargetsNext
<1> QED BY <1>1, <1>2, <1>3, <1>11, <1>12, OneValid DEF Inv

-----------------------------------------------------------------------------
(* Splitting and giving up *)

\* A state without code uses nothing and leads nowhere.
LEMMA UnfinishedFed ==
  ASSUME NEW s, IsUnfinished(s), NEW O
  PROVE  Fed(s, O) /\ s.next.targets = <<>> /\ ToSet(s.next.targets) = {}
<1>1. s.ops = <<>> /\ s.next.kind = "missing" /\ s.next.targets = <<>>
  BY DEF IsUnfinished, Missing, NextTo
<1>2. DOMAIN s.ops = {} /\ DOMAIN s.next.targets = {}
  BY <1>1
<1>3. ToSet(s.next.targets) = {}
  BY <1>2 DEF ToSet
<1> QED BY <1>1, <1>2, <1>3 DEF Fed, CodeFed, NextFed

\* Two new states are hidden and loose; the other code is as valid as it was.
LEMMA SplitHas ==
  ASSUME NEW P, NEW Q, NEW pre, NEW post, HasSplit(P, Q, pre, post),
         Q.params = P.params, Q.top = P.top, Q.start = P.start,
         pre \notin StateNames(P), post \notin StateNames(P),
         P \in ParserType, IsFed(P, NoDebts), NEW hidden, NEW loose, HasTargets(P, hidden, loose),
         NEW hides, hides = hidden \cup {pre, post}, NEW more, more = loose \cup {pre, post}
  PROVE  IsFed(Q, NoDebts) /\ HasTargets(Q, hides, more)
<1>1. OuterValues(Q) = OuterValues(P)
  BY DEF OuterValues
<1>2. StateNames(P) \ hidden \subseteq StateNames(Q) \ hides
  BY DEF HasSplit
<1>3. ASSUME NEW m \in DOMAIN Q.states
      PROVE  /\ Fed(Q.states[m], OuterValues(Q) \cup NoDebts[Q.states[m].name])
             /\ ToSet(Q.states[m].next.targets) \subseteq StateNames(P) \ hidden
             /\ Q.states[m].next.kind = "missing" => Q.states[m].name \in more
  <2>1. CASE \E i \in DOMAIN P.states : Q.states[m] = P.states[i]
    BY <1>1, <2>1 DEF IsFed, HasTargets
  <2>2. CASE Q.states[m].name \in {pre, post} /\ IsUnfinished(Q.states[m])
    <3>1. Fed(Q.states[m], OuterValues(Q) \cup NoDebts[Q.states[m].name]) /\ ToSet(Q.states[m].next.targets) = {}
      BY <2>2, UnfinishedFed
    <3> QED BY <2>2, <3>1
  <2> QED BY <2>1, <2>2 DEF HasSplit
<1>4. CodeFed(Q.top, ToSet(Q.params)) /\ Q.start \in StateNames(P) \ hidden
  BY DEF IsFed, HasTargets
<1> QED BY <1>2, <1>3, <1>4 DEF IsFed, HasTargets

\* The names of the states that were created, one more time.
LEMMA CreatedMore ==
  ASSUME NEW S, NEW splits \in Seq(S), NEW s \in S, NEW more, more = Append(splits, s)
  PROVE  UNION {{more[k].pre, more[k].post} : k \in DOMAIN more}
           = (UNION {{splits[k].pre, splits[k].post} : k \in DOMAIN splits}) \cup {s.pre, s.post}
<1>1. /\ DOMAIN more = DOMAIN splits \cup {Len(splits) + 1} /\ more[Len(splits) + 1] = s
      /\ \A k \in DOMAIN splits : more[k] = splits[k]
  <2>1. Len(splits) \in Nat /\ DOMAIN splits = 1..Len(splits)
    BY SeqFacts
  <2>2. DOMAIN more = 1..Len(splits) + 1
    OBVIOUS
  <2>3. 1..Len(splits) + 1 = 1..Len(splits) \cup {Len(splits) + 1}
    BY <2>1
  <2> QED BY <2>1, <2>2, <2>3
<1>2. ASSUME NEW x
      PROVE  x \in UNION {{more[k].pre, more[k].post} : k \in DOMAIN more}
               <=> x \in (UNION {{splits[k].pre, splits[k].post} : k \in DOMAIN splits}) \cup {s.pre, s.post}
  <2>1. x \in UNION {{more[k].pre, more[k].post} : k \in DOMAIN more}
          <=> \E k \in DOMAIN more : x \in {more[k].pre, more[k].post}
    OBVIOUS
  <2>2. x \in UNION {{splits[k].pre, splits[k].post} : k \in DOMAIN splits}
          <=> \E k \in DOMAIN splits : x \in {splits[k].pre, splits[k].post}
    OBVIOUS
  <2>3. (\E k \in DOMAIN more : x \in {more[k].pre, more[k].post})
          <=> (\E k \in DOMAIN splits : x \in {splits[k].pre, splits[k].post}) \/ x \in {s.pre, s.post}
    BY ONLY <1>1
  <2> QED BY ONLY <2>1, <2>2, <2>3
<1> QED BY <1>2

\* While splits are made every state of a split is loose.
LEMMA AllLoose ==
  ASSUME NEW splits
  PROVE  {splits[k].post : k \in DOMAIN splits} \cup {splits[k].pre : k \in DOMAIN splits}
           = UNION {{splits[k].pre, splits[k].post} : k \in DOMAIN splits}
OBVIOUS

\* While states are split, the created ones are hidden and loose.
LEMMA SplitLoose ==
  ASSUME phase = "split"
  PROVE  Hidden(job.parser) = Created /\ Loose(job.parser) = Created
<1>1. Waiting = DOMAIN job.splits /\ Bare = DOMAIN job.splits
  BY DEF Waiting, Bare
<1> QED BY <1>1, AllLoose DEF Hidden, Loose, Created, InJob

\* The same after a step.
LEMMA SplitLooseNext ==
  ASSUME phase' = "split", NEW q, q = job'.parser
  PROVE  Hidden(q)' = Created' /\ Loose(q)' = Created'
<1>1. Waiting' = DOMAIN job'.splits /\ Bare' = DOMAIN job'.splits
  BY DEF Waiting, Bare
<1> QED BY <1>1, AllLoose DEF Hidden, Loose, Created, InJob

\* SplitState keeps the code valid but for the created states.
LEMMA SplitValid ==
  ASSUME Inv, InvValid, SplitState
  PROVE  InvValid'
<1>1. PICK q, P, calls, splits, k :
        /\ q = job.parser /\ P = Caller /\ calls = job.calls
        /\ splits = job.splits /\ k = Len(job.splits) + 1
  OBVIOUS
<1>2. InvType /\ InvCode /\ InvJob
  BY DEF Inv
<1>3. PICK site : site = SiteOf(P, calls[k])
  OBVIOUS
<1>4. PICK pre, post : /\ pre = UniqueName(P, site.name \o <<"pre">>)
                       /\ post = UniqueName(P, site.name \o <<"post">>)
  OBVIOUS
<1>5. /\ phase = "split" /\ k <= Len(calls) /\ phase' = "split"
      /\ program' = [program EXCEPT ![q] =
              InsertStates(@, site.name, <<ParserState(pre, <<>>, Missing),
                                           ParserState(post, <<>>, Missing)>>)]
      /\ job' = [job EXCEPT !.splits = Append(@, [pre |-> pre, post |-> post])]
  BY <1>1, <1>3, <1>4 DEF SplitState
<1>6. InJob
  BY <1>5 DEF InJob
<1>7. /\ job \in JobType(DOMAIN source) /\ splits \in Seq(SplitType)
      /\ Len(calls) \in Nat /\ DOMAIN calls = 1..Len(calls) /\ Len(splits) \in Nat
  <2>1. job \in JobType(DOMAIN source)
    BY <1>2 DEF InvType
  <2>2. calls \in Seq(Name) /\ splits \in Seq(SplitType)
    BY <1>1, <2>1 DEF JobType
  <2> QED BY <2>1, <2>2, SeqFacts
<1>8. q \in DOMAIN program /\ P \in ParserType /\ P = program[q] /\ UniqueStates(P)
  BY <1>1, <1>2, <1>6, JobFacts DEF Caller, CodeFits, HasNames
<1>9. \E i \in DOMAIN P.states : site = P.states[i]
  <2>1. k \in Pending
    BY <1>1, <1>5, <1>7 DEF Pending
  <2> QED BY <1>1, <1>2, <1>3, <1>6, <2>1, CallSite
<1>10. PICK B \in DOMAIN P.states : site = P.states[B]
  BY <1>9
<1>11. /\ pre \in Name /\ post \in Name /\ pre \notin StateNames(P) /\ post \notin StateNames(P)
  <2>1. P.states[B].name \in Name
    BY <1>8, ParserFacts
  <2>2. <<"pre">> \in Name /\ <<"post">> \in Name
    BY Words DEF Name
  <2>3. site.name \o <<"pre">> \in Name /\ site.name \o <<"post">> \in Name
    BY <1>10, <2>1, <2>2, BeginsConcat
  <2> QED BY <1>4, <1>8, <2>3, UniqueNameFacts
<1>12. PICK new, Q : /\ new = <<ParserState(pre, <<>>, Missing), ParserState(post, <<>>, Missing)>>
                     /\ Q = InsertStates(P, P.states[B].name, new)
  OBVIOUS
<1>13. program' = [program EXCEPT ![q] = Q]
  BY <1>5, <1>8, <1>10, <1>12
<1>14. new \in Seq(StateType)
  BY <1>11, <1>12, EmptyState
<1>15. /\ Q \in ParserType /\ Q.params = P.params /\ Q.top = P.top /\ Q.insts = P.insts
       /\ Q.start = P.start /\ IsMixed(Q.states, P.states, new)
  <2>1. Q = InsertStates(P, P.states[B].name, new)
    BY <1>12
  <2> QED BY ONLY <1>8, <1>14, <2>1, B \in DOMAIN P.states, InsertStatesFacts
<1>16. HasSplit(P, Q, pre, post)
  <2>1. IsSplitInto(P, Q, B, pre, post)
    BY <1>12, <1>15 DEF IsSplitInto, IsExtendedBy
  <2> QED BY <1>11, <2>1, SplitStatesAre
<1>17. job'.parser = q /\ job'.splits = Append(splits, [pre |-> pre, post |-> post])
  BY <1>1, <1>5, <1>7 DEF JobType
<1>18. Created' = Created \cup {pre, post}
  <2>1. [pre |-> pre, post |-> post] \in SplitType
    BY <1>11 DEF SplitType
  <2> QED BY <1>1, <1>7, <1>17, <2>1, CreatedMore DEF Created
<1>19. IsFed(P, NoDebts) /\ HasTargets(P, Created, Created)
  <2>1. Debts(q) = NoDebts /\ Hidden(q) = Created /\ Loose(q) = Created
    BY <1>1, <1>5, IdleDebts, SplitLoose
  <2> QED BY <1>8, <2>1 DEF InvValid, InvUses, InvTargets
<1>20. IsFed(Q, NoDebts) /\ HasTargets(Q, Created', Created')
  <2>1. PICK hidden, hides : hidden = Created /\ hides = Created' /\ hides = hidden \cup {pre, post}
    BY <1>18
  <2>2. HasTargets(P, hidden, hidden)
    BY <1>19, <2>1
  <2>3. IsFed(Q, NoDebts) /\ HasTargets(Q, hides, hides)
    BY <1>8, <1>11, <1>15, <1>16, <1>19, <2>1, <2>2, SplitHas
  <2> QED BY <2>1, <2>3
<1>21. Debts(q)' = NoDebts /\ Hidden(q)' = Created' /\ Loose(q)' = Created'
  <2>1. \A p : Debts(p)' = NoDebts
    BY <1>5, IdleDebtsNext
  <2> QED BY <1>5, <1>17, <2>1, SplitLooseNext
<1> QED BY <1>1, <1>2, <1>8, <1>13, <1>17, <1>20, <1>21, OneValid

\* Once the hidden states are removed, nothing is hidden or loose.
LEMMA ReducedHas ==
  ASSUME NEW P \in ParserType, IsFed(P, NoDebts), NEW gone, HasTargets(P, gone, gone),
         NEW Q, Q = [P EXCEPT !.states = Chosen(@, {i \in DOMAIN @ : @[i].name \notin gone})]
  PROVE  IsFed(Q, NoDebts) /\ HasTargets(Q, {}, {})
<1>1. PICK at : at = {i \in DOMAIN P.states : P.states[i].name \notin gone}
  OBVIOUS
<1>2. PICK S : S = Chosen(P.states, at)
  OBVIOUS
<1>3. P.states \in Seq(StateType) /\ at \subseteq DOMAIN P.states
  BY <1>1, ParserFacts
<1>4. S \in Seq(StateType) /\ ToSet(S) = {P.states[n] : n \in at}
  BY <1>2, <1>3, ChosenSet
<1>5. /\ Q.states = S /\ Q.params = P.params /\ Q.top = P.top /\ Q.start = P.start
  BY <1>1, <1>2 DEF ParserType
<1>6. \A m \in DOMAIN S : \E n \in at : S[m] = P.states[n]
  BY <1>4, SeqFacts
<1>7. \A n \in at : \E m \in DOMAIN S : S[m] = P.states[n]
  <2> TAKE n \in at
  <2>1. P.states[n] \in ToSet(S)
    BY <1>4
  <2> QED BY <1>4, <2>1, SeqFacts
<1>8. StateNames(P) \ gone \subseteq StateNames(Q)
  <2> SUFFICES ASSUME NEW n \in DOMAIN P.states, P.states[n].name \notin gone
               PROVE  P.states[n].name \in StateNames(Q)
    BY DEF StateNames
  <2>1. PICK m \in DOMAIN S : S[m] = P.states[n]
    BY <1>1, <1>7
  <2> QED BY <1>5, <2>1 DEF StateNames
<1>9. ASSUME NEW m \in DOMAIN S
      PROVE  /\ Fed(S[m], OuterValues(Q) \cup NoDebts[S[m].name])
             /\ ToSet(S[m].next.targets) \subseteq StateNames(Q)
             /\ S[m].next.kind # "missing"
  <2>1. PICK n \in DOMAIN P.states : S[m] = P.states[n] /\ P.states[n].name \notin gone
    BY <1>1, <1>6
  <2>2. OuterValues(Q) = OuterValues(P)
    BY <1>5 DEF OuterValues
  <2>3. ToSet(P.states[n].next.targets) \subseteq StateNames(P) \ gone /\ P.states[n].next.kind # "missing"
    BY <2>1 DEF HasTargets
  <2>4. Fed(P.states[n], OuterValues(P) \cup NoDebts[P.states[n].name])
    BY DEF IsFed
  <2> QED BY <1>8, <2>1, <2>2, <2>3, <2>4
<1>10. Q.start \in StateNames(Q) /\ CodeFed(Q.top, ToSet(Q.params))
  BY <1>5, <1>8 DEF IsFed, HasTargets
<1> QED BY <1>5, <1>9, <1>10 DEF IsFed, HasTargets

\* Cancel leaves valid code.
LEMMA CancelValid ==
  ASSUME Inv, InvValid, Cancel
  PROVE  InvValid'
<1>1. PICK q, P, gone : q = job.parser /\ P = Caller /\ gone = Created
  OBVIOUS
<1>2. InvType /\ InvCode /\ InvJob
  BY DEF Inv
<1>3. /\ phase = "split" /\ phase' = "visit"
      /\ program' = [program EXCEPT ![q].states = Chosen(@, {i \in DOMAIN @ : @[i].name \notin gone})]
  BY <1>1 DEF Cancel
<1>4. q \in DOMAIN program /\ P \in ParserType /\ P = program[q]
  <2>1. InJob
    BY <1>3 DEF InJob
  <2> QED BY <1>1, <1>2, <2>1, JobFacts DEF Caller
<1>5. PICK Q : Q = [P EXCEPT !.states = Chosen(@, {i \in DOMAIN @ : @[i].name \notin gone})]
  OBVIOUS
<1>6. program' = [program EXCEPT ![q] = Q]
  BY <1>3, <1>4, <1>5
<1>7. IsFed(P, NoDebts) /\ HasTargets(P, gone, gone)
  <2>1. Debts(q) = NoDebts /\ Hidden(q) = gone /\ Loose(q) = gone
    BY <1>1, <1>3, IdleDebts, SplitLoose
  <2> QED BY <1>4, <2>1 DEF InvValid, InvUses, InvTargets
<1>8. IsFed(Q, NoDebts) /\ HasTargets(Q, {}, {})
  BY <1>4, <1>5, <1>7, ReducedHas
<1>9. Debts(q)' = NoDebts /\ Hidden(q)' = {} /\ Loose(q)' = {}
  BY <1>3, IdleDebtsNext, IdleTargetsNext
<1> QED BY <1>1, <1>2, <1>3, <1>4, <1>6, <1>8, <1>9, OneValid

-----------------------------------------------------------------------------
(* The locals of the callee *)

\* Operations without operands may precede any code.
LEMMA JoinedFed ==
  ASSUME NEW L \in Seq(Operation), \A p \in ToSet(L) : p.args = <<>>,
         NEW ops \in Seq(Operation), NEW O, CodeFed(ops, O),
         NEW new, new = L \o ops
  PROVE  CodeFed(new, O)
<1>1. IsJoined(new, L, ops)
  BY Joined
<1>2. /\ Len(L) \in Nat /\ DOMAIN L = 1..Len(L) /\ Len(ops) \in Nat /\ DOMAIN ops = 1..Len(ops)
      /\ \A n \in DOMAIN L : L[n].args = <<>>
  BY SeqFacts
<1>3. ASSUME NEW j \in DOMAIN new, NEW a \in DOMAIN new[j].args
      PROVE  Given(new, j, O, new[j].args[a])
  <2>1. CASE j \in DOMAIN L
    <3>1. new[j].args = <<>>
      BY <1>1, <1>2, <2>1 DEF IsJoined
    <3> QED BY <1>3, <3>1
  <2>2. CASE j \notin DOMAIN L
    <3>1. DOMAIN new = 1..Len(L) + Len(ops)
      BY <1>1 DEF IsJoined
    <3>2. j - Len(L) \in DOMAIN ops /\ j = (j - Len(L)) + Len(L)
      BY <1>2, <2>2, <3>1
    <3>3. PICK n \in DOMAIN ops : j = n + Len(L)
      BY <3>2
    <3>4. new[j] = ops[n]
      BY <1>1, <3>3 DEF IsJoined
    <3>5. PICK v : v = ops[n].args[a]
      OBVIOUS
    <3>6. Given(ops, n, O, v)
      BY <1>3, <3>4, <3>5 DEF CodeFed
    <3>7. ASSUME Above(ops, n, v) PROVE Above(new, j, v)
      <4>1. PICK m \in DOMAIN ops : m < n /\ Produces(ops[m], v)
        BY <3>7 DEF Above
      <4>2. m + Len(L) \in DOMAIN new /\ m + Len(L) < j
        BY <1>2, <3>1, <3>3, <4>1
      <4>3. new[m + Len(L)] = ops[m]
        BY <1>1, <4>1 DEF IsJoined
      <4> QED BY <4>1, <4>2, <4>3 DEF Above
    <3> QED BY <3>4, <3>5, <3>6, <3>7 DEF Given
  <2> QED BY <2>1, <2>2
<1> QED BY <1>3 DEF CodeFed

\* The locals of the callee in front of the parser's body take no value away.
LEMMA LocalsHave ==
  ASSUME NEW P \in ParserType, IsFed(P, NoDebts), NEW hidden, NEW loose, HasTargets(P, hidden, loose),
         NEW L \in Seq(Operation), \A p \in ToSet(L) : p.args = <<>>,
         NEW Q, Q.params = P.params, Q.states = P.states, Q.start = P.start, Q.top = L \o P.top,
         NEW D
  PROVE  IsFed(Q, D) /\ HasTargets(Q, {}, loose)
<1>1. P.top \in Seq(Operation) /\ \A i \in DOMAIN P.states : P.states[i].name \in Name
  BY ParserFacts
<1>2. CodeFed(Q.top, ToSet(Q.params))
  BY <1>1, JoinedFed DEF IsFed
<1>3. OuterValues(P) \subseteq OuterValues(Q)
  <2>1. IsMixed(Q.top, L, P.top)
    BY <1>1, JoinedMixed
  <2>2. \A n \in DOMAIN P.top : \E m \in DOMAIN Q.top : Q.top[m] = P.top[n]
    BY <2>1 DEF IsMixed
  <2>3. Results(P.top) \subseteq Results(Q.top)
    BY <2>2 DEF Results
  <2> QED BY <2>3 DEF OuterValues
<1>4. ASSUME NEW i \in DOMAIN P.states
      PROVE  Fed(Q.states[i], OuterValues(Q) \cup D[Q.states[i].name])
  <2>1. Fed(P.states[i], OuterValues(P) \cup NoDebts[P.states[i].name])
    BY DEF IsFed
  <2>2. OuterValues(P) \cup NoDebts[P.states[i].name] \subseteq OuterValues(Q) \cup D[Q.states[i].name]
    BY <1>1, <1>3 DEF NoDebts
  <2> QED BY <2>1, <2>2, FedMore
<1>5. StateNames(Q) = StateNames(P)
  BY DEF StateNames
<1> QED BY <1>2, <1>4, <1>5 DEF IsFed, HasTargets

\* CloneLocals keeps the code valid; from now on the created states count.
LEMMA CloneLocalsValid ==
  ASSUME Inv, InvValid, CloneLocals
  PROVE  InvValid'
<1>1. PICK q, P, C, x, inst, gone :
        q = job.parser /\ P = Caller /\ C = Callee /\ x = Inst /\ inst = job.inst /\ gone = Created
  OBVIOUS
<1>2. InvType /\ InvCode /\ InvJob
  BY DEF Inv
<1>3. PICK L, own, i, Q : LocalsStep(q, P, C, inst, L, own, i, Q)
  BY <1>1, <1>2, CloneLocalsIs
<1>4. /\ LocalsFit(P, C, inst, L) /\ own = InstsOf(C, inst) /\ i \in DOMAIN P.insts
      /\ Q = [P EXCEPT !.top = L \o @, !.insts = InsertAfter(@, i - 1, own)]
      /\ program' = [program EXCEPT ![q] = Q]
  BY <1>3 DEF LocalsStep
<1>5. phase = "split" /\ phase' = "clone" /\ job' = [job EXCEPT !.at = 1]
  BY DEF CloneLocals
<1>6. q \in DOMAIN program /\ P \in ParserType /\ P = program[q]
  <2>1. InJob
    BY <1>5 DEF InJob
  <2> QED BY <1>1, <1>2, <2>1, JobFacts DEF Caller
<1>7. L \in Seq(Operation) /\ \A p \in ToSet(L) : p.args = <<>>
  BY <1>4 DEF LocalsFit
<1>8. Q.params = P.params /\ Q.states = P.states /\ Q.start = P.start /\ Q.top = L \o P.top
  BY <1>4, <1>6 DEF ParserType
<1>9. IsFed(P, NoDebts) /\ HasTargets(P, gone, gone)
  <2>1. Debts(q) = NoDebts /\ Hidden(q) = gone /\ Loose(q) = gone
    BY <1>1, <1>5, IdleDebts, SplitLoose
  <2> QED BY <1>6, <2>1 DEF InvValid, InvUses, InvTargets
<1>10. job \in JobType(DOMAIN source)
  BY <1>2 DEF InvType
<1>11. job'.parser = q /\ job'.splits = job.splits /\ job'.at = 1
  BY <1>1, <1>5, <1>10 DEF JobType
<1>12. Hidden(q)' = {}
  BY <1>5 DEF Hidden
<1>13. Loose(q)' = gone
  <2>1. \A k \in DOMAIN job.splits : k >= 1
    <3>1. job.splits \in Seq(SplitType)
      BY <1>10 DEF JobType
    <3> QED BY <3>1, SeqFacts
  <2>2. Waiting' = DOMAIN job.splits
    BY <1>5, <1>11 DEF Waiting
  <2>3. Bare' = {k \in DOMAIN job.splits : k >= 1}
    BY <1>5, <1>11 DEF Bare
  <2>4. Bare' = DOMAIN job.splits
    BY ONLY <2>1, <2>3
  <2>5. Loose(q)' = {job.splits[k].post : k \in DOMAIN job.splits} \cup {job.splits[k].pre : k \in DOMAIN job.splits}
    BY <1>5, <1>11, <2>2, <2>4 DEF Loose, InJob
  <2> QED BY <1>1, <2>5, AllLoose DEF Created
<1>14. IsFed(Q, Debts(q)') /\ HasTargets(Q, {}, gone)
  <2>1. PICK D : D = Debts(q)'
    OBVIOUS
  <2>2. IsFed(Q, D) /\ HasTargets(Q, {}, gone)
    BY <1>6, <1>7, <1>8, <1>9, LocalsHave
  <2> QED BY <2>1, <2>2
<1> QED BY <1>1, <1>2, <1>4, <1>6, <1>11, <1>12, <1>13, <1>14, OneValid

-----------------------------------------------------------------------------
(* The uses in the copies *)

\* The code that initialises the locals uses parameters, what is shared and its
\* own values; so nothing else is outside of the states.
LEMMA InitsFed ==
  ASSUME NEW C \in ParserType, CodeFed(C.top, ToSet(C.params)), HasKinds(C),
         NEW O, O = ToSet(C.params) \cup Results(SharedIn(C))
  PROVE  /\ CodeFed(InitsIn(C), O)
         /\ \A w \in OuterValues(C) : w \in O \/ InCode(InitsIn(C), w)
<1>1. PICK shared, at, I :
        /\ shared = {j \in DOMAIN C.top : IsShared(C.top[j])}
        /\ at = DOMAIN C.top \ shared /\ I = InitsIn(C)
  OBVIOUS
<1>2. /\ C.top \in Seq(Operation) /\ at \subseteq DOMAIN C.top /\ shared \subseteq DOMAIN C.top
      /\ I = Chosen(C.top, at) /\ SharedIn(C) = Chosen(C.top, shared)
  BY <1>1, ParserFacts DEF InitsIn, SharedIn
<1>3. I \in Seq(Operation) /\ \E K : IsChosen(I, C.top, at, K)
  BY <1>2, ChosenFacts
<1>4. PICK K : IsChosen(I, C.top, at, K)
  BY <1>3
<1>5. \A m \in DOMAIN C.top : C.top[m].op # "apply"
  <2>1. \A m \in DOMAIN C.top : C.top[m] \in ToSet(C.top)
    BY <1>2, SeqFacts
  <2> QED BY <2>1, KindsFacts
<1>6. \A m \in shared : C.top[m].res # NoValue => C.top[m].res \in Results(SharedIn(C))
  <2>1. SharedIn(C) \in Seq(Operation) /\ ToSet(SharedIn(C)) = {C.top[n] : n \in shared}
    BY <1>2, ChosenSet
  <2>2. \A m \in shared : \E n \in DOMAIN SharedIn(C) : SharedIn(C)[n] = C.top[m]
    BY <2>1, SeqFacts
  <2> QED BY <2>1, <2>2, ResultsFacts
<1>7. ASSUME NEW m \in DOMAIN C.top, NEW v, Produces(C.top[m], v)
      PROVE  v \in O \/ \E p \in DOMAIN I : K[p] = m /\ Produces(I[p], v)
  <2>1. CASE m \in shared
    BY <1>6, <1>7, <2>1 DEF Produces
  <2>2. CASE m \in at
    <3>1. PICK p \in DOMAIN I : K[p] = m
      BY <1>4, <2>2 DEF IsChosen
    <3>2. I[p] = C.top[m]
      BY <1>4, <3>1 DEF IsChosen
    <3> QED BY <1>7, <3>1, <3>2
  <2> QED BY <1>1, <2>1, <2>2
<1>8. CodeFed(I, O)
  <2> SUFFICES ASSUME NEW p \in DOMAIN I, NEW a \in DOMAIN I[p].args
               PROVE  Given(I, p, O, I[p].args[a])
    BY DEF CodeFed
  <2>1. K[p] \in DOMAIN C.top /\ I[p] = C.top[K[p]]
    BY <1>2, <1>4 DEF IsChosen
  <2>2. PICK v : v = I[p].args[a]
    OBVIOUS
  <2>3. v \in ToSet(C.params) \/ Above(C.top, K[p], v)
    BY <2>1, <2>2 DEF CodeFed, Given
  <2>4. CASE Above(C.top, K[p], v)
    <3>1. PICK m \in DOMAIN C.top : m < K[p] /\ Produces(C.top[m], v)
      BY <2>4 DEF Above
    <3>2. CASE \E l \in DOMAIN I : K[l] = m /\ Produces(I[l], v)
      <4>1. PICK l \in DOMAIN I : K[l] = m /\ Produces(I[l], v)
        BY <3>2
      <4>2. l < p
        BY <1>4, <3>1, <4>1 DEF IsChosen
      <4> QED BY <2>2, <4>1, <4>2 DEF Given, Above
    <3> QED BY <1>7, <2>2, <3>1, <3>2 DEF Given
  <2> QED BY <2>2, <2>3, <2>4 DEF Given
<1>9. ASSUME NEW w \in OuterValues(C)
      PROVE  w \in O \/ InCode(I, w)
  <2>1. CASE w \in Results(C.top)
    <3>1. PICK m \in DOMAIN C.top : w # NoValue /\ C.top[m].res = w
      BY <1>2, <2>1, ResultsFacts
    <3>2. Produces(C.top[m], w)
      BY <1>5, <3>1 DEF Produces
    <3> QED BY <1>7, <3>2 DEF InCode
  <2> QED BY <2>1 DEF OuterValues
<1> QED BY <1>1, <1>8, <1>9

\* A copy of code is fed as the code is.
LEMMA CodeCopiedFed ==
  ASSUME NEW M, NEW P, NEW C, NEW inst, NEW many, NEW k, NEW args, NEW J,
         Cloning(M, P, C, inst, many, k, args, J),
         NEW ops, IsOwnCode(C, ops), NEW new, AreOpCopies(C, inst, k, args, ops, new),
         NEW O, CodeFed(ops, O), NEW N, \A w \in Name : w \in O => CopyOf(C, inst, k, args, w) \in N
  PROVE  /\ CodeFed(new, N)
         /\ \A w \in Name : InCode(ops, w) => InCode(new, CopyOf(C, inst, k, args, w))
<1>1. /\ ops \in Seq(Operation) /\ DOMAIN new = DOMAIN ops /\ Results(ops) \subseteq Own(C)
      /\ \A j \in DOMAIN ops : IsOpCopy(C, inst, k, args, ops[j], new[j])
      /\ \A j \in DOMAIN ops : ops[j] \in Operation /\ ops[j].args \in Seq(Name)
  <2>1. ops \in Seq(Operation)
    BY DEF IsOwnCode
  <2>2. \A j \in DOMAIN ops : ops[j] \in Operation /\ ops[j].args \in Seq(Name)
    BY <2>1, SeqFacts, OpFacts
  <2> QED BY <2>2 DEF IsOwnCode, AreOpCopies
<1>2. ASSUME NEW n \in DOMAIN ops, NEW w, Produces(ops[n], w)
      PROVE  Produces(new[n], CopyOf(C, inst, k, args, w))
  <2>1. w \in Results(ops)
    BY <1>2 DEF Results, Produces
  <2>2. CopyOf(C, inst, k, args, w) # NoValue
    <3>1. w \in Own(C)
      BY <1>1, <2>1
    <3>2. CopyOf(C, inst, k, args, w) = CopyPrefix(inst, k) \o w /\ CopyPrefix(inst, k) \o w # NoValue
      BY ONLY <3>1, Cloning(M, P, C, inst, many, k, args, J), OwnCopied
    <3> QED BY <3>2
  <2>3. new[n].op = ops[n].op /\ new[n].res = CopyOf(C, inst, k, args, w)
    BY <1>1, <1>2 DEF IsOpCopy, Produces
  <2> QED BY <1>2, <2>2, <2>3 DEF Produces
<1>3. CodeFed(new, N)
  <2> SUFFICES ASSUME NEW j \in DOMAIN new, NEW a \in DOMAIN new[j].args
               PROVE  Given(new, j, N, new[j].args[a])
    BY DEF CodeFed
  <2>1. IsOpCopy(C, inst, k, args, ops[j], new[j]) /\ j \in DOMAIN ops
    BY <1>1
  <2>2. a \in DOMAIN ops[j].args /\ new[j].args[a] = CopyOf(C, inst, k, args, ops[j].args[a])
    BY <2>1 DEF IsOpCopy
  <2>3. PICK w : w = ops[j].args[a]
    OBVIOUS
  <2>4. w \in Name
    BY <1>1, <2>1, <2>2, <2>3, SeqFacts
  <2>5. w \in O \/ Above(ops, j, w)
    BY <2>1, <2>2, <2>3 DEF CodeFed, Given
  <2>6. CASE Above(ops, j, w)
    <3>1. PICK n \in DOMAIN ops : n < j /\ Produces(ops[n], w)
      BY <2>6 DEF Above
    <3>2. Produces(new[n], CopyOf(C, inst, k, args, w)) /\ n \in DOMAIN new
      BY <1>1, <1>2, <3>1
    <3>3. Above(new, j, CopyOf(C, inst, k, args, w))
      BY <3>1, <3>2 DEF Above
    <3> QED BY <2>2, <2>3, <3>3 DEF Given
  <2>7. CASE w \in O
    BY <2>2, <2>3, <2>4, <2>7 DEF Given
  <2> QED BY <2>5, <2>6, <2>7
<1>4. \A w \in Name : InCode(ops, w) => InCode(new, CopyOf(C, inst, k, args, w))
  BY <1>1, <1>2 DEF InCode
<1> QED BY <1>3, <1>4

\* A transition between copied states.
IsNextCopy(C, inst, many, k, args, next, to) ==
  /\ to.kind = next.kind
  /\ to.kind = "select" => to.sel = CopyOf(C, inst, k, args, next.sel)
  /\ \A n \in ToSet(to.targets) : \E m \in ToSet(next.targets) : n = CopyName(inst, many, k, m)

\* cloneNext makes a copy of a transition that is no accept.
LEMMA NextIsCopy ==
  ASSUME NEW C, NEW inst, NEW many, NEW k, NEW args, NEW next \in Transition, NEW post,
         next.kind # "accept", NEW to,
         to = NextCopy(C, inst, many, k, args, next, post)
  PROVE  IsNextCopy(C, inst, many, k, args, next, to)
<1>1. to = [next EXCEPT !.sel = IF next.kind = "select" THEN CopyOf(C, inst, k, args, @) ELSE @,
                        !.targets = [i \in DOMAIN @ |-> CopyName(inst, many, k, @[i])]]
  BY DEF NextCopy
<1>2. /\ to.kind = next.kind
      /\ to.kind = "select" => to.sel = CopyOf(C, inst, k, args, next.sel)
      /\ to.targets = [i \in DOMAIN next.targets |-> CopyName(inst, many, k, next.targets[i])]
  BY <1>1 DEF Transition
<1>3. \A l \in ToSet(to.targets) : \E m \in ToSet(next.targets) : l = CopyName(inst, many, k, m)
  BY <1>2 DEF ToSet
<1> QED BY <1>2, <1>3 DEF IsNextCopy

\* The copy of a state is fed with the copies of what fed the state.
LEMMA StateCopiedFed ==
  ASSUME NEW M, NEW P, NEW C, NEW inst, NEW many, NEW k, NEW args, NEW J,
         Cloning(M, P, C, inst, many, k, args, J),
         NEW s \in ToSet(C.states), NEW post \in Name, NEW t, IsStateCopy(C, inst, many, k, args, s, post, t),
         NEW O, Fed(s, O), NEW N, \A w \in Name : w \in O => CopyOf(C, inst, k, args, w) \in N
  PROVE  Fed(t, N)
<1>1. /\ C \in ParserType /\ IsSSA(C) /\ HasKinds(C) /\ inst \in Name /\ k \in Nat /\ args \in Seq(Name)
      /\ Len(args) = Len(C.params) /\ ToSet(C.params) \cap Results(SharedIn(C)) = {}
  BY CloningFacts DEF Cloning, CodeFits
<1>2. s \in StateType /\ s.next \in Transition /\ s.next.sel \in Name
  <2>1. s \in StateType
    BY <1>1, ParserFacts, SeqFacts
  <2> QED BY <2>1, StateFacts
<1>3. IsOwnCode(C, s.ops)
  BY <1>1, StatesAreOwn
<1>4. AreOpCopies(C, inst, k, args, s.ops, t.ops) /\ t.next = NextCopy(C, inst, many, k, args, s.next, post)
  BY DEF IsStateCopy
<1>5. /\ CodeFed(t.ops, N)
      /\ \A w \in Name : InCode(s.ops, w) => InCode(t.ops, CopyOf(C, inst, k, args, w))
  <2>1. CodeFed(s.ops, O)
    BY DEF Fed
  <2> QED BY <1>3, <1>4, <2>1, CodeCopiedFed
<1>6. NextFed(t, N)
  <2> SUFFICES ASSUME t.next.kind = "select"
               PROVE  t.next.sel \in N \/ InCode(t.ops, t.next.sel)
    BY DEF NextFed
  <2>1. s.next.kind # "accept"
    <3>1. s.next.kind = "accept" => t.next = To(post)
      BY <1>4 DEF NextCopy
    <3> QED BY <3>1 DEF To, NextTo
  <2>2. s.next.kind = "select" /\ t.next.sel = CopyOf(C, inst, k, args, s.next.sel)
    <3>1. IsNextCopy(C, inst, many, k, args, s.next, t.next)
      BY <1>1, <1>2, <1>4, <2>1, NextIsCopy
    <3> QED BY <3>1 DEF IsNextCopy
  <2>3. s.next.sel \in O \/ InCode(s.ops, s.next.sel)
    BY <2>2 DEF Fed, NextFed
  <2> QED BY <1>2, <1>5, <2>2, <2>3
<1> QED BY <1>5, <1>6 DEF Fed

\* Where its transition leads.
LeadsTo(C, inst, many, k, post, t) ==
  /\ t.next.kind # "missing"
  /\ \A n \in ToSet(t.next.targets) :
       n = post \/ \E m \in StateNames(C) : n = CopyName(inst, many, k, m)

\* The copy of a state leads to copies and to the post state.
LEMMA StateCopiedTo ==
  ASSUME NEW M, NEW P, NEW C, NEW inst, NEW many, NEW k, NEW args, NEW J,
         Cloning(M, P, C, inst, many, k, args, J),
         NEW s \in ToSet(C.states), s.next.kind # "missing", ToSet(s.next.targets) \subseteq StateNames(C),
         NEW post \in Name, NEW t, IsStateCopy(C, inst, many, k, args, s, post, t)
  PROVE  LeadsTo(C, inst, many, k, post, t)
<1>1. /\ C \in ParserType /\ inst \in Name /\ k \in Nat /\ args \in Seq(Name)
      /\ Len(args) = Len(C.params) /\ ToSet(C.params) \cap Results(SharedIn(C)) = {}
  BY CloningFacts DEF Cloning
<1>2. s.next \in Transition
  <2>1. s \in StateType
    BY <1>1, ParserFacts, SeqFacts
  <2> QED BY <2>1, StateFacts
<1>3. PICK next : next = s.next
  OBVIOUS
<1>4. t.next = NextCopy(C, inst, many, k, args, next, post) /\ next \in Transition
  BY <1>2, <1>3 DEF IsStateCopy
<1>5. CASE next.kind = "accept"
  <2>1. t.next = To(post)
    BY <1>4, <1>5 DEF NextCopy
  <2> QED BY <2>1 DEF To, NextTo, ToSet, LeadsTo
<1>6. CASE next.kind # "accept"
  <2>1. /\ t.next.kind = next.kind
        /\ \A n \in ToSet(t.next.targets) : \E m \in ToSet(next.targets) : n = CopyName(inst, many, k, m)
    <3>1. IsNextCopy(C, inst, many, k, args, next, t.next)
      BY <1>1, <1>4, <1>6, NextIsCopy
    <3> QED BY <3>1 DEF IsNextCopy
  <2> QED BY <1>3, <2>1 DEF LeadsTo
<1> QED BY <1>5, <1>6

\* Nothing is owed to a state that calls the instance: such a state is neither the
\* pre state of a call that waits nor a copy.
IsSite(P, inst, i) == i \in DOMAIN P.states /\ \E c \in Calls(P.states[i]) : c.inst = inst

\* Nothing is owed to the i-th state.
OwesNothing(P, D, i) == D[P.states[i].name] = {}

\* Pre states call nothing, copies do not call the instance.
CallElsewhere(P, inst, splits, pending) ==
  /\ CopiesCallOthers(P, inst)
  /\ \A k \in pending : \A i \in DOMAIN P.states :
       P.states[i].name = splits[k].pre => Calls(P.states[i]) = {}

\* Nothing is owed to a state that calls the instance.
LEMMA SiteOwes ==
  ASSUME NEW P \in ParserType, NEW C \in ParserType, NEW inst \in Name, NEW many, NEW calls, NEW splits,
         NEW pending, pending \subseteq Nat, CallElsewhere(P, inst, splits, pending),
         NEW i, IsSite(P, inst, i), NEW D, D = Owed(P, C, inst, many, calls, splits, pending)
  PROVE  OwesNothing(P, D, i)
<1>0. i \in DOMAIN P.states /\ \E c \in Calls(P.states[i]) : c.inst = inst
  BY DEF IsSite
<1>1. PICK n : n = P.states[i].name
  OBVIOUS
<1>2. n \in Name
  BY <1>0, <1>1, ParserFacts
<1>3. ASSUME NEW k \in pending, n = splits[k].pre
      PROVE  FALSE
  <2>2. Calls(P.states[i]) = {}
    BY <1>0, <1>1, <1>3 DEF CallElsewhere
  <2> QED BY <1>0, <2>2
<1>4. ASSUME NEW k \in pending, NEW t \in StateNames(C), n = CopyName(inst, many, k, t)
      PROVE  FALSE
  <2>1. t \in Name /\ k \in Nat
    BY ParserFacts DEF StateNames
  <2>2. CopyPrefix(inst, k) \in Name /\ Begins(CopyPrefix(inst, k), inst)
    BY <2>1, CopyPrefixName
  <2>3. Begins(CopyName(inst, many, k, t), inst)
    <3>1. CASE many
      <4>1. CopyPrefix(inst, k) \o t \in Name /\ Begins(CopyPrefix(inst, k) \o t, CopyPrefix(inst, k))
        BY <2>1, <2>2, BeginsConcat
      <4>2. Begins(CopyPrefix(inst, k) \o t, inst)
        BY <2>2, <4>1, BeginsTrans
      <4> QED BY <3>1, <4>2 DEF CopyName
    <3>2. CASE ~many
      <4>1. Begins(inst \o t, inst)
        BY <2>1, BeginsConcat
      <4> QED BY <3>2, <4>1 DEF CopyName
    <3> QED BY <3>1, <3>2
  <2> QED BY <1>0, <1>1, <1>4, <2>3 DEF CopiesCallOthers, CallElsewhere
<1>5. \A v : ~IsOwed(P, C, inst, many, calls, splits, pending, n, v)
  BY <1>3, <1>4 DEF IsOwed
<1> QED BY <1>1, <1>2, <1>5 DEF Owed, OwesNothing

\* What is computed where a call is made is available to its arguments.
LEMMA SiteArgs ==
  ASSUME NEW P \in ParserType, NEW D, IsFed(P, D), NEW i \in DOMAIN P.states, OwesNothing(P, D, i),
         NEW j \in DOMAIN P.states[i].ops, P.states[i].ops[j].op = "apply",
         NEW a \in DOMAIN P.states[i].ops[j].args, NEW v, v = P.states[i].ops[j].args[a]
  PROVE  v \in OuterValues(P) \/ IsAhead(P, P.states[i].ops[j].res, v)
<1>1. Fed(P.states[i], OuterValues(P))
  <2>1. OuterValues(P) \cup D[P.states[i].name] = OuterValues(P)
    BY DEF OwesNothing
  <2> QED BY <2>1 DEF IsFed
<1>2. Given(P.states[i].ops, j, OuterValues(P), v)
  BY <1>1 DEF Fed, CodeFed
<1>3. CASE Above(P.states[i].ops, j, v)
  <2>1. AheadIn(P.states[i], P.states[i].ops[j].res, v)
    BY <1>3 DEF AheadIn
  <2> QED BY <2>1 DEF IsAhead
<1> QED BY <1>2, <1>3 DEF Given

\* What was available still is when the copies are there.
LEMMA EnteredHas ==
  ASSUME NEW P, NEW Q, NEW B \in DOMAIN P.states, NEW e, NEW new, IsEntered(P, Q, B, e, new),
         IsUnfinished(P.states[B]), e.name = P.states[B].name
  PROVE  /\ \A id, v : IsAhead(P, id, v) => IsAhead(Q, id, v)
         /\ \A n, v : IsIn(P, n, v) => IsIn(Q, n, v)
         /\ \A v : InCode(e.ops, v) => IsIn(Q, e.name, v)
         /\ StateNames(P) \subseteq StateNames(Q)
         /\ \A b \in DOMAIN new : new[b].name \in StateNames(Q)
<1>1. PICK s : s = [P.states EXCEPT ![B] = e]
  OBVIOUS
<1>2. /\ DOMAIN s = DOMAIN P.states /\ s[B] = e /\ \A a \in DOMAIN P.states : a # B => s[a] = P.states[a]
      /\ \A a \in DOMAIN P.states : s[a].name = P.states[a].name
  BY <1>1
<1>3. /\ \A a \in DOMAIN P.states : \E m \in DOMAIN Q.states : Q.states[m] = s[a]
      /\ \A b \in DOMAIN new : \E m \in DOMAIN Q.states : Q.states[m] = new[b]
  BY <1>1, <1>2 DEF IsEntered, IsMixed
<1>4. DOMAIN P.states[B].ops = {}
  BY DEF IsUnfinished
<1>5. ASSUME NEW id, NEW v, IsAhead(P, id, v)
      PROVE  IsAhead(Q, id, v)
  <2>1. PICK a \in DOMAIN P.states : AheadIn(P.states[a], id, v)
    BY <1>5 DEF IsAhead
  <2>2. a # B
    BY <1>4, <2>1 DEF AheadIn
  <2> QED BY <1>2, <1>3, <2>1, <2>2 DEF IsAhead
<1>6. ASSUME NEW n, NEW v, IsIn(P, n, v)
      PROVE  IsIn(Q, n, v)
  <2>1. PICK a \in DOMAIN P.states : P.states[a].name = n /\ InCode(P.states[a].ops, v)
    BY <1>6 DEF IsIn
  <2>2. a # B
    BY <1>4, <2>1 DEF InCode
  <2> QED BY <1>2, <1>3, <2>1, <2>2 DEF IsIn
<1>7. \A v : InCode(e.ops, v) => IsIn(Q, e.name, v)
  BY <1>2, <1>3 DEF IsIn
<1>8. StateNames(P) \subseteq StateNames(Q) /\ \A b \in DOMAIN new : new[b].name \in StateNames(Q)
  BY <1>2, <1>3 DEF StateNames
<1> QED BY <1>5, <1>6, <1>7, <1>8

\* The states of Q are those of P but B, e and the copies.
LEMMA EnteredOnes ==
  ASSUME NEW P, NEW Q, NEW B \in DOMAIN P.states, NEW e, NEW new, IsEntered(P, Q, B, e, new),
         NEW m \in DOMAIN Q.states
  PROVE  \/ \E a \in DOMAIN P.states : a # B /\ Q.states[m] = P.states[a]
         \/ Q.states[m] = e
         \/ \E b \in DOMAIN new : Q.states[m] = new[b]
<1>1. PICK s : s = [P.states EXCEPT ![B] = e]
  OBVIOUS
<1>2. DOMAIN s = DOMAIN P.states /\ s[B] = e /\ \A a \in DOMAIN P.states : a # B => s[a] = P.states[a]
  BY <1>1
<1>3. (\E a \in DOMAIN s : Q.states[m] = s[a]) \/ (\E b \in DOMAIN new : Q.states[m] = new[b])
  BY <1>1 DEF IsEntered, IsMixed
<1> QED BY <1>2, <1>3

\* The debts of the copied states.
OwesMore(P, C, inst, many, k, calls, e, D, E) ==
  /\ \A n \in Name : D[n] \subseteq E[n]
  /\ e.name \in Name => \A v \in Name : IsAhead(P, calls[k], v) => v \in E[e.name]
  /\ \A t \in StateNames(C) : CopyName(inst, many, k, t) \in Name =>
       \A v \in Name : IsAhead(P, calls[k], v) \/ InCode(e.ops, v) =>
         v \in E[CopyName(inst, many, k, t)]

\* With the copied states, the old debts are debts and the new states may have theirs.
LEMMA EnteredOwed ==
  ASSUME NEW P, NEW Q, NEW B \in DOMAIN P.states, NEW e, NEW new, IsEntered(P, Q, B, e, new),
         IsUnfinished(P.states[B]), e.name = P.states[B].name,
         NEW C, NEW inst, NEW many, NEW k, NEW calls, NEW splits, NEW pending,
         NEW D, D = Owed(P, C, inst, many, calls, splits, pending), k \in pending,
         NEW E, E = Owed(Q, C, inst, many, calls, splits, pending), e.name = splits[k].pre
  PROVE  OwesMore(P, C, inst, many, k, calls, e, D, E)
<1>1. /\ \A id, v : IsAhead(P, id, v) => IsAhead(Q, id, v)
      /\ \A n, v : IsIn(P, n, v) => IsIn(Q, n, v)
      /\ \A v : InCode(e.ops, v) => IsIn(Q, e.name, v)
  BY EnteredHas
<1>2. \A n \in Name : \A v \in Name :
        /\ v \in D[n] <=> IsOwed(P, C, inst, many, calls, splits, pending, n, v)
        /\ v \in E[n] <=> IsOwed(Q, C, inst, many, calls, splits, pending, n, v)
  BY DEF Owed
<1>3. \A n, v : IsOwed(P, C, inst, many, calls, splits, pending, n, v)
                  => IsOwed(Q, C, inst, many, calls, splits, pending, n, v)
  BY <1>1 DEF IsOwed
<1>4. \A n \in Name : D[n] \subseteq Name
  BY DEF Owed
<1>5. \A n \in Name : D[n] \subseteq E[n]
  BY ONLY <1>2, <1>3, <1>4
<1>6. \A v : IsAhead(P, calls[k], v) => IsOwed(Q, C, inst, many, calls, splits, pending, e.name, v)
  BY <1>1 DEF IsOwed
<1>7. \A t \in StateNames(C) : \A v : IsAhead(P, calls[k], v) \/ InCode(e.ops, v) =>
        IsOwed(Q, C, inst, many, calls, splits, pending, CopyName(inst, many, k, t), v)
  BY <1>1 DEF IsOwed
<1> QED BY <1>2, <1>5, <1>6, <1>7 DEF OwesMore

\* What can be used in the states that are made for a call.
Reaches(P, id, ops, v) == v \in OuterValues(P) \/ (v \in Name /\ (IsAhead(P, id, v) \/ InCode(ops, v)))

\* What becomes of an outer value of the callee.
IsOuterCopy(C, inst, args, w, v) ==
  /\ w \notin ToSet(C.params) /\ w \in Results(SharedIn(C)) => v = inst \o w
  /\ w \in ToSet(C.params) => \E i \in DOMAIN args : v = args[i]

\* The copy of an outer value is an actual argument or a value of the instance.
LEMMA OuterCopy ==
  ASSUME NEW C \in ParserType, NEW inst, NEW k, NEW args \in Seq(Name),
         Len(args) = Len(C.params), ToSet(C.params) \cap Results(SharedIn(C)) = {},
         NEW w, NEW v, v = CopyOf(C, inst, k, args, w)
  PROVE  IsOuterCopy(C, inst, args, w, v)
<1>1. w \notin ToSet(C.params) /\ w \in Results(SharedIn(C)) => v = inst \o w
  BY DEF CopyOf
<1>2. ASSUME w \in ToSet(C.params)
      PROVE  \E i \in DOMAIN args : v = args[i]
  <2>1. \E i \in DOMAIN C.params : C.params[i] = w
    BY <1>2 DEF ToSet
  <2>2. PICK i : i = CHOOSE j \in DOMAIN C.params : C.params[j] = w
    OBVIOUS
  <2>3. i \in DOMAIN C.params
    BY <2>1, <2>2
  <2>4. i \in DOMAIN args
    <3>1. DOMAIN C.params = 1..Len(C.params) /\ DOMAIN args = 1..Len(args)
      BY ParserFacts, SeqFacts
    <3> QED BY <2>3, <3>1
  <2>5. v = args[i]
    <3>1. w \notin Results(SharedIn(C))
      BY <1>2
    <3> QED BY <1>2, <2>2, <3>1 DEF CopyOf
  <2> QED BY <2>4, <2>5
<1> QED BY <1>1, <1>2 DEF IsOuterCopy

\* Parameters become arguments, what is shared is in the parser, all else is computed
\* on entry.
LEMMA OuterCopied ==
  ASSUME NEW M, NEW P, NEW C, NEW inst, NEW many, NEW k, NEW args, NEW J,
         Cloning(M, P, C, inst, many, k, args, J), IsFed(C, NoDebts),
         NEW inits, AreOpCopies(C, inst, k, args, InitsIn(C), inits),
         NEW id, \A a \in DOMAIN args : args[a] \in OuterValues(P) \/ IsAhead(P, id, args[a])
  PROVE  /\ \A w \in Name : w \in ToSet(C.params) \cup Results(SharedIn(C)) =>
              Reaches(P, id, <<>>, CopyOf(C, inst, k, args, w))
         /\ \A N : (\A v : Reaches(P, id, <<>>, v) => v \in N) => CodeFed(inits, N)
         /\ \A w \in OuterValues(C) : Reaches(P, id, inits, CopyOf(C, inst, k, args, w))
<1>1. /\ C \in ParserType /\ IsSSA(C) /\ HasKinds(C) /\ inst \in Name /\ k \in Nat /\ args \in Seq(Name)
      /\ Len(args) = Len(C.params) /\ ToSet(C.params) \cap Results(SharedIn(C)) = {}
  BY CloningFacts DEF Cloning, CodeFits
<1>2. PICK O : O = ToSet(C.params) \cup Results(SharedIn(C))
  OBVIOUS
<1>3. ASSUME NEW w \in Name, w \in O
      PROVE  Reaches(P, id, <<>>, CopyOf(C, inst, k, args, w))
  <2>0. /\ w \notin ToSet(C.params) /\ w \in Results(SharedIn(C)) =>
              CopyOf(C, inst, k, args, w) = inst \o w
        /\ w \in ToSet(C.params) => \E i \in DOMAIN args : CopyOf(C, inst, k, args, w) = args[i]
    <3>1. PICK v : v = CopyOf(C, inst, k, args, w)
      OBVIOUS
    <3>2. IsOuterCopy(C, inst, args, w, v)
      BY ONLY <1>1, <3>1, OuterCopy, w \in Name
    <3> QED BY <3>1, <3>2 DEF IsOuterCopy
  <2>1. CASE w \in ToSet(C.params)
    <3>1. PICK a \in DOMAIN args : CopyOf(C, inst, k, args, w) = args[a]
      BY <2>0, <2>1
    <3>2. args[a] \in Name
      BY <1>1, SeqFacts
    <3> QED BY <3>1, <3>2 DEF Reaches
  <2>2. CASE w \notin ToSet(C.params) /\ w \in Results(SharedIn(C))
    <3>1. CopyOf(C, inst, k, args, w) = inst \o w
      BY <2>0, <2>2
    <3>2. inst \o w \in Results(P.top)
      BY <2>2 DEF Cloning, FreshIn
    <3> QED BY <3>1, <3>2 DEF Reaches, OuterValues
  <2> QED BY <1>2, <1>3, <2>1, <2>2
<1>4. /\ CodeFed(InitsIn(C), O)
      /\ \A w \in OuterValues(C) : w \in O \/ InCode(InitsIn(C), w)
  <2>1. CodeFed(C.top, ToSet(C.params))
    BY DEF IsFed
  <2> QED BY <1>1, <1>2, <2>1, InitsFed
<1>5. IsOwnCode(C, InitsIn(C))
  BY <1>1, InitsAreOwn
<1>6. ASSUME NEW N, \A v : Reaches(P, id, <<>>, v) => v \in N
      PROVE  /\ CodeFed(inits, N)
             /\ \A w \in Name : InCode(InitsIn(C), w) => InCode(inits, CopyOf(C, inst, k, args, w))
  <2>1. \A w \in Name : w \in O => CopyOf(C, inst, k, args, w) \in N
    BY <1>3, <1>6
  <2> QED BY <1>4, <1>5, <2>1, CodeCopiedFed
<1>7. \A w \in Name : InCode(InitsIn(C), w) => InCode(inits, CopyOf(C, inst, k, args, w))
  <2>1. PICK N : N = OuterValues(P) \cup {v \in Name : IsAhead(P, id, v) \/ InCode(<<>>, v)}
    OBVIOUS
  <2>2. \A v : Reaches(P, id, <<>>, v) => v \in N
    BY <2>1 DEF Reaches
  <2> QED BY <1>6, <2>2
<1>8. ASSUME NEW w \in OuterValues(C)
      PROVE  Reaches(P, id, inits, CopyOf(C, inst, k, args, w))
  <2>1. w \in Name
    BY <1>1, OuterFacts
  <2>2. CASE w \in O
    <3>1. Reaches(P, id, <<>>, CopyOf(C, inst, k, args, w))
      BY <1>3, <2>1, <2>2
    <3>2. \A v : ~InCode(<<>>, v)
      BY DEF InCode
    <3> QED BY <3>1, <3>2 DEF Reaches
  <2>3. CASE InCode(InitsIn(C), w)
    <3>1. CopyOf(C, inst, k, args, w) \in Name
      BY <1>1, <2>1, CopyOfFacts
    <3> QED BY <1>7, <2>1, <2>3, <3>1 DEF Reaches
  <2> QED BY <1>4, <2>2, <2>3
<1> QED BY <1>2, <1>3, <1>6, <1>8

\* The copied states are fed, but for what the finalizing of the split will bring.
LEMMA EnteredFed ==
  ASSUME NEW M, NEW P, NEW C, NEW inst, NEW many, NEW k, NEW args, NEW J,
         Cloning(M, P, C, inst, many, k, args, J), IsFed(C, NoDebts),
         NEW B \in DOMAIN P.states, IsUnfinished(P.states[B]),
         NEW e, e.name = P.states[B].name, e.next.kind = "to",
         AreOpCopies(C, inst, k, args, InitsIn(C), e.ops),
         NEW post \in Name, NEW new, AreStateCopies(C, inst, many, k, args, post, new),
         NEW Q, IsEntered(P, Q, B, e, new), NEW calls, NEW splits, NEW pending, k \in pending, e.name = splits[k].pre,
         NEW D, D = Owed(P, C, inst, many, calls, splits, pending), IsFed(P, D),
         NEW E, E = Owed(Q, C, inst, many, calls, splits, pending),
         \A a \in DOMAIN args : args[a] \in OuterValues(P) \/ IsAhead(P, calls[k], args[a])
  PROVE  IsFed(Q, E)
<1>1. /\ P \in ParserType /\ C \in ParserType /\ Q \in ParserType /\ Q.params = P.params /\ Q.top = P.top
      /\ OuterValues(Q) = OuterValues(P)
      /\ \A i \in DOMAIN P.states : P.states[i].name \in Name
      /\ \A i \in DOMAIN Q.states : Q.states[i].name \in Name
  <2>1. /\ P \in ParserType /\ C \in ParserType /\ Q \in ParserType /\ Q.params = P.params /\ Q.top = P.top
    BY DEF Cloning, IsEntered
  <2> QED BY <2>1, ParserFacts DEF OuterValues
<1>2. /\ \A n \in Name : D[n] \subseteq E[n]
      /\ e.name \in Name => \A v \in Name : IsAhead(P, calls[k], v) => v \in E[e.name]
      /\ \A t \in StateNames(C) : CopyName(inst, many, k, t) \in Name =>
           \A v \in Name : IsAhead(P, calls[k], v) \/ InCode(e.ops, v) =>
             v \in E[CopyName(inst, many, k, t)]
  <2>1. OwesMore(P, C, inst, many, k, calls, e, D, E)
    BY EnteredOwed
  <2> QED BY <2>1 DEF OwesMore
<1>3. /\ \A N : (\A v : Reaches(P, calls[k], <<>>, v) => v \in N) => CodeFed(e.ops, N)
      /\ \A w \in OuterValues(C) : Reaches(P, calls[k], e.ops, CopyOf(C, inst, k, args, w))
  BY OuterCopied
<1>4. ASSUME NEW m \in DOMAIN Q.states, NEW a \in DOMAIN P.states, Q.states[m] = P.states[a]
      PROVE  Fed(Q.states[m], OuterValues(Q) \cup E[Q.states[m].name])
  <2>1. Fed(P.states[a], OuterValues(P) \cup D[P.states[a].name])
    BY DEF IsFed
  <2>2. OuterValues(P) \cup D[P.states[a].name] \subseteq OuterValues(Q) \cup E[Q.states[m].name]
    BY <1>1, <1>2, <1>4
  <2> QED BY <1>4, <2>1, <2>2, FedMore
<1>5. Fed(e, OuterValues(Q) \cup E[e.name])
  <2>1. PICK N : N = OuterValues(Q) \cup E[e.name]
    OBVIOUS
  <2>2. e.name \in Name
    BY <1>1
  <2>3. \A v : Reaches(P, calls[k], <<>>, v) => v \in N
    <3>1. \A v : ~InCode(<<>>, v)
      BY DEF InCode
    <3> QED BY <1>1, <1>2, <2>1, <2>2, <3>1 DEF Reaches
  <2>4. CodeFed(e.ops, N)
    BY <1>3, <2>3
  <2>5. NextFed(e, N)
    BY DEF NextFed
  <2> QED BY <2>1, <2>4, <2>5 DEF Fed
<1>6. ASSUME NEW m \in DOMAIN Q.states, NEW b \in DOMAIN new, Q.states[m] = new[b]
      PROVE  Fed(Q.states[m], OuterValues(Q) \cup E[Q.states[m].name])
  <2>1. PICK N : N = OuterValues(Q) \cup E[Q.states[m].name]
    OBVIOUS
  <2>2. b \in DOMAIN C.states /\ IsStateCopy(C, inst, many, k, args, C.states[b], post, new[b])
    BY DEF AreStateCopies
  <2>3. /\ new[b].name = CopyName(inst, many, k, C.states[b].name) /\ C.states[b].name \in StateNames(C)
        /\ C.states[b] \in ToSet(C.states)
    BY <2>2 DEF IsStateCopy, StateNames, ToSet
  <2>4. Fed(C.states[b], OuterValues(C))
    <3>1. C.states[b].name \in Name
      BY <1>1, <2>2, ParserFacts
    <3>2. OuterValues(C) \cup NoDebts[C.states[b].name] = OuterValues(C)
      BY <3>1 DEF NoDebts
    <3> QED BY <2>2, <3>2 DEF IsFed
  <2>5. \A v : Reaches(P, calls[k], e.ops, v) => v \in N
    <3>1. Q.states[m].name = CopyName(inst, many, k, C.states[b].name) /\ Q.states[m].name \in Name
      BY <1>1, <1>6, <2>3
    <3>2. \A v \in Name : IsAhead(P, calls[k], v) \/ InCode(e.ops, v) => v \in E[Q.states[m].name]
      BY <1>2, <2>3, <3>1
    <3> QED BY <1>1, <2>1, <3>2 DEF Reaches
  <2>6. \A w \in Name : w \in OuterValues(C) => CopyOf(C, inst, k, args, w) \in N
    BY <1>3, <2>5
  <2>7. Fed(new[b], N)
    BY <2>2, <2>3, <2>4, <2>6, StateCopiedFed
  <2> QED BY <1>6, <2>1, <2>7
<1>7. \A m \in DOMAIN Q.states : Fed(Q.states[m], OuterValues(Q) \cup E[Q.states[m].name])
  <2> TAKE m \in DOMAIN Q.states
  <2>1. \/ \E a \in DOMAIN P.states : a # B /\ Q.states[m] = P.states[a]
        \/ Q.states[m] = e
        \/ \E b \in DOMAIN new : Q.states[m] = new[b]
    BY EnteredOnes
  <2> QED BY <1>4, <1>5, <1>6, <2>1
<1>8. CodeFed(Q.top, ToSet(Q.params))
  BY <1>1 DEF IsFed
<1> QED BY <1>7, <1>8 DEF IsFed

\* The copied states have their targets; the pre state is not loose any more.
LEMMA EnteredTargets ==
  ASSUME NEW M, NEW P, NEW C, NEW inst, NEW many, NEW k, NEW args, NEW J,
         Cloning(M, P, C, inst, many, k, args, J), HasTargets(C, {}, {}), UniqueStates(P),
         NEW B \in DOMAIN P.states, IsUnfinished(P.states[B]),
         NEW e, e.name = P.states[B].name, e.next = To(CopyName(inst, many, k, C.start)),
         NEW post \in StateNames(P), NEW new, AreStateCopies(C, inst, many, k, args, post, new),
         NEW Q, IsEntered(P, Q, B, e, new),
         NEW loose, HasTargets(P, {}, loose),
         NEW fewer, \A n \in loose : n # P.states[B].name => n \in fewer
  PROVE  HasTargets(Q, {}, fewer)
<1>1. /\ P \in ParserType /\ C \in ParserType /\ Q.start = P.start
  BY DEF Cloning, IsEntered
<1>2. /\ StateNames(P) \subseteq StateNames(Q)
      /\ \A b \in DOMAIN new : new[b].name \in StateNames(Q)
  BY EnteredHas
<1>3. post \in Name
  BY <1>1, ParserFacts DEF StateNames
<1>4. \A t \in StateNames(C) : CopyName(inst, many, k, t) \in StateNames(Q)
  <2> TAKE t \in StateNames(C)
  <2>1. PICK b \in DOMAIN C.states : C.states[b].name = t
    BY DEF StateNames
  <2>2. b \in DOMAIN new /\ new[b].name = CopyName(inst, many, k, t)
    BY <2>1 DEF AreStateCopies, IsStateCopy
  <2> QED BY <1>2, <2>2
<1>5. ASSUME NEW m \in DOMAIN Q.states
      PROVE  /\ ToSet(Q.states[m].next.targets) \subseteq StateNames(Q)
             /\ Q.states[m].next.kind = "missing" => Q.states[m].name \in fewer
  <2>1. CASE \E a \in DOMAIN P.states : a # B /\ Q.states[m] = P.states[a]
    <3>1. PICK a \in DOMAIN P.states : a # B /\ Q.states[m] = P.states[a]
      BY <2>1
    <3>2. /\ ToSet(P.states[a].next.targets) \subseteq StateNames(P)
          /\ P.states[a].next.kind = "missing" => P.states[a].name \in loose
      BY DEF HasTargets
    <3>3. P.states[a].name # P.states[B].name
      BY <3>1 DEF UniqueStates
    <3> QED BY <1>2, <3>1, <3>2, <3>3
  <2>2. CASE Q.states[m] = e
    <3>1. C.start \in StateNames(C)
      BY DEF HasTargets
    <3> QED BY <1>4, <2>2, <3>1 DEF To, NextTo, ToSet
  <2>3. CASE \E b \in DOMAIN new : Q.states[m] = new[b]
    <3>1. PICK b \in DOMAIN new : Q.states[m] = new[b]
      BY <2>3
    <3>2. b \in DOMAIN C.states /\ IsStateCopy(C, inst, many, k, args, C.states[b], post, new[b])
      BY DEF AreStateCopies
    <3>3. C.states[b] \in ToSet(C.states) /\ C.states[b].next.kind # "missing"
          /\ ToSet(C.states[b].next.targets) \subseteq StateNames(C)
      BY <3>2 DEF ToSet, HasTargets
    <3>4. /\ new[b].next.kind # "missing"
          /\ \A n \in ToSet(new[b].next.targets) :
               n = post \/ \E t \in StateNames(C) : n = CopyName(inst, many, k, t)
      <4>1. LeadsTo(C, inst, many, k, post, new[b])
        BY <1>3, <3>2, <3>3, StateCopiedTo
      <4> QED BY <4>1 DEF LeadsTo
    <3> QED BY <1>2, <1>4, <3>1, <3>4
  <2> QED BY <2>1, <2>2, <2>3, EnteredOnes
<1>6. Q.start \in StateNames(Q)
  BY <1>1, <1>2 DEF HasTargets
<1> QED BY <1>5, <1>6 DEF HasTargets

\* CloneStates keeps the code valid.
LEMMA CloneStatesValid ==
  ASSUME Inv, InvValid, CloneStates
  PROVE  InvValid'
<1>1. PICK q, P, C, x, inst, calls, splits, k, many, J :
        /\ q = job.parser /\ P = Caller /\ C = Callee /\ x = Inst /\ inst = job.inst
        /\ calls = job.calls /\ splits = job.splits /\ k = job.at /\ many = (Len(calls) > 1)
        /\ J = Lasting(job.parser)
  OBVIOUS
<1>2. InvType /\ InvCode /\ InvJob /\ InvSplits /\ InvFresh /\ InvShallow
  BY DEF Inv
<1>3. /\ phase = "clone" /\ k <= Len(calls) /\ phase' = "clone"
      /\ job' = [job EXCEPT !.at = k + 1] /\ source' = source /\ order' = order
      /\ todo' = todo /\ changed' = changed
  BY <1>1, CloneStatesFrame
<1>4. InJob /\ InJob' /\ phase # "split" /\ phase' # "split"
  BY <1>1, <1>3, CloneStatesFrame
<1>5. /\ q \in DOMAIN program /\ P \in ParserType /\ P = program[q]
      /\ x \in ToSet(P.insts) /\ x.name = inst /\ x.callee \in DOMAIN program /\ x.callee # q
      /\ C \in ParserType /\ C = program[x.callee] /\ x = InstOf(P, inst)
      /\ CodeFits(program, P, J) /\ CodeFits(program, C, InstanceNames(C))
  BY <1>1, CloneStatesFrame
<1>6. inst \in InstanceNames(P) /\ inst \in Name
  BY <1>1, CloneStatesFrame
<1>7. /\ job \in JobType(DOMAIN source) /\ calls \in Seq(Name) /\ splits \in Seq(SplitType)
      /\ Len(calls) \in Nat /\ DOMAIN calls = 1..Len(calls)
      /\ Len(splits) = Len(calls) /\ DOMAIN splits = DOMAIN calls
      /\ k \in DOMAIN calls /\ k \in Nat \ {0}
  BY <1>1, CloneStatesFrame
<1>8. /\ job' \in JobType(DOMAIN source)
      /\ job'.parser = q /\ job'.inst = inst /\ job'.calls = calls /\ job'.splits = splits
      /\ job'.at = k + 1
  BY <1>1, CloneStatesFrame
<1>9. /\ Pending = DOMAIN calls /\ Pending' = DOMAIN calls
      /\ Waiting = DOMAIN splits /\ Waiting' = DOMAIN splits
      /\ Bare' = Bare \ {k} /\ k \in Bare
  BY <1>1, CloneStatesFrame
<1>10. PICK i, j, args, B, new, e, Q :
         StatesStep(q, P, C, inst, calls, splits, k, many, J, i, j, args, B, new, e, Q)
  BY <1>1, CloneStatesHas
<1>11. /\ i \in DOMAIN P.states /\ j \in DOMAIN P.states[i].ops
       /\ IsCallOf(P.states[i].ops[j], inst) /\ P.states[i].ops[j].res = calls[k]
       /\ args = P.states[i].ops[j].args
       /\ Cloning(program, P, C, inst, many, k, args, J)
       /\ splits[k].pre \in Name /\ splits[k].post \in StateNames(P)
       /\ B \in DOMAIN P.states /\ P.states[B].name = splits[k].pre
       /\ SplitNames(P, inst, splits) /\ SplitStates(P, splits, DOMAIN splits, Bare)
       /\ CopiesCallOthers(P, inst)
       /\ AreStateCopies(C, inst, many, k, args, splits[k].post, new)
       /\ AreOpCopies(C, inst, k, args, InitsIn(C), e.ops)
       /\ e \in StateType /\ e.name = splits[k].pre
       /\ e.next = To(CopyName(inst, many, k, C.start))
       /\ IsEntered(P, Q, B, e, new)
       /\ program' = [program EXCEPT ![q] = Q]
  BY <1>10 DEF StatesStep
<1>12. IsUnfinished(P.states[B])
  BY <1>7, <1>9, <1>11 DEF SplitStates
<1>13. PICK pending, D, E :
         /\ pending = DOMAIN calls
         /\ D = Owed(P, C, inst, many, calls, splits, pending)
         /\ E = Owed(Q, C, inst, many, calls, splits, pending)
  OBVIOUS
<1>14. Debts(q) = D
  BY <1>1, <1>3, <1>9, <1>13 DEF Debts, Expanding
<1>15. Debts(q)' = E
  <2>1. program'[q] = Q /\ program'[x.callee] = C
    BY <1>2, <1>5, <1>11 DEF InvType
  <2>2. Caller' = Q
    BY <1>8, <2>1 DEF Caller
  <2>3. Callee' = C
    <3>1. Inst' = InstOf(Q, inst)
      BY <1>8, <2>2 DEF Inst, InstOf
    <3>2. InstOf(Q, inst) = InstOf(P, inst)
      BY <1>11 DEF InstOf, IsEntered
    <3> QED BY <1>5, <2>1, <3>1, <3>2 DEF Callee
  <2>4. /\ job'.parser = q /\ job'.inst = inst /\ job'.calls = calls /\ job'.splits = splits
        /\ Pending' = pending /\ phase' = "clone"
    BY <1>3, <1>8, <1>9, <1>13
  <2> QED BY <1>1, <1>13, <2>2, <2>3, <2>4 DEF Debts, Expanding
<1>16. IsFed(P, D) /\ IsFed(C, NoDebts) /\ HasTargets(C, {}, {})
  <2>1. Debts(x.callee) = NoDebts /\ Hidden(x.callee) = {} /\ Loose(x.callee) = {}
    BY <1>1, <1>5, OtherDebts
  <2> QED BY <1>5, <1>14, <2>1 DEF InvValid, InvUses, InvTargets
<1>17. \A a \in DOMAIN args : args[a] \in OuterValues(P) \/ IsAhead(P, calls[k], args[a])
  <2>1. IsSite(P, inst, i)
    BY <1>11, CallsFacts, CallOfFacts DEF IsCallOf, IsSite
  <2>2. OwesNothing(P, D, i)
    <3>1. pending = 1..Len(calls) /\ pending = DOMAIN splits /\ Len(calls) \in Nat
      BY ONLY <1>7, <1>13
    <3>2. pending \subseteq Nat
      BY ONLY <3>1
    <3>3. CallElsewhere(P, inst, splits, pending)
      BY <1>11, <3>1 DEF CallElsewhere, SplitStates
    <3>4. P \in ParserType /\ C \in ParserType /\ inst \in Name
      BY <1>5, <1>6
    <3>5. D = Owed(P, C, inst, many, calls, splits, pending)
      BY ONLY <1>13
    <3> QED BY ONLY <2>1, <3>2, <3>3, <3>4, <3>5, SiteOwes
  <2>3. IsFed(P, D) /\ i \in DOMAIN P.states /\ j \in DOMAIN P.states[i].ops /\ P.states[i].ops[j].op = "apply"
    BY <1>11, <1>16 DEF IsCallOf
  <2>4. ASSUME NEW a \in DOMAIN P.states[i].ops[j].args, NEW v, v = P.states[i].ops[j].args[a]
        PROVE  v \in OuterValues(P) \/ IsAhead(P, P.states[i].ops[j].res, v)
    BY ONLY <1>5, <2>2, <2>3, <2>4, SiteArgs
  <2> QED BY <1>11, <2>4
<1>18. IsFed(Q, E)
  <2>1. e.next.kind = "to" /\ splits[k].post \in Name /\ k \in pending
    BY <1>5, <1>7, <1>11, <1>13, ParserFacts DEF To, NextTo, StateNames
  <2> QED BY <1>11, <1>12, <1>13, <1>16, <1>17, <2>1, EnteredFed
<1>19. PICK loose, fewer :
         /\ loose = {splits[l].post : l \in DOMAIN splits} \cup {splits[l].pre : l \in Bare}
         /\ fewer = {splits[l].post : l \in DOMAIN splits} \cup {splits[l].pre : l \in Bare \ {k}}
  OBVIOUS
<1>20. Loose(q) = loose /\ Hidden(q) = {}
  BY <1>1, <1>3, <1>4, <1>9, <1>19 DEF Loose, Hidden
<1>21. Loose(q)' = fewer /\ Hidden(q)' = {}
  BY <1>3, <1>4, <1>8, <1>9, <1>19 DEF Loose, Hidden
<1>22. HasTargets(Q, {}, fewer)
  <2>1. HasTargets(P, {}, loose)
    BY <1>5, <1>20 DEF InvValid, InvTargets
  <2>2. \A n \in loose : n # P.states[B].name => n \in fewer
    BY <1>11, <1>19
  <2>3. UniqueStates(P)
    BY <1>5 DEF CodeFits, HasNames
  <2> QED BY <1>11, <1>12, <1>16, <2>1, <2>2, <2>3, EnteredTargets
<1> QED BY <1>1, <1>2, <1>5, <1>8, <1>11, <1>15, <1>18, <1>21, <1>22, OneValid

-----------------------------------------------------------------------------
(* The uses in code that was cut *)

\* The first values of the whole block are those in its code.
LEMMA FirstsAll ==
  ASSUME NEW ops \in Seq(Operation)
  PROVE  \A v : v \in Firsts(ops, Len(ops)) <=> InCode(ops, v)
<1>1. Len(ops) \in Nat /\ DOMAIN ops = 1..Len(ops) /\ \A n \in DOMAIN ops : ops[n] \in Operation
  BY SeqFacts
<1>2. ASSUME NEW v, InCode(ops, v)
      PROVE  v \in Firsts(ops, Len(ops))
  <2>1. PICK n \in DOMAIN ops : Produces(ops[n], v)
    BY <1>2 DEF InCode
  <2>2. v \in Name
    BY <1>1, <2>1, OpFacts DEF Produces
  <2>3. n < Len(ops) + 1
    BY <1>1
  <2> QED BY <2>1, <2>2, <2>3 DEF Firsts, Above
<1>3. ASSUME NEW v, v \in Firsts(ops, Len(ops))
      PROVE  InCode(ops, v)
  BY <1>3, AboveInCode DEF Firsts
<1> QED BY <1>2, <1>3

\* Code in two parts, the second of which uses what the first one yields.
LEMMA CutFed ==
  ASSUME NEW ops \in Seq(Operation), NEW j \in DOMAIN ops, NEW head, NEW tail,
         IsCut(ops, j, head, tail), ops[j].op = "apply"
  PROVE  /\ \A v : InCode(ops, v) => InCode(head, v) \/ InCode(tail, v)
         /\ \A v : Above(ops, j, v) => InCode(head, v)
         /\ \A O : CodeFed(ops, O) => CodeFed(head, O)
         /\ \A O, N : /\ CodeFed(ops, O) /\ O \subseteq N /\ \A v : InCode(head, v) => v \in N
                      => CodeFed(tail, N)
<1>1. /\ DOMAIN head = 1..j - 1 /\ DOMAIN tail = 1..Len(ops) - j
      /\ \A n \in DOMAIN head : n \in DOMAIN ops /\ n < j /\ head[n] = ops[n]
      /\ \A n \in DOMAIN tail : j + n \in DOMAIN ops /\ tail[n] = ops[j + n]
      /\ \A m \in DOMAIN ops :
           \/ m = j
           \/ m \in DOMAIN head /\ head[m] = ops[m]
           \/ \E n \in DOMAIN tail : m = j + n /\ tail[n] = ops[m]
  BY DEF IsCut
<1>2. Len(ops) \in Nat /\ DOMAIN ops = 1..Len(ops) /\ j \in Nat
  BY SeqFacts
<1>3. \A v : ~Produces(ops[j], v)
  BY DEF Produces
<1>4. \A v : InCode(ops, v) => InCode(head, v) \/ InCode(tail, v)
  <2> TAKE v
  <2> HAVE InCode(ops, v)
  <2>1. PICK m \in DOMAIN ops : Produces(ops[m], v)
    BY DEF InCode
  <2> QED BY <1>1, <1>3, <2>1 DEF InCode
<1>5. \A v : Above(ops, j, v) => InCode(head, v)
  <2> TAKE v
  <2> HAVE Above(ops, j, v)
  <2>1. PICK m \in DOMAIN ops : m < j /\ Produces(ops[m], v)
    BY DEF Above
  <2>2. m \in DOMAIN head
    BY <1>1, <1>2, <2>1
  <2> QED BY <1>1, <2>1, <2>2 DEF InCode
<1>6. ASSUME NEW O, CodeFed(ops, O)
      PROVE  CodeFed(head, O)
  <2> SUFFICES ASSUME NEW n \in DOMAIN head, NEW a \in DOMAIN head[n].args, NEW v, v = head[n].args[a],
                      v \notin O
               PROVE  Above(head, n, v)
    BY DEF CodeFed, Given
  <2>1. Above(ops, n, v)
    BY <1>1, <1>6 DEF CodeFed, Given
  <2>2. PICK m \in DOMAIN ops : m < n /\ Produces(ops[m], v)
    BY <2>1 DEF Above
  <2>3. m \in DOMAIN head
    BY <1>1, <1>2, <2>2
  <2> QED BY <1>1, <2>2, <2>3 DEF Above
<1>7. ASSUME NEW O, NEW N, CodeFed(ops, O), O \subseteq N, \A v : InCode(head, v) => v \in N
      PROVE  CodeFed(tail, N)
  <2> SUFFICES ASSUME NEW n \in DOMAIN tail, NEW a \in DOMAIN tail[n].args, NEW v, v = tail[n].args[a],
                      v \notin N
               PROVE  Above(tail, n, v)
    BY DEF CodeFed, Given
  <2>1. v \notin O /\ ~InCode(head, v)
    BY <1>7
  <2>2. Above(ops, j + n, v)
    BY <1>1, <1>7, <2>1 DEF CodeFed, Given
  <2>3. PICK m \in DOMAIN ops : m < j + n /\ Produces(ops[m], v)
    BY <2>2 DEF Above
  <2>4. m # j /\ m \notin DOMAIN head
    BY <1>1, <1>3, <2>1, <2>3 DEF InCode
  <2>5. PICK b \in DOMAIN tail : m = j + b /\ tail[b] = ops[m]
    BY <1>1, <2>4
  <2>6. b < n
    BY <1>1, <1>2, <2>3, <2>5
  <2> QED BY <2>3, <2>5, <2>6 DEF Above
<1> QED BY <1>4, <1>5, <1>6, <1>7

\* The values in a concatenation are those in its parts.
LEMMA JoinedInCode ==
  ASSUME NEW head \in Seq(Operation), NEW ops \in Seq(Operation), NEW new, new = head \o ops, NEW w
  PROVE  InCode(new, w) <=> InCode(head, w) \/ InCode(ops, w)
<1>1. IsJoined(new, head, ops)
  BY Joined
<1>2. /\ Len(head) \in Nat /\ DOMAIN head = 1..Len(head) /\ Len(ops) \in Nat /\ DOMAIN ops = 1..Len(ops)
      /\ DOMAIN new = 1..Len(head) + Len(ops)
      /\ \A n \in DOMAIN head : new[n] = head[n]
      /\ \A n \in DOMAIN ops : new[n + Len(head)] = ops[n]
  BY <1>1, SeqFacts DEF IsJoined
<1>3. \A j \in DOMAIN new : j \in DOMAIN head \/ \E n \in DOMAIN ops : j = n + Len(head)
  <2> TAKE j \in DOMAIN new
  <2>1. j \in DOMAIN head \/ (j - Len(head) \in DOMAIN ops /\ j = (j - Len(head)) + Len(head))
    BY <1>2
  <2> QED BY <2>1
<1>4. /\ \A n \in DOMAIN head : n \in DOMAIN new
      /\ \A n \in DOMAIN ops : n + Len(head) \in DOMAIN new
      /\ \A m \in DOMAIN head : \A n \in DOMAIN ops : m < n + Len(head)
      /\ \A m, n \in DOMAIN ops : m < n => m + Len(head) < n + Len(head)
  BY <1>2
<1>5. InCode(new, w) <=> InCode(head, w) \/ InCode(ops, w)
  <2>1. ASSUME InCode(new, w) PROVE InCode(head, w) \/ InCode(ops, w)
    <3>1. PICK j \in DOMAIN new : Produces(new[j], w)
      BY <2>1 DEF InCode
    <3> QED BY <1>2, <1>3, <3>1 DEF InCode
  <2>2. ASSUME InCode(head, w) PROVE InCode(new, w)
    BY <1>2, <1>4, <2>2 DEF InCode
  <2>3. ASSUME InCode(ops, w) PROVE InCode(new, w)
    BY <1>2, <1>4, <2>3 DEF InCode
  <2> QED BY <2>1, <2>2, <2>3
<1> QED BY <1>5

\* A concatenation is fed if its second part gets from the first what it needs.
LEMMA JoinedCodeFed ==
  ASSUME NEW head \in Seq(Operation), NEW ops \in Seq(Operation), NEW new, new = head \o ops,
         NEW O, CodeFed(head, O), NEW N, CodeFed(ops, N), \A v \in N : v \in O \/ InCode(head, v)
  PROVE  CodeFed(new, O)
<1>1. IsJoined(new, head, ops)
  BY Joined
<1>2. /\ Len(head) \in Nat /\ DOMAIN head = 1..Len(head) /\ Len(ops) \in Nat /\ DOMAIN ops = 1..Len(ops)
      /\ DOMAIN new = 1..Len(head) + Len(ops)
      /\ \A n \in DOMAIN head : new[n] = head[n]
      /\ \A n \in DOMAIN ops : new[n + Len(head)] = ops[n]
  BY <1>1, SeqFacts DEF IsJoined
<1>3. \A j \in DOMAIN new : j \in DOMAIN head \/ \E n \in DOMAIN ops : j = n + Len(head)
  <2> TAKE j \in DOMAIN new
  <2>1. j \in DOMAIN head \/ (j - Len(head) \in DOMAIN ops /\ j = (j - Len(head)) + Len(head))
    BY <1>2
  <2> QED BY <2>1
<1>4. /\ \A n \in DOMAIN head : n \in DOMAIN new
      /\ \A n \in DOMAIN ops : n + Len(head) \in DOMAIN new
      /\ \A m \in DOMAIN head : \A n \in DOMAIN ops : m < n + Len(head)
      /\ \A m, n \in DOMAIN ops : m < n => m + Len(head) < n + Len(head)
  BY <1>2
<1>6. CodeFed(new, O)
  <2> SUFFICES ASSUME NEW j \in DOMAIN new, NEW a \in DOMAIN new[j].args, NEW v, v = new[j].args[a],
                      v \notin O
               PROVE  Above(new, j, v)
    BY DEF CodeFed, Given
  <2>1. CASE j \in DOMAIN head
    <3>1. Above(head, j, v)
      BY <1>2, <2>1 DEF CodeFed, Given
    <3>2. PICK m \in DOMAIN head : m < j /\ Produces(head[m], v)
      BY <3>1 DEF Above
    <3> QED BY <1>2, <1>4, <3>2 DEF Above
  <2>2. ASSUME NEW n \in DOMAIN ops, j = n + Len(head)
        PROVE  Above(new, j, v)
    <3>1. v \in N \/ Above(ops, n, v)
      BY <1>2, <2>2 DEF CodeFed, Given
    <3>2. CASE v \in N
      <4>1. PICK m \in DOMAIN head : Produces(head[m], v)
        BY <3>2 DEF InCode
      <4> QED BY <1>2, <1>4, <2>2, <4>1 DEF Above
    <3>3. CASE Above(ops, n, v)
      <4>1. PICK m \in DOMAIN ops : m < n /\ Produces(ops[m], v)
        BY <3>3 DEF Above
      <4>2. m + Len(head) \in DOMAIN new /\ m + Len(head) < j /\ new[m + Len(head)] = ops[m]
        BY <1>2, <1>4, <2>2, <4>1
      <4> QED BY <4>1, <4>2 DEF Above
    <3> QED BY <3>1, <3>2, <3>3
  <2> QED BY <1>3, <2>1, <2>2
<1> QED BY <1>6

-----------------------------------------------------------------------------
(* What is owed once a call is cut out *)

\* The k-th call of the instance is the j-th operation of the i-th state, B its pre
\* and D its post state; R is the parser after the cut.
Cutting(P, R, C, inst, calls, splits, pending, k, i, j, B, D, head, tail) ==
  /\ P \in ParserType /\ C \in ParserType /\ inst \in Name /\ IsSSA(P) /\ UniqueStates(P)
  /\ i \in DOMAIN P.states /\ j \in DOMAIN P.states[i].ops
  /\ IsCallOf(P.states[i].ops[j], inst) /\ P.states[i].ops[j].res = calls[k] /\ calls[k] # NoValue
  /\ B \in DOMAIN P.states /\ P.states[B].name = splits[k].pre
  /\ D \in DOMAIN P.states /\ P.states[D].name = splits[k].post
  /\ i # B /\ i # D /\ B # D /\ IsUnfinished(P.states[D])
  /\ pending \subseteq Nat /\ pending \subseteq DOMAIN splits /\ k \in pending
  /\ \A l \in pending : calls[l] = calls[k] => l = k
  /\ SplitNames(P, inst, splits) /\ CallElsewhere(P, inst, splits, pending)
  /\ IsCutInto(P, R, i, j, B, D, head, tail)

\* The names of copied states begin with the name of the instance.
LEMMA CopyNameBegins ==
  ASSUME NEW inst \in Name, NEW many, NEW k \in Nat, NEW t \in Name
  PROVE  CopyName(inst, many, k, t) \in Name /\ Begins(CopyName(inst, many, k, t), inst)
<1>1. CopyPrefix(inst, k) \in Name /\ Begins(CopyPrefix(inst, k), inst)
  BY CopyPrefixName
<1>2. CASE many
  <2>1. CopyPrefix(inst, k) \o t \in Name /\ Begins(CopyPrefix(inst, k) \o t, CopyPrefix(inst, k))
    BY <1>1, BeginsConcat
  <2>2. Begins(CopyPrefix(inst, k) \o t, inst)
    BY <1>1, <2>1, BeginsTrans
  <2> QED BY <1>2, <2>1, <2>2 DEF CopyName
<1>3. CASE ~many
  <2>1. inst \o t \in Name /\ Begins(inst \o t, inst)
    BY BeginsConcat
  <2> QED BY <1>3, <2>1 DEF CopyName
<1> QED BY <1>2, <1>3

\* The three states around a cut.
LEMMA CuttingFacts ==
  ASSUME NEW P, NEW R, NEW C, NEW inst, NEW calls, NEW splits, NEW pending, NEW k,
         NEW i, NEW j, NEW B, NEW D, NEW head, NEW tail,
         Cutting(P, R, C, inst, calls, splits, pending, k, i, j, B, D, head, tail)
  PROVE  /\ P.states[i].ops \in Seq(Operation) /\ P.states[i].ops[j].op = "apply"
         /\ IsCut(P.states[i].ops, j, head, tail)
         /\ P.states[B].ops \in Seq(Operation) /\ R.states[B].ops = head \o P.states[B].ops
         /\ Calls(P.states[i]) # {} /\ Calls(P.states[B]) = {} /\ DOMAIN P.states[D].ops = {}
         /\ head \in Seq(Operation)
<1>1. P \in ParserType /\ i \in DOMAIN P.states /\ B \in DOMAIN P.states /\ k \in pending
  BY DEF Cutting
<1>2. P.states[i].ops \in Seq(Operation) /\ P.states[B].ops \in Seq(Operation)
  BY <1>1, ParserFacts
<1>3. P.states[i].ops[j].op = "apply" /\ j \in DOMAIN P.states[i].ops
  BY DEF Cutting, IsCallOf
<1>4. /\ IsCut(P.states[i].ops, j, head, tail)
      /\ R.states[B] = [P.states[B] EXCEPT !.ops = head \o @]
  BY DEF Cutting, IsCutInto
<1>5. R.states[B].ops = head \o P.states[B].ops
  BY <1>1, <1>4, ParserFacts DEF StateType
<1>6. Calls(P.states[i]) # {}
  BY <1>3, CallsFacts
<1>7. Calls(P.states[B]) = {}
  BY <1>1 DEF Cutting, CallElsewhere
<1>8. P.states[D].ops = <<>>
  BY DEF Cutting, IsUnfinished
<1> QED BY <1>2, <1>3, <1>4, <1>5, <1>6, <1>7, <1>8 DEF IsCut

\* What lies before the calls and in the pre states after the cut.
CutKeeps(P, R, calls, splits, pending, k, B, head) ==
  /\ \A v : IsAhead(P, calls[k], v) => InCode(head, v)
  /\ \A v : IsIn(P, splits[k].pre, v) => InCode(P.states[B].ops, v)
  /\ \A l \in pending : l # k =>
       /\ \A v : IsAhead(P, calls[l], v) => IsAhead(R, calls[l], v) \/ InCode(head, v)
       /\ \A v : IsIn(P, splits[l].pre, v) => IsIn(R, splits[l].pre, v)

\* The cut loses nothing but the code before the call that goes to the pre state.
LEMMA CuttingKeeps ==
  ASSUME NEW P, NEW R, NEW C, NEW inst, NEW calls, NEW splits, NEW pending, NEW k,
         NEW i, NEW j, NEW B, NEW D, NEW head, NEW tail,
         Cutting(P, R, C, inst, calls, splits, pending, k, i, j, B, D, head, tail)
  PROVE  CutKeeps(P, R, calls, splits, pending, k, B, head)
<1>1. /\ P.states[i].ops \in Seq(Operation) /\ P.states[i].ops[j].op = "apply"
      /\ IsCut(P.states[i].ops, j, head, tail)
      /\ Calls(P.states[i]) # {} /\ Calls(P.states[B]) = {} /\ DOMAIN P.states[D].ops = {}
  BY CuttingFacts
<1>2. /\ P \in ParserType /\ IsSSA(P) /\ UniqueStates(P)
      /\ i \in DOMAIN P.states /\ j \in DOMAIN P.states[i].ops
      /\ P.states[i].ops[j].res = calls[k] /\ calls[k] # NoValue
      /\ B \in DOMAIN P.states /\ P.states[B].name = splits[k].pre
      /\ D \in DOMAIN P.states /\ P.states[D].name = splits[k].post /\ k \in pending
      /\ pending \subseteq DOMAIN splits
      /\ \A l \in pending : calls[l] = calls[k] => l = k
  BY DEF Cutting
<1>3. \A m \in DOMAIN P.states : \A n \in DOMAIN P.states[m].ops :
        P.states[m].ops[n].res = calls[k] => m = i /\ n = j
  <2> TAKE m \in DOMAIN P.states
  <2> TAKE n \in DOMAIN P.states[m].ops
  <2> HAVE P.states[m].ops[n].res = calls[k]
  <2>1. calls[k] \in Results(P.states[m].ops) /\ calls[k] \in Results(P.states[i].ops)
    BY <1>2 DEF Results
  <2>2. m = i
    BY <1>2, <2>1 DEF IsSSA
  <2> QED BY <1>2, <2>2 DEF IsSSA, DefinedOnce
<1>4. \A v : Above(P.states[i].ops, j, v) => InCode(head, v)
  BY <1>1, <1>2, CutFed
<1>5. ASSUME NEW v, IsAhead(P, calls[k], v) PROVE InCode(head, v)
  <2>1. PICK m \in DOMAIN P.states : AheadIn(P.states[m], calls[k], v)
    BY <1>5 DEF IsAhead
  <2>2. PICK n \in DOMAIN P.states[m].ops : P.states[m].ops[n].res = calls[k] /\ Above(P.states[m].ops, n, v)
    BY <2>1 DEF AheadIn
  <2> QED BY <1>3, <1>4, <2>2
<1>6. ASSUME NEW v, IsIn(P, splits[k].pre, v) PROVE InCode(P.states[B].ops, v)
  BY <1>2, <1>6 DEF IsIn, UniqueStates
<1>7. /\ \A m \in DOMAIN P.states : m \notin {i, B, D} => R.states[m] = P.states[m]
      /\ R.states[D].ops = tail /\ DOMAIN R.states = DOMAIN P.states
  BY DEF Cutting, IsCutInto, SameRest, ParserState
<1>8. ASSUME NEW l \in pending, l # k, NEW v, IsAhead(P, calls[l], v), ~InCode(head, v)
      PROVE  IsAhead(R, calls[l], v)
  <2>1. PICK m \in DOMAIN P.states : AheadIn(P.states[m], calls[l], v)
    BY <1>8 DEF IsAhead
  <2>2. PICK n \in DOMAIN P.states[m].ops : /\ P.states[m].ops[n].op = "apply"
                                            /\ P.states[m].ops[n].res = calls[l]
                                            /\ Above(P.states[m].ops, n, v)
    BY <2>1 DEF AheadIn
  <2>3. m # B /\ m # D
    BY <1>1, <2>2, CallsFacts
  <2>4. CASE m # i
    <3>1. R.states[m] = P.states[m] /\ m \in DOMAIN R.states
      BY <1>7, <2>3, <2>4
    <3> QED BY <2>1, <3>1 DEF IsAhead
  <2>5. CASE m = i
    <3>1. n # j
      BY <1>2, <1>8, <2>2, <2>5
    <3>2. /\ DOMAIN head = 1..j - 1 /\ DOMAIN tail = 1..Len(P.states[i].ops) - j
          /\ \A a \in DOMAIN head : head[a] = P.states[i].ops[a]
          /\ \A a \in DOMAIN tail : tail[a] = P.states[i].ops[j + a]
          /\ \A a \in DOMAIN P.states[i].ops :
               a = j \/ a \in DOMAIN head \/ \E b \in DOMAIN tail : a = j + b
      BY <1>1 DEF IsCut
    <3>3. Len(P.states[i].ops) \in Nat /\ DOMAIN P.states[i].ops = 1..Len(P.states[i].ops) /\ j \in Nat
      BY <1>1, <1>2, SeqFacts
    <3>4. PICK a \in DOMAIN P.states[i].ops : a < n /\ Produces(P.states[i].ops[a], v)
      BY <2>2, <2>5 DEF Above
    <3>5. a \notin DOMAIN head /\ a # j
      BY <1>1, <1>8, <3>2, <3>4 DEF InCode, Produces
    <3>6. PICK b \in DOMAIN tail : a = j + b
      BY <3>2, <3>5
    <3>7. n \notin DOMAIN head
      BY <2>2, <2>5, <3>2, <3>3, <3>4, <3>5
    <3>8. PICK c \in DOMAIN tail : n = j + c
      BY <2>2, <2>5, <3>1, <3>2, <3>7
    <3>9. b < c
      BY <3>2, <3>3, <3>4, <3>6, <3>8
    <3>10. Above(tail, c, v)
      BY <3>2, <3>4, <3>6, <3>9 DEF Above
    <3>11. tail[c].op = "apply" /\ tail[c].res = calls[l]
      BY <2>2, <2>5, <3>2, <3>8
    <3>12. AheadIn(R.states[D], calls[l], v)
      BY <1>7, <3>10, <3>11 DEF AheadIn
    <3> QED BY <1>2, <1>7, <3>12 DEF IsAhead
  <2> QED BY <2>4, <2>5
<1>9. ASSUME NEW l \in pending, l # k, NEW v, IsIn(P, splits[l].pre, v)
      PROVE  IsIn(R, splits[l].pre, v)
  <2>1. PICK m \in DOMAIN P.states : P.states[m].name = splits[l].pre /\ InCode(P.states[m].ops, v)
    BY <1>9 DEF IsIn
  <2>2. splits[l].pre # splits[k].pre /\ splits[l].pre # splits[k].post
    BY <1>2, <1>9 DEF Cutting, SplitNames
  <2>3. Calls(P.states[m]) = {}
    BY <2>1 DEF Cutting, CallElsewhere
  <2>4. m \notin {i, B, D}
    BY <1>1, <1>2, <2>1, <2>2, <2>3
  <2>5. R.states[m] = P.states[m] /\ m \in DOMAIN R.states
    BY <1>7, <2>4
  <2> QED BY <2>1, <2>5 DEF IsIn
<1> QED BY <1>5, <1>6, <1>8, <1>9 DEF CutKeeps

\* Of what was owed, O is what is still owed and the rest is in the pre state.
CutOwes(P, R, D0, O, B, head) ==
  /\ \A m \in DOMAIN P.states : \A v \in D0[P.states[m].name] :
       v \in O[P.states[m].name] \/ InCode(head, v) \/ InCode(P.states[B].ops, v)
  /\ \A v \in D0[P.states[B].name] : InCode(head, v)

\* What the cut does not bring to the pre state is still owed.
LEMMA CuttingOwes ==
  ASSUME NEW P, NEW R, NEW C, NEW inst, NEW calls, NEW splits, NEW pending, NEW k,
         NEW i, NEW j, NEW B, NEW D, NEW head, NEW tail,
         Cutting(P, R, C, inst, calls, splits, pending, k, i, j, B, D, head, tail),
         NEW many, NEW D0, D0 = Owed(P, C, inst, many, calls, splits, pending),
         NEW O, O = Owed(R, C, inst, many, calls, splits, pending \ {k})
  PROVE  CutOwes(P, R, D0, O, B, head)
<1>1. /\ \A v : IsAhead(P, calls[k], v) => InCode(head, v)
      /\ \A v : IsIn(P, splits[k].pre, v) => InCode(P.states[B].ops, v)
      /\ \A l \in pending : l # k =>
           /\ \A v : IsAhead(P, calls[l], v) => IsAhead(R, calls[l], v) \/ InCode(head, v)
           /\ \A v : IsIn(P, splits[l].pre, v) => IsIn(R, splits[l].pre, v)
  BY CuttingKeeps DEF CutKeeps
<1>2. /\ P \in ParserType /\ C \in ParserType /\ inst \in Name
      /\ B \in DOMAIN P.states /\ P.states[B].name = splits[k].pre /\ k \in pending
      /\ pending \subseteq Nat /\ pending \subseteq DOMAIN splits
      /\ SplitNames(P, inst, splits)
  BY DEF Cutting
<1>3. \A m \in DOMAIN P.states : P.states[m].name \in Name
  BY <1>2, ParserFacts
<1>4. ASSUME NEW m \in DOMAIN P.states, NEW v \in D0[P.states[m].name],
             ~InCode(head, v), ~InCode(P.states[B].ops, v)
      PROVE  v \in O[P.states[m].name]
  <2>1. PICK n : n = P.states[m].name
    OBVIOUS
  <2>2. n \in Name /\ v \in Name /\ IsOwed(P, C, inst, many, calls, splits, pending, n, v)
    BY <1>3, <2>1 DEF Owed
  <2>3. PICK l \in pending :
          \/ n = splits[l].pre /\ IsAhead(P, calls[l], v)
          \/ /\ \E t \in StateNames(C) : n = CopyName(inst, many, l, t)
             /\ IsAhead(P, calls[l], v) \/ IsIn(P, splits[l].pre, v)
    BY <2>2 DEF IsOwed
  <2>4. l # k
    BY <1>1, <1>4, <2>3
  <2>5. /\ IsAhead(P, calls[l], v) => IsAhead(R, calls[l], v)
        /\ IsIn(P, splits[l].pre, v) => IsIn(R, splits[l].pre, v)
    BY <1>1, <1>4, <2>4
  <2>6. IsOwed(R, C, inst, many, calls, splits, pending \ {k}, n, v)
    BY <2>3, <2>4, <2>5 DEF IsOwed
  <2> QED BY <2>1, <2>2, <2>6 DEF Owed
<1>5. ASSUME NEW v \in D0[P.states[B].name]
      PROVE  InCode(head, v)
  <2>1. PICK n : n = P.states[B].name
    OBVIOUS
  <2>2. n \in Name /\ IsOwed(P, C, inst, many, calls, splits, pending, n, v)
    BY <1>2, <1>3, <2>1 DEF Owed
  <2>3. ASSUME NEW l \in pending, NEW t \in StateNames(C), n = CopyName(inst, many, l, t)
        PROVE  FALSE
    <3>1. t \in Name /\ l \in Nat
      BY <1>2, ParserFacts DEF StateNames
    <3>2. Begins(n, inst)
      BY <1>2, <2>3, <3>1, CopyNameBegins
    <3>3. Apart(inst, n)
      BY <1>2, <2>1 DEF SplitNames
    <3> QED BY <3>2, <3>3 DEF Apart
  <2>4. PICK l \in pending : n = splits[l].pre /\ IsAhead(P, calls[l], v)
    BY <2>2, <2>3 DEF IsOwed
  <2>5. l = k
    BY <1>2, <2>1, <2>4 DEF SplitNames
  <2> QED BY <1>1, <2>4, <2>5
<1> QED BY <1>4, <1>5 DEF CutOwes

\* The debts by the places of the states.
DebtsOf(R, O) == [m \in DOMAIN R.states |-> O[R.states[m].name]]

\* After the cut the code is supplied with all values of the pre state.
LEMMA CuttingSupplied ==
  ASSUME NEW P, NEW R, NEW C, NEW inst, NEW calls, NEW splits, NEW pending, NEW k,
         NEW i, NEW j, NEW B, NEW D, NEW head, NEW tail,
         Cutting(P, R, C, inst, calls, splits, pending, k, i, j, B, D, head, tail),
         NEW many, NEW D0, D0 = Owed(P, C, inst, many, calls, splits, pending),
         NEW O, O = Owed(R, C, inst, many, calls, splits, pending \ {k}), IsFed(P, D0)
  PROVE  Supplied(R, B, Len(R.states[B].ops), DebtsOf(R, O))
<1>1. /\ P.states[i].ops \in Seq(Operation) /\ P.states[i].ops[j].op = "apply"
      /\ IsCut(P.states[i].ops, j, head, tail)
      /\ P.states[B].ops \in Seq(Operation) /\ R.states[B].ops = head \o P.states[B].ops
      /\ head \in Seq(Operation)
  BY CuttingFacts
<1>2. /\ P \in ParserType /\ C \in ParserType /\ inst \in Name
      /\ i \in DOMAIN P.states /\ j \in DOMAIN P.states[i].ops
      /\ IsCallOf(P.states[i].ops[j], inst) /\ i # B
      /\ B \in DOMAIN P.states /\ D \in DOMAIN P.states /\ B # D
      /\ pending \subseteq Nat /\ CallElsewhere(P, inst, splits, pending)
  BY DEF Cutting
<1>3. /\ R \in ParserType /\ DOMAIN R.states = DOMAIN P.states
      /\ R.top = P.top /\ R.params = P.params /\ OuterValues(R) = OuterValues(P)
      /\ R.states[i] = ParserState(P.states[i].name, <<>>, To(P.states[B].name))
      /\ R.states[B] = [P.states[B] EXCEPT !.ops = head \o @]
      /\ R.states[D] = ParserState(P.states[D].name, tail, P.states[i].next)
      /\ \A m \in DOMAIN P.states : m \notin {i, B, D} => R.states[m] = P.states[m]
  BY DEF Cutting, IsCutInto, SameRest, OuterValues
<1>4. /\ \A m \in DOMAIN P.states : \A v \in D0[P.states[m].name] :
           v \in O[P.states[m].name] \/ InCode(head, v) \/ InCode(P.states[B].ops, v)
      /\ \A v \in D0[P.states[B].name] : InCode(head, v)
  <2>1. CutOwes(P, R, D0, O, B, head)
    BY CuttingOwes
  <2> QED BY ONLY <2>1 DEF CutOwes
<1>5. /\ \A v : InCode(P.states[i].ops, v) => InCode(head, v) \/ InCode(tail, v)
      /\ \A N : CodeFed(P.states[i].ops, N) => CodeFed(head, N)
      /\ \A N, U : /\ CodeFed(P.states[i].ops, N) /\ N \subseteq U /\ \A v : InCode(head, v) => v \in U
                   => CodeFed(tail, U)
  BY <1>1, <1>2, CutFed
<1>6. Fed(P.states[i], OuterValues(P))
  <2>1. IsSite(P, inst, i)
    BY <1>2, CallsFacts, CallOfFacts DEF IsCallOf, IsSite
  <2>2. OwesNothing(P, D0, i)
    BY <1>2, <2>1, SiteOwes
  <2>3. OuterValues(P) \cup D0[P.states[i].name] = OuterValues(P)
    BY <2>2 DEF OwesNothing
  <2> QED BY <1>2, <2>3 DEF IsFed
<1>7. CodeFed(head, OuterValues(R))
  BY <1>3, <1>5, <1>6 DEF Fed
<1>8. Fed(P.states[B], OuterValues(P) \cup D0[P.states[B].name])
  BY <1>2 DEF IsFed
<1>9. /\ CodeFed(R.states[B].ops, OuterValues(R))
      /\ \A v : InCode(R.states[B].ops, v) <=> InCode(head, v) \/ InCode(P.states[B].ops, v)
  <2>1. CodeFed(P.states[B].ops, OuterValues(P) \cup D0[P.states[B].name])
    BY <1>8 DEF Fed
  <2>2. \A v \in OuterValues(P) \cup D0[P.states[B].name] : v \in OuterValues(R) \/ InCode(head, v)
    BY <1>3, <1>4
  <2>3. PICK ops, new, U, N :
          /\ ops = P.states[B].ops /\ new = R.states[B].ops /\ U = OuterValues(R)
          /\ N = OuterValues(P) \cup D0[P.states[B].name]
    OBVIOUS
  <2>4. /\ head \in Seq(Operation) /\ ops \in Seq(Operation) /\ new = head \o ops
        /\ CodeFed(head, U) /\ CodeFed(ops, N) /\ \A v \in N : v \in U \/ InCode(head, v)
    BY ONLY <1>1, <1>7, <2>1, <2>2, <2>3
  <2>5. /\ CodeFed(new, U)
        /\ \A v : InCode(new, v) <=> InCode(head, v) \/ InCode(ops, v)
    <3>1. CodeFed(new, U)
      BY ONLY <2>4, JoinedCodeFed
    <3>2. ASSUME NEW v PROVE InCode(new, v) <=> InCode(head, v) \/ InCode(ops, v)
      BY ONLY <2>4, JoinedInCode
    <3> QED BY <3>1, <3>2
  <2> QED BY ONLY <2>3, <2>5
<1>10. Fed(R.states[B], OuterValues(R))
  <2>1. R.states[B].next = P.states[B].next
    BY <1>2, <1>3, ParserFacts DEF StateType
  <2>2. NextFed(R.states[B], OuterValues(R))
    BY <1>3, <1>4, <1>8, <1>9, <2>1 DEF Fed, NextFed
  <2> QED BY <1>9, <2>2 DEF Fed
<1>11. PICK F : F = Firsts(R.states[B].ops, Len(R.states[B].ops))
  OBVIOUS
<1>12. \A v : v \in F <=> InCode(R.states[B].ops, v)
  <2>1. R.states[B].ops \in Seq(Operation)
    BY <1>2, <1>3, ParserFacts
  <2> QED BY <1>11, <2>1, FirstsAll
<1>13. \A v : InCode(head, v) \/ InCode(P.states[B].ops, v) => v \in F
  BY <1>9, <1>12
<1>14. ASSUME NEW m \in DOMAIN P.states, m # B
       PROVE  Fed(R.states[m], OuterValues(R) \cup F \cup O[R.states[m].name])
  <2>1. PICK N : N = OuterValues(R) \cup F \cup O[R.states[m].name]
    OBVIOUS
  <2>2. CASE m = i
    BY <1>3, <2>2 DEF Fed, CodeFed, NextFed, ParserState, To, NextTo
  <2>3. CASE m = D
    <3>1. /\ R.states[m].ops = tail /\ R.states[m].next = P.states[i].next
      BY <1>3, <2>3 DEF ParserState
    <3>2. CodeFed(tail, N)
      BY <1>3, <1>5, <1>6, <1>13, <2>1 DEF Fed
    <3>3. NextFed(R.states[m], N)
      <4>1. NextFed(P.states[i], OuterValues(P))
        BY <1>6 DEF Fed
      <4> QED BY <1>3, <1>5, <1>13, <2>1, <3>1, <4>1 DEF NextFed
    <3> QED BY <2>1, <3>1, <3>2, <3>3 DEF Fed
  <2>4. CASE m \notin {i, D}
    <3>1. R.states[m] = P.states[m]
      BY <1>3, <1>14, <2>4
    <3>2. Fed(P.states[m], OuterValues(P) \cup D0[P.states[m].name])
      BY DEF IsFed
    <3>3. OuterValues(P) \cup D0[P.states[m].name] \subseteq N
      BY <1>3, <1>4, <1>13, <2>1, <3>1
    <3> QED BY <2>1, <3>1, <3>2, <3>3, FedMore
  <2> QED BY <2>2, <2>3, <2>4
<1>15. CodeFed(R.top, ToSet(R.params))
  BY <1>3 DEF IsFed
<1>16. \A m \in DOMAIN R.states : m # B =>
         Fed(R.states[m], Allowed(R, B, Len(R.states[B].ops), DebtsOf(R, O), m))
  BY <1>3, <1>11, <1>14 DEF Allowed, DebtsOf
<1> QED BY <1>10, <1>15, <1>16 DEF Supplied

\* The result of a call is never owed.
LEMMA NoCallOwed ==
  ASSUME NEW P \in ParserType, IsSSA(P), UniqueStates(P), NEW C, NEW inst, NEW many, NEW calls, NEW splits,
         NEW pending, NEW O, O = Owed(P, C, inst, many, calls, splits, pending)
  PROVE  NoCallIn(P, DebtsOf(P, O))
<1>1. \A m \in DOMAIN P.states : P.states[m].name \in Name
  BY ParserFacts
<1>2. ASSUME NEW a \in DOMAIN P.states, NEW c \in Calls(P.states[a]), NEW m \in DOMAIN P.states,
             c.res \in O[P.states[m].name]
      PROVE  FALSE
  <2>1. PICK v : v = c.res
    OBVIOUS
  <2>2. IsOwed(P, C, inst, many, calls, splits, pending, P.states[m].name, v)
    BY <1>1, <1>2, <2>1 DEF Owed
  <2>3. \E b \in DOMAIN P.states : InCode(P.states[b].ops, v)
    BY <2>2, AboveInCode DEF IsOwed, IsAhead, AheadIn, IsIn
  <2>4. PICK b \in DOMAIN P.states : InCode(P.states[b].ops, v)
    BY <2>3
  <2>5. PICK n \in DOMAIN P.states[b].ops : Produces(P.states[b].ops[n], v)
    BY <2>4 DEF InCode
  <2>6. PICK j \in DOMAIN P.states[a].ops : P.states[a].ops[j].op = "apply" /\ c = CallOf(P.states[a].ops[j])
    BY CallsFacts
  <2>7. P.states[a].ops[j].res = v
    BY <2>1, <2>6, CallOfFacts
  <2>8. v \in Results(P.states[a].ops) /\ v \in Results(P.states[b].ops) /\ v # NoValue
    BY <2>5, <2>7 DEF Results, Produces
  <2>9. a = b
    BY <2>8 DEF IsSSA
  <2>10. j = n
    BY <2>5, <2>7, <2>8, <2>9 DEF IsSSA, DefinedOnce, Produces
  <2> QED BY <2>5, <2>6, <2>9, <2>10 DEF Produces
<1> QED BY <1>2 DEF NoCallIn, DebtsOf

\* Once the uses of the block are adjusted, the code is fed what R owes.
LEMMA SuppliedFed ==
  ASSUME NEW R \in ParserType, NEW B \in DOMAIN R.states, NEW Q \in ParserType, Keeps(R, Q, B),
         NEW C, NEW inst, NEW many, NEW calls, NEW splits, NEW pending,
         NEW O, O = Owed(R, C, inst, many, calls, splits, pending),
         NEW E, E = Owed(Q, C, inst, many, calls, splits, pending),
         Supplied(Q, B, 0, DebtsOf(R, O)), HoldsAll(R, Q)
  PROVE  IsFed(Q, E)
<1>1. /\ DOMAIN Q.states = DOMAIN R.states
      /\ \A m \in DOMAIN R.states : Q.states[m].name = R.states[m].name /\ R.states[m].name \in Name
  BY ParserFacts DEF Keeps, SameRest
<1>2. Q.states[B].ops \in Seq(Operation)
  BY <1>1, ParserFacts
<1>3. Firsts(Q.states[B].ops, 0) = {}
  <2>1. DOMAIN Q.states[B].ops = 1..Len(Q.states[B].ops) /\ Len(Q.states[B].ops) \in Nat
    BY <1>2, SeqFacts
  <2>2. \A n \in DOMAIN Q.states[B].ops : ~(n < 0 + 1)
    BY <2>1
  <2> QED BY <2>2 DEF Firsts, Above
<1>4. /\ \A id, v : IsAhead(R, id, v) => v \in OuterValues(Q) \/ IsAhead(Q, id, v)
      /\ \A n, v : IsIn(R, n, v) => v \in OuterValues(Q) \/ IsIn(Q, n, v)
  BY <1>1 DEF HoldsAll, Holds, IsAhead, IsIn
<1>5. ASSUME NEW n \in Name, NEW v \in O[n]
      PROVE  v \in OuterValues(Q) \/ v \in E[n]
  <2>1. v \in Name /\ IsOwed(R, C, inst, many, calls, splits, pending, n, v)
    BY <1>5 DEF Owed
  <2>2. v \in OuterValues(Q) \/ IsOwed(Q, C, inst, many, calls, splits, pending, n, v)
    BY <1>4, <2>1 DEF IsOwed
  <2> QED BY <2>1, <2>2 DEF Owed
<1>6. ASSUME NEW m \in DOMAIN Q.states
      PROVE  Fed(Q.states[m], OuterValues(Q) \cup E[Q.states[m].name])
  <2>1. CASE m = B
    <3>1. Fed(Q.states[B], OuterValues(Q))
      BY DEF Supplied
    <3> QED BY <2>1, <3>1, FedMore
  <2>2. CASE m # B
    <3>1. Fed(Q.states[m], Allowed(Q, B, 0, DebtsOf(R, O), m))
      BY <2>2 DEF Supplied
    <3>2. Allowed(Q, B, 0, DebtsOf(R, O), m) = OuterValues(Q) \cup O[R.states[m].name]
      BY <1>1, <1>3, <1>6 DEF Allowed, DebtsOf
    <3>3. Allowed(Q, B, 0, DebtsOf(R, O), m) \subseteq OuterValues(Q) \cup E[Q.states[m].name]
      BY <1>1, <1>5, <1>6, <3>2
    <3> QED BY <3>1, <3>3, FedMore
  <2> QED BY <2>1, <2>2
<1> QED BY <1>6 DEF IsFed, Supplied

\* The loose states have no code.
AreUnfinished(P, loose) ==
  \A n \in loose : \E m \in DOMAIN P.states : P.states[m].name = n /\ IsUnfinished(P.states[m])

\* Everything but n is left.
AllBut(loose, n, fewer) == \A l \in loose : l # n => l \in fewer

\* The cut gives the post state the transition of the site; every state has its targets.
LEMMA CutTargets ==
  ASSUME NEW P, NEW R, NEW i, NEW j, NEW B \in DOMAIN P.states, NEW D \in DOMAIN P.states, NEW head, NEW tail,
         IsCutInto(P, R, i, j, B, D, head, tail), i # B, i # D, B # D, i \in DOMAIN P.states,
         P \in ParserType, Calls(P.states[i]) # {}, NEW Q, Keeps(R, Q, B),
         UniqueStates(P), NEW loose, HasTargets(P, {}, loose), AreUnfinished(P, loose),
         NEW fewer, AllBut(loose, P.states[D].name, fewer)
  PROVE  HasTargets(Q, {}, fewer)
<1>1. /\ DOMAIN R.states = DOMAIN P.states /\ R.start = P.start
      /\ R.states[i] = ParserState(P.states[i].name, <<>>, To(P.states[B].name))
      /\ R.states[B] = [P.states[B] EXCEPT !.ops = head \o @]
      /\ R.states[D] = ParserState(P.states[D].name, tail, P.states[i].next)
      /\ \A m \in DOMAIN P.states : m \notin {i, B, D} => R.states[m] = P.states[m]
  BY DEF IsCutInto, SameRest
<1>2. /\ DOMAIN Q.states = DOMAIN R.states /\ Q.start = R.start
      /\ \A m \in DOMAIN R.states :
           /\ Q.states[m].name = R.states[m].name
           /\ Q.states[m].next.kind = R.states[m].next.kind
           /\ Q.states[m].next.targets = R.states[m].next.targets
  BY DEF Keeps, SameRest
<1>3. R.states[B].name = P.states[B].name /\ R.states[B].next = P.states[B].next
  <2>1. P.states[B] \in StateType /\ R.states[B] = [P.states[B] EXCEPT !.ops = head \o @]
    BY <1>1, ParserFacts
  <2> QED BY ONLY <2>1 DEF StateType
<1>4. ASSUME NEW m \in DOMAIN P.states
      PROVE  R.states[m].name = P.states[m].name
  <2>1. CASE m = B
    BY <1>3, <2>1
  <2>2. CASE m = i
    BY <1>1, <2>2 DEF ParserState
  <2>3. CASE m = D
    BY <1>1, <2>3 DEF ParserState
  <2>4. CASE m \notin {i, B, D}
    BY <1>1, <2>4
  <2> QED BY <2>1, <2>2, <2>3, <2>4
<1>5. StateNames(Q) = StateNames(P)
  BY <1>1, <1>2, <1>4 DEF StateNames
<1>6. /\ P.start \in StateNames(P)
      /\ \A m \in DOMAIN P.states :
           /\ ToSet(P.states[m].next.targets) \subseteq StateNames(P)
           /\ P.states[m].next.kind = "missing" => P.states[m].name \in loose
  BY DEF HasTargets
<1>7. P.states[i].next.kind # "missing"
  <2>1. ASSUME P.states[i].name \in loose PROVE FALSE
    <3>1. PICK m \in DOMAIN P.states : P.states[m].name = P.states[i].name /\ IsUnfinished(P.states[m])
      BY <2>1 DEF AreUnfinished
    <3>2. m = i
      BY <3>1 DEF UniqueStates
    <3> QED BY <3>1, <3>2, UnfinishedUses
  <2> QED BY <1>6, <2>1
<1>8. ASSUME NEW m \in DOMAIN P.states
      PROVE  /\ ToSet(R.states[m].next.targets) \subseteq StateNames(P)
             /\ R.states[m].next.kind = "missing" => P.states[m].name \in fewer
  <2>1. CASE m = i
    <3>1. R.states[m].next.kind = "to" /\ R.states[m].next.targets = <<P.states[B].name>>
      BY <1>1, <2>1 DEF ParserState, To, NextTo
    <3>2. ToSet(<<P.states[B].name>>) = {P.states[B].name}
      BY DEF ToSet
    <3> QED BY <3>1, <3>2 DEF StateNames
  <2>2. CASE m = D
    <3>1. R.states[m].next = P.states[i].next
      BY <1>1, <2>2 DEF ParserState
    <3> QED BY <1>6, <1>7, <3>1
  <2>3. CASE m \notin {i, D}
    <3>1. R.states[m].next = P.states[m].next
      BY <1>1, <1>3, <2>3
    <3>2. P.states[m].name # P.states[D].name
      BY <2>3 DEF UniqueStates
    <3> QED BY <1>6, <3>1, <3>2 DEF AllBut
  <2> QED BY <2>1, <2>2, <2>3
<1> QED BY <1>1, <1>2, <1>4, <1>5, <1>6, <1>8 DEF HasTargets

-----------------------------------------------------------------------------
(* The step that moves the code around a call keeps the code valid *)

\* FinalizeSplit pays the debts of its call: the code stays valid.
LEMMA FinalizeValid ==
  ASSUME Inv, InvValid, FinalizeSplit
  PROVE  InvValid'
<1>1. PICK q, P, inst, calls, splits, k, J, pending :
        /\ q = job.parser /\ P = Caller /\ inst = job.inst
        /\ calls = job.calls /\ splits = job.splits /\ k = job.at /\ J = Lasting(job.parser)
        /\ pending = {l \in DOMAIN calls : l >= k}
  OBVIOUS
<1>2. InvType /\ InvCode /\ InvJob
  BY DEF Inv
<1>3. /\ phase = "finalize" /\ phase' = "finalize" /\ InJob /\ InJob'
      /\ q \in DOMAIN program /\ P \in ParserType /\ P = program[q]
      /\ CodeFits(program, P, J)
      /\ Len(calls) \in Nat /\ DOMAIN calls = 1..Len(calls) /\ DOMAIN splits = DOMAIN calls
      /\ job'.parser = q /\ job'.inst = inst /\ job'.calls = calls /\ job'.splits = splits
      /\ Pending = pending /\ Pending' = pending \ {k}
      /\ Waiting = pending /\ Waiting' = pending \ {k}
      /\ Bare = {} /\ Bare' = {} /\ k \in pending /\ pending \subseteq DOMAIN calls
  BY <1>1, FinalizeFrame
<1>4. PICK C, x : C = Callee /\ x = Inst
  OBVIOUS
<1>5. /\ x.name = inst /\ x.callee \in DOMAIN program /\ x.callee # q /\ x = InstOf(P, inst)
      /\ C \in ParserType /\ C = program[x.callee] /\ inst \in Name
  BY <1>1, <1>2, <1>3, <1>4, JobFacts DEF InvType, JobType
<1>6. PICK i, j, B, D, R, Q :
        FinalStep(q, P, inst, calls, splits, k, J, pending, i, j, B, D, R, Q)
  BY <1>1, FinalizeHas
<1>7. /\ i \in DOMAIN P.states /\ j \in DOMAIN P.states[i].ops
      /\ IsCallOf(P.states[i].ops[j], inst) /\ P.states[i].ops[j].res = calls[k] /\ calls[k] # NoValue
      /\ B \in DOMAIN P.states /\ P.states[B].name = splits[k].pre
      /\ D \in DOMAIN P.states /\ P.states[D].name = splits[k].post
      /\ i # B /\ i # D /\ B # D /\ IsUnfinished(P.states[D])
      /\ SplitNames(P, inst, splits) /\ SplitStates(P, splits, pending, {})
      /\ CopiesCallOthers(P, inst)
      /\ IsFinal(program, P, Q, J, calls[k]) /\ IsFinalizedBy(program, P, R, Q, J, i, j, B, D)
      /\ program' = [program EXCEPT ![q] = Q]
  BY <1>6 DEF FinalStep
<1>8. /\ Keeps(R, Q, B) /\ CodeFits(program, R, J) /\ Q = AdjustBlockUses(R, R.states[B].name)
      /\ \E head, tail : IsCutInto(P, R, i, j, B, D, head, tail)
      /\ Q \in ParserType /\ Q.insts = P.insts
  BY <1>7 DEF IsFinalizedBy, IsFinal
<1>9. PICK head, tail : IsCutInto(P, R, i, j, B, D, head, tail)
  BY <1>8
<1>10. R \in ParserType /\ DOMAIN R.states = DOMAIN P.states
  BY <1>9 DEF IsCutInto, SameRest
<1>11. PICK many, D0, O, E :
         /\ many = (Len(calls) > 1)
         /\ D0 = Owed(P, C, inst, many, calls, splits, pending)
         /\ O = Owed(R, C, inst, many, calls, splits, pending \ {k})
         /\ E = Owed(Q, C, inst, many, calls, splits, pending \ {k})
  OBVIOUS
<1>12. Debts(q) = D0
  BY <1>1, <1>3, <1>4, <1>11 DEF Debts, Expanding
<1>13. Debts(q)' = E
  <2>1. program'[q] = Q /\ program'[x.callee] = C
    BY <1>2, <1>3, <1>5, <1>7 DEF InvType
  <2>2. Caller' = Q
    BY <1>3, <2>1 DEF Caller
  <2>3. Callee' = C
    <3>1. Inst' = InstOf(Q, inst)
      BY <1>3, <2>2 DEF Inst, InstOf
    <3>2. InstOf(Q, inst) = InstOf(P, inst)
      BY <1>8 DEF InstOf
    <3> QED BY <1>5, <2>1, <3>1, <3>2 DEF Callee
  <2> QED BY <1>3, <1>11, <2>2, <2>3 DEF Debts, Expanding
<1>14. IsFed(P, D0)
  BY <1>3, <1>12 DEF InvValid, InvUses
<1>15. Cutting(P, R, C, inst, calls, splits, pending, k, i, j, B, D, head, tail)
  <2>1. IsSSA(P) /\ UniqueStates(P)
    BY <1>3 DEF CodeFits, HasNames
  <2>2. pending \subseteq Nat /\ pending \subseteq DOMAIN splits
    BY ONLY <1>3
  <2>3. \A l \in pending : calls[l] = calls[k] => l = k
    <3>1. \A l, m \in DOMAIN calls : calls[l] = calls[m] => l = m
      BY <1>1, <1>2, <1>3 DEF InvJob, JobFits
    <3> QED BY ONLY <1>3, <3>1
  <2>4. CallElsewhere(P, inst, splits, pending)
    BY <1>7, <2>2 DEF CallElsewhere, SplitStates
  <2> QED BY ONLY <1>3, <1>5, <1>7, <1>9, <2>1, <2>2, <2>3, <2>4 DEF Cutting
<1>16. IsFed(Q, E)
  <2>1. Supplied(R, B, Len(R.states[B].ops), DebtsOf(R, O))
    BY ONLY <1>11, <1>14, <1>15, CuttingSupplied
  <2>2. IsSSA(R) /\ HasKinds(R) /\ UniqueStates(R)
    BY <1>8 DEF CodeFits, HasNames
  <2>3. NoCallIn(R, DebtsOf(R, O))
    BY ONLY <1>10, <1>11, <2>2, NoCallOwed
  <2>4. \A m \in DOMAIN R.states : R.states[m].name # <<>>
    BY <1>8 DEF CodeFits, HasNames, StateNames, IsStem
  <2>5. B \in DOMAIN R.states
    BY <1>7, <1>10
  <2>6. Supplied(Q, B, 0, DebtsOf(R, O)) /\ HoldsAll(R, Q)
    BY ONLY <1>8, <1>10, <2>1, <2>2, <2>3, <2>4, <2>5, BlockSupplied
  <2> QED BY ONLY <1>8, <1>10, <1>11, <2>5, <2>6, SuppliedFed
<1>17. PICK loose, fewer :
         /\ loose = {splits[l].post : l \in pending}
         /\ fewer = {splits[l].post : l \in pending \ {k}}
  OBVIOUS
<1>18. Loose(q) = loose /\ Hidden(q) = {}
  BY <1>1, <1>3, <1>17 DEF Loose, Hidden
<1>19. Loose(q)' = fewer /\ Hidden(q)' = {}
  BY <1>3, <1>17 DEF Loose, Hidden
<1>20. HasTargets(Q, {}, fewer)
  <2>1. HasTargets(P, {}, loose)
    BY <1>3, <1>18 DEF InvValid, InvTargets
  <2>2. AllBut(loose, P.states[D].name, fewer)
    BY <1>7, <1>17 DEF AllBut
  <2>3. UniqueStates(P)
    BY <1>3 DEF CodeFits, HasNames
  <2>4. AreUnfinished(P, loose)
    <3> SUFFICES ASSUME NEW n \in loose
                 PROVE  \E m \in DOMAIN P.states : P.states[m].name = n /\ IsUnfinished(P.states[m])
      BY DEF AreUnfinished
    <3>1. PICK l \in pending : n = splits[l].post
      BY <1>17
    <3>2. l \in DOMAIN splits
      BY ONLY <1>3, l \in pending
    <3>3. n \in StateNames(P)
      BY <1>7, <3>1, <3>2 DEF SplitNames
    <3>4. PICK m \in DOMAIN P.states : P.states[m].name = n
      BY <3>3 DEF StateNames
    <3> QED BY <1>7, <3>1, <3>2, <3>4 DEF SplitStates
  <2>5. Calls(P.states[i]) # {}
    BY <1>7, CallsFacts DEF IsCallOf
  <2>6. /\ P \in ParserType /\ i \in DOMAIN P.states /\ B \in DOMAIN P.states /\ D \in DOMAIN P.states
        /\ i # B /\ i # D /\ B # D /\ Keeps(R, Q, B)
    BY ONLY <1>3, <1>7, <1>8
  <2> QED BY ONLY <1>9, <2>1, <2>2, <2>3, <2>4, <2>5, <2>6, CutTargets
<1> QED BY <1>1, <1>2, <1>3, <1>7, <1>13, <1>16, <1>19, <1>20, OneValid

\* Stuttering keeps the code valid.
LEMMA StutterValid ==
  ASSUME InvValid, UNCHANGED vars
  PROVE  InvValid'
<1>1. \A p : Debts(p)' = Debts(p) /\ Hidden(p)' = Hidden(p) /\ Loose(p)' = Loose(p)
  BY DEF vars, Debts, Hidden, Loose, Expanding, InJob, Caller, Callee, Inst, Pending, Waiting, Bare, Created
<1> QED BY <1>1, SameValid DEF vars

\* Every step keeps the code valid, but for what it owes.
LEMMA NextValid ==
  ASSUME Inv, InvValid, [Next]_vars
  PROVE  InvValid'
<1>1. CASE UNCHANGED vars
  BY <1>1, StutterValid
<1>2. CASE CollectInstances
  BY <1>2, IdleValid DEF CollectInstances
<1>3. CASE VisitInstance
  BY <1>3, VisitValid
<1>4. CASE SkipInstance
  BY <1>4, IdleValid DEF SkipInstance
<1>5. CASE SplitState
  BY <1>5, SplitValid
<1>6. CASE Cancel
  BY <1>6, CancelValid
<1>7. CASE CloneLocals
  BY <1>7, CloneLocalsValid
<1>8. CASE CloneStates
  BY <1>8, CloneStatesValid
<1>9. CASE AllCloned
  BY <1>9, AllClonedValid DEF Inv
<1>10. CASE FinalizeSplit
  BY <1>10, FinalizeValid
<1>11. CASE EraseInstance
  BY <1>11, EraseValid
<1>12. CASE EndOfRound
  <2>1. program' = program /\ phase = "visit" /\ phase' \in {"collect", "done"}
    BY <1>12 DEF EndOfRound
  <2> QED BY <2>1, IdleValid
<1>13. CASE Done
  BY <1>13, StutterValid DEF Done
<1> QED BY <1>1, <1>2, <1>3, <1>4, <1>5, <1>6, <1>7, <1>8, <1>9, <1>10, <1>11, <1>12, <1>13 DEF Next

\* Between the inlinings every parser is valid code: every use of a value is reached by
\* its definition, every call has its instance and every transition its target.
THEOREM ValidCodeProved == Spec => []ValidCode
<1>1. ASSUME Inv, InvValid PROVE ValidCode
  <2> SUFFICES ASSUME BetweenJobs, NEW p \in DOMAIN program
               PROVE  IsValid(program[p])
    BY DEF ValidCode
  <2>1. Debts(p) = NoDebts /\ Hidden(p) = {} /\ Loose(p) = {}
    BY IdleDebts, IdleTargets DEF BetweenJobs
  <2>2. IsFed(program[p], NoDebts) /\ HasTargets(program[p], {}, {})
    BY <1>1, <2>1 DEF InvValid, InvUses, InvTargets
  <2>3. program[p] \in ParserType /\ HasKinds(program[p]) /\ CallsKnown(program[p])
    BY <1>1 DEF Inv, InvType, InvCode, CodeFits
  <2> QED BY <2>2, <2>3, ValidFacts
<1>2. Inv /\ InvValid /\ [Next]_vars => InvValid'
  BY NextValid
<1>3. Init => InvValid
  BY InitValid
<1> QED BY <1>1, <1>2, <1>3, Invariance, PTL DEF Spec

=============================================================================
