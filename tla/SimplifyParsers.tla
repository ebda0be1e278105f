---------------------------- MODULE SimplifyParsers ----------------------------
(***************************************************************************)
(* The p4hir-simplify-parsers pass (lib/Transforms/SimplifyParsers.cpp) on *)
(* one parser: the states no transition leads to are erased, then chains   *)
(* of states, each the only way into the next, are spliced into their      *)
(* first state.                                                            *)
(*                                                                         *)
(* `body` tells whose operations a state executes: its own, and those of   *)
(* the states spliced into it, in their order.  The maps of the code are   *)
(* hash tables, and the heads of the chains come in any order.             *)
(***************************************************************************)
EXTENDS ParserGraphs, FiniteSets

CONSTANTS Parsers, None

ASSUME ParsersAssumption == \A p \in Parsers : IsParser(p)
ASSUME NoneAssumption == None \notin State

VARIABLES src,       \* the parser, as the pass finds it
          phase,     \* "reach", "erase", "chain", "pick", "merge", "done"
          reachable, \* the states the depth-first walk has visited
          errors,    \* the diagnostics emitted
          states,    \* the states of the parser
          body,      \* state -> the source states whose operations it holds
          trans,     \* state -> its terminator
          succ,      \* the chain edges of collapseChains
          heads,     \* the chain heads still to process
          head,      \* the one being processed
          tail       \* the source state that supplied its terminator

vars == <<src, phase, reachable, errors, states, body, trans, succ, heads, head, tail>>

Init ==
  /\ src \in Parsers
  /\ phase = "reach"
  /\ reachable = {} /\ errors = {}
  /\ states = src.states
  /\ body = [s \in State |-> <<s>>]
  /\ trans = src.trans
  /\ succ = [s \in State |-> None]
  /\ heads = {} /\ head = None /\ tail = None

\* Bug: a state can be visited again.
Revisited ==
  IF reachable = {} THEN {src.start} ELSE UNION {NextStates(trans[s]) : s \in reachable}

Frontier ==
  IF reachable = {} THEN {src.start}
  ELSE (UNION {NextStates(trans[s]) : s \in reachable}) \ reachable

Visit(s) ==
  /\ phase = "reach"
  /\ s \in Frontier
  /\ reachable' = reachable \cup {s}
  /\ UNCHANGED <<src, phase, errors, states, body, trans, succ, heads, head, tail>>

IsEnd(s, kind) == trans[s].kind = kind

FinishReach ==
  /\ phase = "reach"
  /\ Frontier = {}
  /\ phase' = "erase"
  /\ errors' = IF \E s \in reachable : IsEnd(s, "accept") \/ IsEnd(s, "reject")
               THEN errors ELSE errors \cup {"never ends"}
  /\ UNCHANGED <<src, reachable, states, body, trans, succ, heads, head, tail>>

\* An accept state stays even if nothing leads to it.
EraseUnreachable ==
  /\ phase = "erase"
  /\ phase' = "chain"
  /\ states' = {s \in states : s \in reachable \/ IsEnd(s, "accept")}
  /\ errors' = errors \cup (IF \E s \in states \ reachable : IsEnd(s, "accept")
                            THEN {"unreachable accept"} ELSE {})
  /\ UNCHANGED <<src, reachable, body, trans, succ, heads, head, tail>>

\* The edges that lead to s, the entry of the parser being one.
EdgesTo(s) ==
  UNION {{<<q, i>> : i \in {j \in DOMAIN trans[q].next : trans[q].next[j] = s}} : q \in states}

\* Bug: the entry of the parser does not count.
NoEntryEdge(s) == Cardinality(EdgesTo(s))

Indegree(s) == Cardinality(EdgesTo(s)) + (IF s = src.start THEN 1 ELSE 0)

\* Bug: an annotated state is dissolved like any other.
ChainAnnotated(s, t) ==
  /\ trans[s].next = <<t>>
  /\ src.ann[s] # "other"
  /\ Indegree(t) = 1

CanChain(s, t) ==
  /\ trans[s].next = <<t>>
  /\ src.ann[s] # "other"
  /\ Indegree(t) = 1
  /\ src.ann[t] = "none"

\* The maps succ and pred, and with them the heads of the chains.
FindChains ==
  /\ phase = "chain"
  /\ phase' = "pick"
  /\ succ' = [s \in State |-> IF s \in states /\ \E t \in states : CanChain(s, t)
                              THEN CHOOSE t \in states : CanChain(s, t) ELSE None]
  /\ heads' = {s \in states : succ'[s] # None /\ \A q \in states : succ'[q] # s}
  /\ UNCHANGED <<src, reachable, errors, states, body, trans, head, tail>>

PickHead(h) ==
  /\ phase = "pick"
  /\ h \in heads
  /\ phase' = "merge"
  /\ heads' = heads \ {h}
  /\ head' = h /\ tail' = h
  /\ UNCHANGED <<src, reachable, errors, states, body, trans, succ>>

\* Bug: the operations of the next state come first.
SpliceAhead ==
  /\ phase = "merge"
  /\ succ[tail] # None
  /\ LET n == succ[tail]
     IN /\ body' = [body EXCEPT ![head] = body[n] \o @]
        /\ trans' = [trans EXCEPT ![head] = trans[n]]
        /\ states' = states \ {n}
        /\ tail' = n
  /\ UNCHANGED <<src, phase, reachable, errors, succ, heads, head>>

\* Bug: the next state goes with its operations.
SpliceNothing ==
  /\ phase = "merge"
  /\ succ[tail] # None
  /\ LET n == succ[tail]
     IN /\ body' = body
        /\ trans' = [trans EXCEPT ![head] = trans[n]]
        /\ states' = states \ {n}
        /\ tail' = n
  /\ UNCHANGED <<src, phase, reachable, errors, succ, heads, head>>

\* Bug: the next state as a whole becomes an operation.
SpliceState ==
  /\ phase = "merge"
  /\ succ[tail] # None
  /\ LET n == succ[tail]
     IN /\ body' = [body EXCEPT ![head] = Append(@, body[n])]
        /\ trans' = [trans EXCEPT ![head] = trans[n]]
        /\ states' = states \ {n}
        /\ tail' = n
  /\ UNCHANGED <<src, phase, reachable, errors, succ, heads, head>>

\* The terminator of the head goes, the operations of the next state of the
\* chain, its terminator with them, take its place, and that state is erased.
MergeNext ==
  /\ phase = "merge"
  /\ succ[tail] # None
  /\ LET n == succ[tail]
     IN /\ body' = [body EXCEPT ![head] = @ \o body[n]]
        /\ trans' = [trans EXCEPT ![head] = trans[n]]
        /\ states' = states \ {n}
        /\ tail' = n
  /\ UNCHANGED <<src, phase, reachable, errors, succ, heads, head>>

ChainDone ==
  /\ phase = "merge"
  /\ succ[tail] = None
  /\ phase' = "pick"
  /\ head' = None /\ tail' = None
  /\ UNCHANGED <<src, reachable, errors, states, body, trans, succ, heads>>

\* Bug: the other chains are forgotten.
FinishEarly ==
  /\ phase = "pick"
  /\ phase' = "done"
  /\ UNCHANGED <<src, reachable, errors, states, body, trans, succ, heads, head, tail>>

Finish ==
  /\ phase = "pick"
  /\ heads = {}
  /\ phase' = "done"
  /\ UNCHANGED <<src, reachable, errors, states, body, trans, succ, heads, head, tail>>

Finished == phase = "done" /\ UNCHANGED vars

Next ==
  \/ \E s \in State : Visit(s)
  \/ FinishReach
  \/ EraseUnreachable
  \/ FindChains
  \/ \E h \in State : PickHead(h)
  \/ MergeNext
  \/ ChainDone
  \/ Finish
  \/ Finished

\* The pass is one sequential call: it takes its next step whenever it has one.
Spec == Init /\ [][Next]_vars /\ WF_vars(Next)

-----------------------------------------------------------------------------
\* Every variable holds what the code's variable of that name can hold.
TypeOK ==
  /\ src \in Parsers
  /\ phase \in {"reach", "erase", "chain", "pick", "merge", "done"}
  /\ reachable \in SUBSET State
  /\ errors \in SUBSET {"never ends", "unreachable accept"}
  /\ states \in SUBSET State
  /\ body \in [State -> Seq(State)]
  /\ trans \in [State -> Transition]
  /\ succ \in [State -> State \cup {None}]
  /\ heads \in SUBSET State
  /\ head \in State \cup {None}
  /\ tail \in State \cup {None}

\* No transition of the parser, and not its entry, leads to an erased state, at
\* any moment of the pass.
NoDangling ==
  /\ src.start \in states
  /\ \A s \in states : NextStates(trans[s]) \subseteq states

\* What a state executes is a path of the source parser, with no choice and no
\* other way in: the parser goes through the same operations as before.
BodiesArePaths ==
  \A s \in states :
    LET b == body[s]
    IN /\ b # <<>> /\ b[1] = s
       /\ \A i \in 1..Len(b) - 1 : src.trans[b[i]].next = <<b[i + 1]>>
       /\ trans[s] = src.trans[b[Len(b)]]

\* The operations of a reachable state are in exactly one place.
NothingLost ==
  phase \notin {"reach", "erase"} =>
    \A q \in reachable :
      \E s \in states :
        /\ Cardinality({i \in DOMAIN body[s] : body[s][i] = q}) = 1
        /\ \A r \in states \ {s} : \A i \in DOMAIN body[r] : body[r][i] # q

\* A state with annotations is never dissolved in another, and takes others in
\* only if all it has is a name.
AnnotationsKept ==
  \A s \in states : \A i \in 2..Len(body[s]) :
    src.ann[body[s][i]] = "none" /\ src.ann[s] # "other"

\* The pass leaves nothing it would do itself: a second run changes nothing.
Simplified ==
  phase = "done" =>
    /\ \A s, t \in states : ~CanChain(s, t)
    /\ \A s \in states : s \in reachable \/ IsEnd(s, "accept")

\* The pass always finishes, on parsers with loops too.
Terminates == <>(phase = "done")

=============================================================================
