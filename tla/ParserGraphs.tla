---------------------------- MODULE ParserGraphs ----------------------------
(***************************************************************************)
(* A P4HIR parser as the parser passes see it: states, what a state is     *)
(* annotated with, and the transition it ends in.  A transition is its     *)
(* kind and the sequence of states it may go to, one per select case and   *)
(* so with repetitions.  A select has a default case, which the translator *)
(* makes up if the program gives none, so one with a single case is as     *)
(* good as a plain transition.                                             *)
(***************************************************************************)
EXTENDS Naturals, Sequences, FiniteSets

CONSTANT State

Transition == [kind : {"to", "accept", "reject"}, next : Seq(State)]

Annotation == {"none", "name", "other"}

NextStates(t) == {t.next[i] : i \in DOMAIN t.next}

IsParser(p) ==
  /\ p.states \in SUBSET State /\ IsFiniteSet(p.states)
  /\ p.start \in p.states
  /\ p.trans \in [State -> Transition]
  /\ p.ann \in [State -> Annotation]
  /\ \A s \in p.states :
       /\ NextStates(p.trans[s]) \subseteq p.states
       /\ p.trans[s].kind = "to" <=> p.trans[s].next # <<>>

=============================================================================
