------------------------------ MODULE Positions ------------------------------
(***************************************************************************)
(* A sequence without some of its positions.  What SelectSeq would give,   *)
(* in a form the provers can reason about.                                 *)
(***************************************************************************)
EXTENDS Integers, FiniteSets, Sequences

\* Where a position ends up is the number of those up to it that stay.
Place(n, drop) == Cardinality({m \in 1..n : m \notin drop})

\* The positions of 1..len that stay, in their order.
Staying(len, drop) ==
  [p \in 1..Place(len, drop) |->
     CHOOSE n \in (1..len) \ drop : Place(n, drop) = p]

\* The elements of seq at the positions `at`, in their order.
Chosen(seq, at) ==
  LET K == Staying(Len(seq), DOMAIN seq \ at)
  IN [p \in DOMAIN K |-> seq[K[p]]]

=============================================================================
