--------------------------- MODULE Positions_proofs ---------------------------
(***************************************************************************)
(* What the sequences of positions of Positions are, and two forms of      *)
(* induction, for the proofs about modules that use them.                  *)
(***************************************************************************)
EXTENDS Positions, SequencesExt, FiniteSetTheorems, NaturalsInduction, WellFoundedInduction, TLAPS

-----------------------------------------------------------------------------
(* Numbers *)

\* The least element of a set of numbers.
LEMMA Least ==
  ASSUME NEW T \in SUBSET Nat, T # {}
  PROVE  \E n \in T : \A m \in T : n <= m
<1> DEFINE R == {ss \in Nat \X Nat : ss[1] < ss[2]}
<1>1. IsWellFoundedOn(R, Nat)
  BY NatLessThanWellFounded DEF OpToRel
<1>2. PICK n \in T : \A m \in T : ~(<<m, n>> \in R)
  BY <1>1, WFMin
<1>3. ASSUME NEW m \in T PROVE n <= m
  <2>1. m \in Nat /\ n \in Nat
    OBVIOUS
  <2>2. ~(m < n)
    <3>1. m < n => <<m, n>> \in R
      BY <2>1
    <3> QED BY <3>1, <1>2
  <2> QED BY <2>1, <2>2
<1> QED BY <1>3

\* Induction, for the numbers that have a property.
LEMMA Induction ==
  ASSUME NEW T, 0 \in T, \A n \in Nat : n \in T => n + 1 \in T
  PROVE  Nat \subseteq T
<1> SUFFICES ASSUME Nat \ T # {} PROVE FALSE
  OBVIOUS
<1>1. PICK n \in Nat \ T : \A m \in Nat \ T : n <= m
  BY Least
<1>2. n - 1 \in Nat /\ (n - 1) + 1 = n /\ ~(n <= n - 1)
  BY <1>1
<1> QED BY <1>1, <1>2

-----------------------------------------------------------------------------
(* The positions that stay *)

LEMMA PlaceType ==
  ASSUME NEW n \in Nat, NEW drop
  PROVE  /\ IsFiniteSet({m \in 1..n : m \notin drop})
         /\ Place(n, drop) \in Nat
<1>1. IsFiniteSet(1..n)
  <2>1. 1 \in Int /\ n \in Int
    OBVIOUS
  <2> QED BY <2>1, FS_Interval
<1>2. IsFiniteSet({m \in 1..n : m \notin drop})
  BY <1>1, FS_Subset
<1> QED BY <1>2, FS_CardinalityType DEF Place

LEMMA PlaceNext ==
  ASSUME NEW n \in Nat, NEW drop
  PROVE  Place(n + 1, drop) = IF n + 1 \in drop THEN Place(n, drop) ELSE Place(n, drop) + 1
<1> DEFINE S == {m \in 1..n : m \notin drop}
           T == {m \in 1..n + 1 : m \notin drop}
<1>1. \A m : m \in 1..n + 1 <=> m \in 1..n \/ m = n + 1
  OBVIOUS
<1>2. CASE n + 1 \in drop
  <2>1. S = T
    BY <1>1, <1>2
  <2> QED BY <2>1, <1>2 DEF Place
<1>3. CASE n + 1 \notin drop
  <2>1. T = S \cup {n + 1} /\ n + 1 \notin S
    BY <1>1, <1>3
  <2>2. Cardinality(T) = Cardinality(S) + 1
    <3>1. IsFiniteSet(S)
      BY PlaceType
    <3> HIDE DEF S, T
    <3> QED BY <2>1, <3>1, FS_AddElement
  <2> QED BY <2>2, <1>3 DEF Place
<1> QED BY <1>2, <1>3

LEMMA PlaceZero == \A drop : Place(0, drop) = 0
<1> TAKE drop
<1>1. {m \in 1..0 : m \notin drop} = {}
  OBVIOUS
<1> QED BY <1>1, FS_EmptySet DEF Place

LEMMA PlaceMonotone ==
  ASSUME NEW n \in Nat, NEW k \in Nat, NEW drop, n < k
  PROVE  /\ Place(n, drop) <= Place(k, drop)
         /\ k \notin drop => Place(n, drop) < Place(k, drop)
<1> DEFINE S(x) == {m \in 1..x : m \notin drop}
<1>1. \A i \in Nat, j \in Nat : i <= j => Place(i, drop) <= Place(j, drop)
  <2> SUFFICES ASSUME NEW i \in Nat, NEW j \in Nat, i <= j
               PROVE  Place(i, drop) <= Place(j, drop)
    OBVIOUS
  <2>1. S(i) \subseteq S(j)
    OBVIOUS
  <2> QED BY <2>1, PlaceType, FS_Subset DEF Place
<1>2. PICK j \in Nat : k = j + 1 /\ n <= j
  <2>1. k - 1 \in Nat /\ k = (k - 1) + 1 /\ n <= k - 1
    OBVIOUS
  <2> QED BY <2>1
<1>3. Place(n, drop) <= Place(j, drop) /\ Place(n, drop) <= Place(k, drop)
  BY <1>1, <1>2
<1>4. Place(n, drop) \in Nat /\ Place(j, drop) \in Nat
  BY PlaceType
<1> QED BY <1>2, <1>3, <1>4, PlaceNext

\* The positions that stay, each of them once, in their order.
LEMMA StayingFacts ==
  ASSUME NEW L \in Nat, NEW drop
  PROVE  LET K == Staying(L, drop)
         IN /\ DOMAIN K = 1..Place(L, drop) /\ Place(L, drop) \in Nat
            /\ \A p \in DOMAIN K : K[p] \in 1..L /\ K[p] \notin drop
            /\ \A p, q \in DOMAIN K : p < q => K[p] < K[q]
            /\ \A p, q \in DOMAIN K : K[p] < K[q] => p < q
            /\ \A n \in (1..L) \ drop : \E p \in DOMAIN K : K[p] = n
<1> DEFINE D == (1..L) \ drop
           K == Staying(L, drop)
<1>1. DOMAIN K = 1..Place(L, drop) /\ Place(L, drop) \in Nat
  BY PlaceType DEF Staying
<1>2. ASSUME NEW p \in 1..Place(L, drop) PROVE \E n \in D : Place(n, drop) = p
  <2> DEFINE T == {n \in 0..L : p <= Place(n, drop)}
  <2>1. L \in T /\ T \in SUBSET Nat
    BY PlaceType
  <2>2. PICK n \in T : \A m \in T : n <= m
    BY <2>1, Least
  <2>3. n # 0
    BY <2>2, PlaceZero
  <2>4. PICK m \in Nat : n = m + 1 /\ m \notin T /\ m \in 0..L
    <3>1. n - 1 \in Nat /\ n = (n - 1) + 1 /\ n - 1 \in 0..L /\ ~(n <= n - 1)
      BY <2>2, <2>3
    <3> QED BY <3>1, <2>2
  <2>5. /\ Place(m, drop) \in Nat /\ ~(p <= Place(m, drop)) /\ p <= Place(n, drop)
        /\ Place(n, drop) = IF n \in drop THEN Place(m, drop) ELSE Place(m, drop) + 1
    BY <2>2, <2>4, PlaceType, PlaceNext
  <2>6. n \notin drop /\ Place(n, drop) = p
    BY <2>5
  <2> QED BY <2>3, <2>6
<1>3. \A p \in 1..Place(L, drop) : K[p] \in D /\ Place(K[p], drop) = p
  BY <1>2 DEF Staying
<1>4. \A m, n \in D : m < n => Place(m, drop) < Place(n, drop)
  BY PlaceMonotone
<1>5. \A p, q \in DOMAIN K : p < q => K[p] < K[q]
  <2> SUFFICES ASSUME NEW p \in DOMAIN K, NEW q \in DOMAIN K, p < q PROVE K[p] < K[q]
    OBVIOUS
  <2>1. /\ K[p] \in D /\ K[q] \in D /\ K[p] \in Nat /\ K[q] \in Nat
        /\ Place(K[p], drop) = p /\ Place(K[q], drop) = q
    BY <1>1, <1>3
  <2>2. ~(K[q] < K[p]) /\ K[p] # K[q]
    <3>1. K[q] < K[p] => q < p
      BY <2>1, <1>4
    <3> QED BY <3>1, <2>1, <1>1
  <2> QED BY <2>1, <2>2
<1>6. \A p, q \in DOMAIN K : K[p] < K[q] => p < q
  <2> SUFFICES ASSUME NEW p \in DOMAIN K, NEW q \in DOMAIN K, K[p] < K[q] PROVE p < q
    OBVIOUS
  <2>1. K[p] \in D /\ K[q] \in D /\ Place(K[p], drop) = p /\ Place(K[q], drop) = q
    BY <1>1, <1>3
  <2> QED BY <2>1, <1>4
<1>7. ASSUME NEW n \in D PROVE \E p \in DOMAIN K : K[p] = n
  <2> DEFINE p == Place(n, drop)
  <2>1. n \in Nat /\ 0 < n /\ (n = L \/ n < L)
    OBVIOUS
  <2>2. 0 < p /\ p <= Place(L, drop) /\ p \in Nat
    <3>1. 0 < p /\ p \in Nat
      BY <2>1, PlaceMonotone, PlaceZero, PlaceType
    <3>2. CASE n = L
      BY <3>1, <3>2
    <3>3. CASE n < L
      BY <3>1, <3>3, <2>1, PlaceMonotone
    <3> QED BY <2>1, <3>2, <3>3
  <2>3. p \in 1..Place(L, drop) /\ K[p] \in D /\ Place(K[p], drop) = Place(n, drop)
    BY <2>2, <1>1, <1>3
  <2>4. K[p] = n
    <3>1. ~(K[p] < n) /\ ~(n < K[p])
      <4>1. K[p] < n => Place(K[p], drop) < Place(n, drop)
        BY <2>3, <1>4
      <4>2. n < K[p] => Place(n, drop) < Place(K[p], drop)
        BY <2>3, <1>4
      <4>3. Place(n, drop) \in Nat
        BY <2>2
      <4> QED BY <4>1, <4>2, <4>3, <2>3
    <3> QED BY <3>1, <2>3
  <2> QED BY <2>3, <2>4, <1>1
<1> QED BY <1>1, <1>3, <1>5, <1>6, <1>7

-----------------------------------------------------------------------------
(* Concatenation *)

\* The concatenation of a sequence of sequences, step by step.
LEMMA FlattenSteps ==
  ASSUME NEW seqs, NEW n \in Nat, n # 0, Len(seqs) = n
  PROVE  \E f : /\ FlattenSeq(seqs) = f[n]
                /\ \A i \in 1..n : f[i] = IF i = 1 THEN seqs[i] ELSE f[i - 1] \o seqs[i]
<1> DEFINE T == {m \in Nat : \E f :
                   f = [i \in 1..m |-> IF i = 1 THEN seqs[i] ELSE f[i - 1] \o seqs[i]]}
<1>1. 0 \in T
  <2> DEFINE f == [i \in 1..0 |-> 0]
  <2>1. f = [i \in 1..0 |-> IF i = 1 THEN seqs[i] ELSE f[i - 1] \o seqs[i]]
    OBVIOUS
  <2> HIDE DEF f
  <2> QED BY <2>1
<1>2. ASSUME NEW m \in Nat, m \in T PROVE m + 1 \in T
  <2>1. PICK f : f = [i \in 1..m |-> IF i = 1 THEN seqs[i] ELSE f[i - 1] \o seqs[i]]
    BY <1>2
  <2>2. PICK last : last = IF m + 1 = 1 THEN seqs[m + 1] ELSE f[m] \o seqs[m + 1]
    OBVIOUS
  <2>3. PICK g : g = [i \in 1..m + 1 |-> IF i = m + 1 THEN last ELSE f[i]]
    OBVIOUS
  <2>4. ASSUME NEW i \in 1..m + 1
        PROVE  g[i] = IF i = 1 THEN seqs[i] ELSE g[i - 1] \o seqs[i]
    <3>1. CASE i = m + 1
      <4>1. g[i] = last
        BY <2>3, <3>1
      <4>2. ASSUME i # 1 PROVE g[i - 1] = f[m]
        <5>1. i - 1 = m /\ m \in 1..m + 1 /\ m # m + 1
          BY <3>1, <4>2
        <5> QED BY <2>3, <5>1
      <4> QED BY <2>2, <3>1, <4>1, <4>2
    <3>2. CASE i # m + 1
      <4>1. i \in 1..m /\ g[i] = f[i]
        BY <2>3, <3>2
      <4>2. ASSUME i # 1 PROVE g[i - 1] = f[i - 1]
        <5>1. i - 1 \in 1..m + 1 /\ i - 1 # m + 1
          BY <4>1, <4>2
        <5> QED BY <2>3, <5>1
      <4>3. f[i] = IF i = 1 THEN seqs[i] ELSE f[i - 1] \o seqs[i]
        BY <2>1, <4>1
      <4> QED BY <4>1, <4>2, <4>3
    <3> QED BY <3>1, <3>2
  <2>5. g = [i \in 1..m + 1 |-> IF i = 1 THEN seqs[i] ELSE g[i - 1] \o seqs[i]]
    <3>1. PICK h : h = [i \in 1..m + 1 |-> IF i = 1 THEN seqs[i] ELSE g[i - 1] \o seqs[i]]
      OBVIOUS
    <3>2. \A i \in 1..m + 1 : h[i] = g[i]
      BY <2>4, <3>1
    <3>3. h = g
      BY <2>3, <3>1, <3>2
    <3> QED BY <3>1, <3>3
  <2>6. m + 1 \in Nat
    OBVIOUS
  <2> QED BY <2>5, <2>6
<1>3. n \in T
  <2> HIDE DEF T
  <2> QED BY <1>1, <1>2, Induction
<1>4. \E f : f = [i \in 1..n |-> IF i = 1 THEN seqs[i] ELSE f[i - 1] \o seqs[i]]
  BY <1>3
<1>5. PICK f : f = CHOOSE g : g = [i \in 1..n |-> IF i = 1 THEN seqs[i] ELSE g[i - 1] \o seqs[i]]
  OBVIOUS
<1>6. f = [i \in 1..n |-> IF i = 1 THEN seqs[i] ELSE f[i - 1] \o seqs[i]]
  BY <1>4, <1>5
<1>7. FlattenSeq(seqs) = f[n]
  BY <1>5 DEF FlattenSeq
<1>8. \A i \in 1..n : f[i] = IF i = 1 THEN seqs[i] ELSE f[i - 1] \o seqs[i]
  BY <1>6
<1> QED BY <1>7, <1>8

=============================================================================
