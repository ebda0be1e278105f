------------------------- MODULE StructuredCode_proofs -------------------------
(***************************************************************************)
(* What the edits of StructuredCode do, for any code: where the operations *)
(* of a block are afterwards, and what stays of the code's shape.  The     *)
(* proofs about the passes that are made of these edits rest on it.        *)
(***************************************************************************)
EXTENDS StructuredCode, Positions_proofs, SequenceTheorems, FunctionTheorems

Regions(p, o) == Range(p.op[o].regions)

\* The two halves of IsCode.
HasBlocks(p) ==
  /\ p = [op |-> p.op, block |-> p.block, root |-> p.root, valued |-> p.valued]
  /\ p.op \in Seq(Range(p.op)) /\ p.block \in Seq(Range(p.block))
  /\ p.root \in DOMAIN p.block
  /\ \A o \in DOMAIN p.op : IsNode(p.op[o])
  /\ \A b \in DOMAIN p.block : IsBlock(p, p.block[b])
  /\ \A b, c \in DOMAIN p.block :
       b # c => Range(p.block[b]) \cap Range(p.block[c]) = {}

HasRegions(p) ==
  /\ \A o \in OpsIn(p) :
       /\ IsInjective(p.op[o].regions)
       /\ Regions(p, o) \subseteq (DOMAIN p.block) \ {p.root}
  /\ \A o, x \in OpsIn(p) : o # x => Regions(p, o) \cap Regions(p, x) = {}

\* t is the end of s.
EndsIn(s, t) ==
  Len(t) <= Len(s) /\ \A j \in 1..Len(t) : t[j] = s[Len(s) - Len(t) + j]

-----------------------------------------------------------------------------
(* Sequences *)

\* What the range of a sequence is, and where its ends are.
LEMMA RangeFacts ==
  ASSUME NEW A, NEW s \in Seq(A)
  PROVE  /\ Len(s) \in Nat /\ DOMAIN s = 1..Len(s)
         /\ Range(s) \subseteq A
         /\ \A i \in 1..Len(s) : s[i] \in Range(s) /\ s[i] \in A
         /\ \A x \in Range(s) : \E i \in 1..Len(s) : s[i] = x
         /\ s # <<>> => Len(s) >= 1 /\ Last(s) \in Range(s) /\ Head(s) \in Range(s)
BY DEF Range, Last

\* Erasing members of a sequence leaves the others, once each if they were, and
\* leaves every suffix that has none of them a suffix.
LEMMA WithoutFacts ==
  ASSUME NEW A, NEW s \in Seq(A), NEW S
  PROVE  LET r == Without(s, S)
         IN /\ r \in Seq(A)
            /\ Range(r) = Range(s) \ S
            /\ IsInjective(s) => IsInjective(r)
            /\ \A t : t \in Seq(A) /\ EndsIn(s, t) /\ Range(t) \cap S = {} => EndsIn(r, t)
<1> DEFINE D == {i \in DOMAIN s : s[i] \in S}
           K == Staying(Len(s), D)
           r == Without(s, S)
<1>1. Len(s) \in Nat /\ DOMAIN s = 1..Len(s)
  OBVIOUS
<1>2. /\ DOMAIN K = 1..Place(Len(s), D) /\ Place(Len(s), D) \in Nat
      /\ \A p \in DOMAIN K : K[p] \in 1..Len(s) /\ K[p] \notin D
      /\ \A p, q \in DOMAIN K : p < q => K[p] < K[q]
      /\ \A p, q \in DOMAIN K : K[p] < K[q] => p < q
      /\ \A n \in (1..Len(s)) \ D : \E p \in DOMAIN K : K[p] = n
  BY <1>1, StayingFacts
<1> DEFINE M == Place(Len(s), D)
<1>3. r = [i \in 1..M |-> s[K[i]]]
  BY <1>2 DEF Without
<1> HIDE DEF K, M
<1>4. M \in Nat /\ DOMAIN K = 1..M
  BY <1>2 DEF M
<1>5. r \in Seq(A) /\ Len(r) = M
  <2>1. \A i \in 1..M : s[K[i]] \in A
    BY <1>1, <1>2, <1>4
  <2> QED BY <2>1, <1>3, <1>4
<1>6. Range(r) = Range(s) \ S
  <2>1. ASSUME NEW i \in 1..M PROVE r[i] \in Range(s) \ S
    <3>1. K[i] \in 1..Len(s) /\ K[i] \notin D
      BY <1>2, <1>4
    <3>2. r[i] = s[K[i]] /\ K[i] \in DOMAIN s
      BY <3>1, <1>1, <1>3
    <3> QED BY <3>1, <3>2 DEF Range
  <2>2. ASSUME NEW x \in Range(s) \ S PROVE \E i \in 1..M : r[i] = x
    <3>1. PICK n \in 1..Len(s) : s[n] = x
      BY <1>1 DEF Range
    <3>2. n \in (1..Len(s)) \ D
      BY <3>1, <1>1
    <3>3. PICK i \in 1..M : K[i] = n
      BY <3>2, <1>2, <1>4
    <3> QED BY <3>1, <3>3, <1>3
  <2>3. Range(r) = {r[i] : i \in 1..M}
    BY <1>3 DEF Range
  <2> QED BY <2>1, <2>2, <2>3
<1>7. ASSUME IsInjective(s) PROVE IsInjective(r)
  <2> SUFFICES ASSUME NEW i \in 1..M, NEW j \in 1..M, r[i] = r[j] PROVE i = j
    BY <1>3 DEF IsInjective
  <2>1. K[i] = K[j]
    BY <1>7, <1>1, <1>2, <1>3, <1>4, SMTT(60) DEF IsInjective
  <2>2. ~(i < j) /\ ~(j < i)
    BY ONLY <2>1, <1>1, <1>2, <1>4, SMTT(60)
  <2> QED BY <2>2, <1>4
<1>8. ASSUME NEW t \in Seq(A), EndsIn(s, t), Range(t) \cap S = {}
      PROVE  EndsIn(r, t)
  <2> DEFINE L == Len(s)
             N == Len(t)
  <2>0. N \in Nat /\ N <= L /\ L \in Nat /\ \A j \in 1..N : t[j] = s[L - N + j]
    BY <1>8, <1>1 DEF EndsIn
  <2>1. \A d \in Nat : d < N => L - d \in (1..L) \ D
    <3> SUFFICES ASSUME NEW d \in Nat, d < N PROVE L - d \in (1..L) \ D
      OBVIOUS
    <3>1. N - d \in 1..N /\ L - N + (N - d) = L - d /\ L - d \in 1..L
      BY <2>0
    <3>2. s[L - d] = t[N - d]
      BY <3>1, <2>0
    <3>3. t[N - d] \in Range(t)
      BY <3>1, <2>0 DEF Range
    <3> QED BY <3>1, <3>2, <3>3, <1>8
  <2> DEFINE T == {d \in Nat : d < N => M - d \in 1..M /\ K[M - d] = L - d}
  <2>2. 0 \in T
    <3> SUFFICES ASSUME 0 < N PROVE M \in 1..M /\ K[M] = L
      BY <1>4, <2>0
    <3>1. L \in (1..L) \ D
      <4>1. L - 0 \in (1..L) \ D
        BY <2>1, <2>0
      <4> QED BY <4>1, <2>0
    <3>2. PICK p \in 1..M : K[p] = L
      BY <3>1, <1>2, <1>4
    <3>3. M \in 1..M /\ (p < M \/ p = M)
      BY <3>2, <1>4
    <3>4. ~(p < M)
      <4>1. p < M => K[p] < K[M] /\ K[M] \in 1..L
        BY <3>3, <1>2, <1>4
      <4> QED BY <4>1, <3>2, <2>0
    <3> QED BY <3>2, <3>3, <3>4
  <2>3. ASSUME NEW d \in Nat, d \in T PROVE d + 1 \in T
    <3> SUFFICES ASSUME d + 1 < N
                 PROVE  M - (d + 1) \in 1..M /\ K[M - (d + 1)] = L - (d + 1)
      OBVIOUS
    <3>1. d < N /\ M - d \in 1..M /\ K[M - d] = L - d
      BY <2>3, <2>0
    <3>2. L - (d + 1) \in (1..L) \ D
      BY <2>1
    <3>3. PICK p \in 1..M : K[p] = L - (d + 1)
      BY <3>2, <1>2, <1>4
    <3>4. p < M - d
      <4>1. K[p] < K[M - d]
        BY <3>1, <3>3, <2>0
      <4> QED BY <4>1, <3>1, <3>3, <1>2, <1>4
    <3>5. M - (d + 1) \in 1..M
      BY <3>4, <3>3, <1>4
    <3>6. ~(p < M - (d + 1))
      <4>1. p < M - (d + 1) => K[p] < K[M - (d + 1)]
        BY ONLY <3>3, <3>5, <1>2, <1>4, SMTT(60)
      <4>2. M - (d + 1) < M - d
        BY <1>4
      <4>3. K[M - (d + 1)] < K[M - d]
        <5>1. M - d \in DOMAIN K /\ M - (d + 1) \in DOMAIN K
          BY <3>1, <3>5, <1>4
        <5> QED BY <4>2, <5>1, <1>2
      <4>4. K[M - (d + 1)] \in 1..L
        BY <3>5, <1>2, <1>4
      <4> QED BY <4>1, <4>3, <4>4, <3>1, <3>3, <2>0
    <3>7. p = M - (d + 1)
      BY <3>3, <3>4, <3>6, <1>4
    <3> QED BY <3>3, <3>5, <3>7
  <2>4. Nat \subseteq T
    <3> HIDE DEF T
    <3> QED BY <2>2, <2>3, Induction
  <2>5. ASSUME NEW j \in 1..N PROVE M - N + j \in 1..M /\ t[j] = r[M - N + j]
    <3> DEFINE d == N - j
    <3>1. d \in Nat /\ d < N
      BY <2>0
    <3>2. M - d \in 1..M /\ K[M - d] = L - d
      <4>1. d \in T
        BY <3>1, <2>4
      <4> HIDE DEF d
      <4> QED BY <4>1, <3>1
    <3>3. M - d = M - N + j /\ L - d = L - N + j
      BY <1>4, <2>0
    <3> HIDE DEF d
    <3>4. r[M - d] = s[K[M - d]]
      BY <3>2, <1>3
    <3> QED BY <3>2, <3>3, <3>4, <2>0
  <2>6. N <= M
    <3>1. CASE N = 0
      BY <3>1, <1>4
    <3>2. CASE N # 0
      <4>1. 1 \in 1..N
        BY <3>2, <2>0
      <4>2. M - N + 1 \in 1..M
        BY <4>1, <2>5
      <4> QED BY <4>2, <1>4, <2>0
    <3> QED BY <3>1, <3>2
  <2> QED BY <2>5, <2>6, <1>5 DEF EndsIn
<1> QED BY <1>5, <1>6, <1>7, <1>8

\* Putting `ops` in front of position i.
Inserted(s, i, ops) == SubSeq(s, 1, i - 1) \o ops \o SubSeq(s, i, Len(s))

\* What each position holds after an insertion.
LEMMA InsertedAt ==
  ASSUME NEW A, NEW s \in Seq(A), NEW ops \in Seq(A), NEW i \in 1..Len(s)
  PROVE  LET r == Inserted(s, i, ops)
         IN /\ r \in Seq(A) /\ Len(r) = Len(s) + Len(ops)
            /\ \A j \in 1..Len(s) + Len(ops) :
                 r[j] = IF j < i THEN s[j]
                        ELSE IF j < i + Len(ops) THEN ops[j - i + 1]
                        ELSE s[j - Len(ops)]
<1> DEFINE u == SubSeq(s, 1, i - 1)
           v == SubSeq(s, i, Len(s))
<1>1. Len(s) \in Nat /\ Len(ops) \in Nat
  OBVIOUS
<1>2. u \in Seq(A) /\ Len(u) = i - 1 /\ \A j \in 1..i - 1 : u[j] = s[j]
  BY <1>1, SubSeqProperties
<1>3. v \in Seq(A) /\ Len(v) = Len(s) - i + 1 /\ \A j \in 1..Len(s) - i + 1 : v[j] = s[i + j - 1]
  BY <1>1, SubSeqProperties
<1> HIDE DEF u, v
<1> DEFINE w == u \o ops
<1>4. w \in Seq(A) /\ Len(w) = i - 1 + Len(ops)
      /\ \A j \in 1..i - 1 + Len(ops) : w[j] = IF j < i THEN s[j] ELSE ops[j - i + 1]
  BY <1>1, <1>2, SMTT(60)
<1> HIDE DEF w
<1>5. w \o v \in Seq(A) /\ Len(w \o v) = Len(s) + Len(ops)
      /\ \A j \in 1..Len(s) + Len(ops) :
           (w \o v)[j] = IF j < i + Len(ops) THEN w[j] ELSE v[j - (i - 1 + Len(ops))]
  <2>1. w \in Seq(A) /\ v \in Seq(A) /\ Len(w) = i - 1 + Len(ops) /\ Len(v) = Len(s) - i + 1
    BY <1>3, <1>4
  <2>2. /\ w \o v \in Seq(A) /\ Len(w \o v) = Len(w) + Len(v)
        /\ \A j \in 1..Len(w) + Len(v) :
             (w \o v)[j] = IF j <= Len(w) THEN w[j] ELSE v[j - Len(w)]
    <3>1. w \in Seq(A) /\ v \in Seq(A)
      BY <2>1
    <3> QED BY <3>1, ConcatProperties
  <2>3. Len(w) + Len(v) = Len(s) + Len(ops)
    BY <1>1, <2>1
  <2>4. \A j \in 1..Len(s) + Len(ops) : j <= Len(w) <=> j < i + Len(ops)
    BY <1>1, <2>1
  <2> QED BY <2>1, <2>2, <2>3, <2>4
<1>6. ASSUME NEW j \in 1..Len(s) + Len(ops), ~(j < i + Len(ops))
      PROVE  v[j - (i - 1 + Len(ops))] = s[j - Len(ops)]
  <2>1. j - (i - 1 + Len(ops)) \in 1..Len(s) - i + 1
        /\ i + (j - (i - 1 + Len(ops))) - 1 = j - Len(ops)
    BY <1>1, <1>6
  <2> QED BY <2>1, <1>3
<1>7. ASSUME NEW j \in 1..Len(s) + Len(ops), j < i + Len(ops)
      PROVE  w[j] = IF j < i THEN s[j] ELSE ops[j - i + 1]
  BY <1>1, <1>4, <1>7
<1>8. Inserted(s, i, ops) = w \o v
  BY DEF Inserted, u, v, w
<1>9. ASSUME NEW j \in 1..Len(s) + Len(ops)
      PROVE  (w \o v)[j] = IF j < i THEN s[j]
                          ELSE IF j < i + Len(ops) THEN ops[j - i + 1]
                          ELSE s[j - Len(ops)]
  <2>1. j < i => j < i + Len(ops)
    BY <1>1
  <2> QED BY <2>1, <1>5, <1>6, <1>7
<1> QED BY <1>5, <1>8, <1>9

\* An insertion not past the start of a suffix leaves it a suffix, and never
\* changes the last member: the terminator of a block stays its terminator.
LEMMA InsertedFacts ==
  ASSUME NEW A, NEW s \in Seq(A), NEW ops \in Seq(A), NEW i \in 1..Len(s)
  PROVE  LET r == Inserted(s, i, ops)
         IN /\ r \in Seq(A) /\ r # <<>>
            /\ Last(r) = Last(s)
            /\ Range(r) = Range(s) \cup Range(ops)
            /\ IsInjective(s) /\ IsInjective(ops) /\ Range(s) \cap Range(ops) = {}
                 => IsInjective(r)
            /\ \A t : t \in Seq(A) /\ EndsIn(s, t) /\ i <= Len(s) - Len(t) + 1 => EndsIn(r, t)
<1> DEFINE r == Inserted(s, i, ops)
           n == Len(s)
           m == Len(ops)
<1>1. n \in Nat /\ m \in Nat /\ DOMAIN s = 1..n /\ DOMAIN ops = 1..m
  OBVIOUS
<1>2. /\ r \in Seq(A) /\ Len(r) = n + m /\ DOMAIN r = 1..n + m
      /\ \A j \in 1..n + m :
           r[j] = IF j < i THEN s[j] ELSE IF j < i + m THEN ops[j - i + 1] ELSE s[j - m]
  <2>1. r \in Seq(A) /\ Len(r) = n + m
    BY InsertedAt
  <2>2. DOMAIN r = 1..n + m
    <3> HIDE DEF r, n, m
    <3> QED BY <2>1
  <2>3. \A j \in 1..n + m :
          r[j] = IF j < i THEN s[j] ELSE IF j < i + m THEN ops[j - i + 1] ELSE s[j - m]
    BY InsertedAt
  <2> QED BY <2>1, <2>2, <2>3
<1> HIDE DEF r, n, m
<1>3. r # <<>> /\ r[n + m] = s[n]
  <2>1. n + m \in 1..n + m /\ ~(n + m < i) /\ ~(n + m < i + m) /\ n + m - m = n
    BY <1>1 DEF n
  <2>2. r[n + m] = s[n + m - m]
    BY <2>1, <1>1, <1>2
  <2> QED BY <2>1, <2>2, <1>2
<1>4. ASSUME NEW j \in 1..n + m
      PROVE  \/ j < i /\ j \in 1..n /\ r[j] = s[j]
             \/ j >= i /\ j < i + m /\ j - i + 1 \in 1..m /\ r[j] = ops[j - i + 1]
             \/ j >= i + m /\ j - m \in 1..n /\ r[j] = s[j - m]
  <2>1. i \in 1..n
    BY DEF n
  <2>2. CASE j < i
    BY <2>1, <2>2, <1>1, <1>2
  <2>3. CASE ~(j < i) /\ j < i + m
    <3>1. j - i + 1 \in 1..m /\ j >= i
      BY <2>1, <2>3, <1>1
    <3> QED BY <3>1, <2>3, <1>2
  <2>4. CASE ~(j < i) /\ ~(j < i + m)
    <3>1. j - m \in 1..n /\ j >= i + m
      BY <2>1, <2>4, <1>1
    <3> QED BY <3>1, <2>4, <1>2
  <2> QED BY <2>2, <2>3, <2>4
<1>5. Range(r) = Range(s) \cup Range(ops)
  <2>1. \A j \in 1..n + m : r[j] \in Range(s) \cup Range(ops)
    BY <1>1, <1>4 DEF Range
  <2>2. ASSUME NEW k \in 1..n PROVE s[k] \in Range(r)
    <3>1. CASE k < i
      <4>1. k \in 1..n + m
        BY <1>1
      <4>2. r[k] = s[k]
        BY <4>1, <3>1, <1>2
      <4> QED BY <4>1, <4>2, <1>2 DEF Range
    <3>2. CASE ~(k < i)
      <4>1. k + m \in 1..n + m /\ ~(k + m < i) /\ ~(k + m < i + m) /\ k + m - m = k
        BY <3>2, <1>1
      <4>2. r[k + m] = s[k + m - m]
        BY <4>1, <1>1, <1>2
      <4> QED BY <4>1, <4>2, <1>2 DEF Range
    <3> QED BY <3>1, <3>2
  <2>3. ASSUME NEW k \in 1..m PROVE ops[k] \in Range(r)
    <3>1. i + k - 1 \in 1..n + m /\ ~(i + k - 1 < i) /\ i + k - 1 < i + m
          /\ (i + k - 1) - i + 1 = k
      BY <1>1 DEF n
    <3>2. r[i + k - 1] = ops[k]
      BY <3>1, <1>2
    <3> QED BY <3>1, <3>2, <1>2 DEF Range
  <2> QED BY <2>1, <2>2, <2>3, <1>1, <1>2, ZenonT(60) DEF Range
<1>6. ASSUME IsInjective(s), IsInjective(ops), Range(s) \cap Range(ops) = {}
      PROVE  IsInjective(r)
  <2> SUFFICES ASSUME NEW j \in 1..n + m, NEW k \in 1..n + m, r[j] = r[k], j < k PROVE FALSE
    <3>1. \A j, k \in 1..n + m : r[j] = r[k] => ~(j < k) /\ ~(k < j)
      OBVIOUS
    <3>2. \A j, k \in 1..n + m : ~(j < k) /\ ~(k < j) => j = k
      BY <1>1
    <3> QED BY <3>1, <3>2, <1>2 DEF IsInjective
  <2>1. \A a, b \in 1..n : s[a] = s[b] => a = b
    BY <1>6, <1>1 DEF IsInjective
  <2>2. \A a, b \in 1..m : ops[a] = ops[b] => a = b
    BY <1>6, <1>1 DEF IsInjective
  <2>3. \A a \in 1..n, b \in 1..m : s[a] # ops[b]
    BY <1>6, <1>1 DEF Range
  <2>4. \/ j < i /\ j \in 1..n /\ r[j] = s[j]
        \/ j >= i /\ j < i + m /\ j - i + 1 \in 1..m /\ r[j] = ops[j - i + 1]
        \/ j >= i + m /\ j - m \in 1..n /\ r[j] = s[j - m]
    BY <1>4
  <2>5. \/ k < i /\ k \in 1..n /\ r[k] = s[k]
        \/ k >= i /\ k < i + m /\ k - i + 1 \in 1..m /\ r[k] = ops[k - i + 1]
        \/ k >= i + m /\ k - m \in 1..n /\ r[k] = s[k - m]
    BY <1>4
  <2>6. i \in Nat /\ j \in Nat /\ k \in Nat
    BY <1>1 DEF n
  <2>7. CASE j < i /\ j \in 1..n /\ r[j] = s[j]
    <3>1. CASE k < i /\ k \in 1..n /\ r[k] = s[k]
      <4>1. j = k
        BY <2>1, <2>7, <3>1
      <4> QED BY <4>1, <2>6
    <3>2. CASE k >= i /\ k < i + m /\ k - i + 1 \in 1..m /\ r[k] = ops[k - i + 1]
      BY <2>3, <2>7, <3>2
    <3>3. CASE k >= i + m /\ k - m \in 1..n /\ r[k] = s[k - m]
      <4>1. j = k - m
        BY <2>1, <2>7, <3>3
      <4> QED BY <4>1, <2>6, <2>7, <3>3, <1>1
    <3> QED BY <3>1, <3>2, <3>3, <2>5
  <2>8. CASE j >= i /\ j < i + m /\ j - i + 1 \in 1..m /\ r[j] = ops[j - i + 1]
    <3>1. CASE k < i /\ k \in 1..n /\ r[k] = s[k]
      BY <2>6, <2>8, <3>1
    <3>2. CASE k >= i /\ k < i + m /\ k - i + 1 \in 1..m /\ r[k] = ops[k - i + 1]
      <4>1. j - i + 1 = k - i + 1
        BY <2>2, <2>8, <3>2
      <4> QED BY <4>1, <2>6
    <3>3. CASE k >= i + m /\ k - m \in 1..n /\ r[k] = s[k - m]
      BY <2>3, <2>8, <3>3
    <3> QED BY <3>1, <3>2, <3>3, <2>5
  <2>9. CASE j >= i + m /\ j - m \in 1..n /\ r[j] = s[j - m]
    <3>1. k >= i + m /\ k - m \in 1..n /\ r[k] = s[k - m]
      BY <2>5, <2>6, <2>9, <1>1
    <3>2. j - m = k - m
      BY <2>1, <2>9, <3>1
    <3> QED BY <3>2, <2>6, <1>1
  <2> QED BY <2>4, <2>7, <2>8, <2>9
<1>7. ASSUME NEW t \in Seq(A), EndsIn(s, t), i <= n - Len(t) + 1
      PROVE  EndsIn(r, t)
  <2>1. Len(t) \in Nat /\ Len(t) <= n /\ \A j \in 1..Len(t) : t[j] = s[n - Len(t) + j]
    BY <1>7 DEF EndsIn, n
  <2> DEFINE l == Len(t)
  <2> HIDE DEF l
  <2>2. l \in Nat /\ l <= n /\ \A j \in 1..l : t[j] = s[n - l + j]
    BY <2>1 DEF l
  <2>3. ASSUME NEW j \in 1..l PROVE t[j] = r[n + m - l + j]
    <3>1. /\ n + m - l + j \in 1..n + m /\ ~(n + m - l + j < i) /\ ~(n + m - l + j < i + m)
          /\ (n + m - l + j) - m = n - l + j
      BY <2>2, <1>1, <1>7 DEF l, n
    <3>2. r[n + m - l + j] = s[n - l + j]
      BY <3>1, <1>2
    <3> QED BY <3>2, <2>2
  <2>4. l <= n + m
    BY <2>2, <1>1
  <2>5. /\ Len(r) = n + m /\ Len(t) = l
        /\ \A j \in 1..l : t[j] = r[(n + m) - l + j]
    <3>1. \A j \in 1..l : n + m - l + j = (n + m) - l + j
      BY <2>2, <1>1
    <3> QED BY <3>1, <2>3, <1>2 DEF l
  <2> HIDE DEF l
  <2> QED BY <2>4, <2>5 DEF EndsIn
<1> QED BY <1>2, <1>3, <1>5, <1>6, <1>7 DEF r, n, m, Last

-----------------------------------------------------------------------------
(* Code *)

\* Well-formed code is well-formed blocks and well-formed regions.
LEMMA CodeParts == \A p : IsCode(p) <=> HasBlocks(p) /\ HasRegions(p)
BY DEF IsCode, HasBlocks, HasRegions, Regions

\* Operations and blocks are numbered from 1, and an operation in use is in one
\* block, the one BlockOf finds.
LEMMA CodeFacts ==
  ASSUME NEW p, HasBlocks(p)
  PROVE  /\ Len(p.op) \in Nat /\ DOMAIN p.op = 1..Len(p.op)
         /\ Len(p.block) \in Nat /\ DOMAIN p.block = 1..Len(p.block)
         /\ OpsIn(p) \subseteq DOMAIN p.op
         /\ \A o \in OpsIn(p) : \E b \in DOMAIN p.block : o \in Range(p.block[b])
         /\ \A b \in DOMAIN p.block : \A o \in Range(p.block[b]) :
              o \in OpsIn(p) /\ BlockOf(p, o) = b
<1>1. p.op \in Seq(Range(p.op)) /\ p.block \in Seq(Range(p.block))
  BY DEF HasBlocks
<1>2. /\ Len(p.op) \in Nat /\ DOMAIN p.op = 1..Len(p.op)
      /\ Len(p.block) \in Nat /\ DOMAIN p.block = 1..Len(p.block)
  BY <1>1
<1>3. \A b \in DOMAIN p.block : Range(p.block[b]) \subseteq DOMAIN p.op
  <2> SUFFICES ASSUME NEW b \in DOMAIN p.block PROVE Range(p.block[b]) \subseteq DOMAIN p.op
    OBVIOUS
  <2>1. p.block[b] \in Seq(DOMAIN p.op)
    BY DEF HasBlocks, IsBlock
  <2> QED BY <2>1, RangeFacts
<1>4. ASSUME NEW b \in DOMAIN p.block, NEW o \in Range(p.block[b])
      PROVE  o \in OpsIn(p) /\ BlockOf(p, o) = b
  <2>1. \A c \in DOMAIN p.block : o \in Range(p.block[c]) => c = b
    BY <1>4 DEF HasBlocks
  <2> QED BY <2>1, <1>4 DEF OpsIn, BlockOf
<1> QED BY <1>2, <1>3, <1>4 DEF OpsIn

\* A block lists each operation once, IndexOf finds where, and its terminator,
\* the last, is the only one it has.
LEMMA BlockFacts ==
  ASSUME NEW p, HasBlocks(p), NEW b \in DOMAIN p.block
  PROVE  LET s == p.block[b]
         IN /\ s \in Seq(Nat) /\ Len(s) \in Nat /\ DOMAIN s = 1..Len(s)
            /\ IsInjective(s)
            /\ Range(s) \subseteq DOMAIN p.op
            /\ \A i \in 1..Len(s) : s[i] \in Range(s) /\ IndexOf(p, s[i]) = i
            /\ \A o \in Range(s) : IndexOf(p, o) \in 1..Len(s) /\ s[IndexOf(p, o)] = o
            /\ \A o \in Range(s) : p.op[o].k = "end" <=> o = Last(s)
            /\ s # <<>> => Last(s) \in Range(s) /\ p.op[Last(s)].k = "end"
<1> DEFINE s == p.block[b]
<1>1. /\ s \in Seq(DOMAIN p.op) /\ IsInjective(s)
      /\ \A i \in DOMAIN s : p.op[s[i]].k = "end" <=> i = Len(s)
  BY DEF HasBlocks, IsBlock
<1>2. DOMAIN p.op \subseteq Nat
  BY CodeFacts
<1>3. s \in Seq(Nat)
  <2> HIDE DEF s
  <2> QED BY <1>1, <1>2
<1>4. Len(s) \in Nat /\ DOMAIN s = 1..Len(s)
  BY <1>3
<1>5. Range(s) \subseteq DOMAIN p.op
  BY <1>1, RangeFacts
<1>6. ASSUME NEW i \in 1..Len(s) PROVE s[i] \in Range(s) /\ IndexOf(p, s[i]) = i
  <2>1. s[i] \in Range(s)
    BY <1>4 DEF Range
  <2>2. BlockOf(p, s[i]) = b
    BY <2>1, CodeFacts
  <2>3. \A j \in DOMAIN s : s[j] = s[i] => j = i
    BY <1>1, <1>4 DEF IsInjective
  <2> QED BY <2>1, <2>2, <2>3, <1>4 DEF IndexOf
<1>7. ASSUME NEW o \in Range(s) PROVE IndexOf(p, o) \in 1..Len(s) /\ s[IndexOf(p, o)] = o
  <2>1. PICK i \in 1..Len(s) : s[i] = o
    BY <1>7, <1>4 DEF Range
  <2> QED BY <2>1, <1>6
<1>8. ASSUME NEW o \in Range(s) PROVE p.op[o].k = "end" <=> o = Last(s)
  <2>1. PICK i \in 1..Len(s) : s[i] = o
    BY <1>8, <1>4 DEF Range
  <2>2. Len(s) \in DOMAIN s
    BY <2>1, <1>4
  <2>3. s[Len(s)] = s[i] <=> i = Len(s)
    BY <2>1, <2>2, <1>1, <1>4 DEF IsInjective
  <2> QED BY <2>1, <2>3, <1>1, <1>4 DEF Last
<1>9. s # <<>> => Last(s) \in Range(s)
  BY <1>3, RangeFacts
<1> QED BY <1>1, <1>3, <1>4, <1>5, <1>6, <1>7, <1>8, <1>9

\* An operation outside the rest of its block comes before it.
LEMMA Before ==
  ASSUME NEW p, HasBlocks(p), NEW b \in DOMAIN p.block, NEW t \in Seq(Nat),
         EndsIn(p.block[b], t), NEW o \in Range(p.block[b]), o \notin Range(t)
  PROVE  IndexOf(p, o) <= Len(p.block[b]) - Len(t)
<1> DEFINE s == p.block[b]
           i == IndexOf(p, o)
           l == Len(s)
           m == Len(t)
<1>1. i \in 1..l /\ s[i] = o /\ l \in Nat
  BY BlockFacts
<1>2. m \in Nat /\ m <= l /\ \A j \in 1..m : t[j] = s[l - m + j]
  BY SMTT(60) DEF EndsIn
<1>3. \A j \in 1..m : t[j] \in Range(t)
  BY RangeFacts
<1> HIDE DEF s, i, l, m
<1> SUFFICES ASSUME ~(i <= l - m) PROVE FALSE
  BY DEF s, i, l, m
<1>4. i - (l - m) \in 1..m /\ l - m + (i - (l - m)) = i
  BY <1>1, <1>2
<1>5. t[i - (l - m)] = o
  BY <1>1, <1>2, <1>4
<1> QED BY <1>3, <1>4, <1>5

\* The first operation of the rest of a block.
LEMMA HeadOfRest ==
  ASSUME NEW p, HasBlocks(p), NEW b \in DOMAIN p.block, NEW t \in Seq(Nat),
         EndsIn(p.block[b], t), t # <<>>
  PROVE  /\ Head(t) \in Range(p.block[b])
         /\ IndexOf(p, Head(t)) = Len(p.block[b]) - Len(t) + 1
         /\ Range(t) \subseteq Range(p.block[b])
<1> DEFINE s == p.block[b]
           l == Len(s)
           m == Len(t)
<1>1. /\ m \in Nat /\ m >= 1 /\ m <= l /\ l \in Nat /\ DOMAIN t = 1..m
      /\ \A j \in 1..m : t[j] = s[l - m + j]
  BY BlockFacts DEF EndsIn
<1>2. \A i \in 1..l : s[i] \in Range(s) /\ IndexOf(p, s[i]) = i
  BY BlockFacts
<1>3. Head(t) = t[1]
  OBVIOUS
<1> HIDE DEF s, l, m
<1>4. \A j \in 1..m : l - m + j \in 1..l
  BY <1>1
<1>5. \A j \in 1..m : t[j] \in Range(s)
  BY <1>1, <1>2, <1>4
<1>6. Range(t) \subseteq Range(s)
  BY <1>5, <1>1 DEF Range
<1>7. t[1] = s[l - m + 1] /\ 1 \in 1..m /\ l - m + 1 \in 1..l
  BY <1>1
<1> QED BY <1>2, <1>3, <1>5, <1>6, <1>7 DEF s, l, m

-----------------------------------------------------------------------------
(* What the edits do to the blocks *)

\* The operations appended to a list of n.
Fresh(n, m) == [j \in 1..m |-> n + j]

\* A sequence over a set is one over a larger set.
LEMMA SeqWiden ==
  ASSUME NEW A, NEW B, NEW s, s \in Seq(A), A \subseteq B
  PROVE  s \in Seq(B)
<1>1. Len(s) \in Nat /\ \A i \in 1..Len(s) : s[i] \in A
  OBVIOUS
<1>2. s = [i \in 1..Len(s) |-> s[i]]
  OBVIOUS
<1> QED BY <1>1, <1>2

\* The numbers of new operations are consecutive, and none is given twice.
LEMMA FreshFacts ==
  ASSUME NEW n \in Nat, NEW m \in Nat
  PROVE  /\ Fresh(n, m) \in Seq(n + 1..n + m) /\ Len(Fresh(n, m)) = m
         /\ IsInjective(Fresh(n, m)) /\ Range(Fresh(n, m)) = n + 1..n + m
<1>1. \A j \in 1..m : n + j \in n + 1..n + m
  OBVIOUS
<1>2. Fresh(n, m) \in Seq(n + 1..n + m) /\ Len(Fresh(n, m)) = m
  BY <1>1 DEF Fresh
<1>3. IsInjective(Fresh(n, m))
  BY DEF Fresh, IsInjective
<1>4. \A x \in n + 1..n + m : x - n \in 1..m /\ n + (x - n) = x
  OBVIOUS
<1>5. Range(Fresh(n, m)) = n + 1..n + m
  BY <1>1, <1>4 DEF Fresh, Range
<1> QED BY <1>2, <1>3, <1>5

\* A list with new operations appended: old ones keep their numbers.
LEMMA AppendedOps ==
  ASSUME NEW p, HasBlocks(p), NEW ops, ops \in Seq(Range(ops))
  PROVE  LET r == p.op \o ops
         IN /\ r \in Seq(Range(r)) /\ DOMAIN r = 1..Len(p.op) + Len(ops)
            /\ \A o \in DOMAIN p.op : o \in DOMAIN r /\ r[o] = p.op[o]
            /\ \A j \in DOMAIN ops : Len(p.op) + j \in DOMAIN r /\ r[Len(p.op) + j] = ops[j]
            /\ \A o \in DOMAIN r : o \in DOMAIN p.op \/ o - Len(p.op) \in DOMAIN ops
<1> DEFINE A == Range(p.op) \cup Range(ops)
           n == Len(p.op)
           m == Len(ops)
           r == p.op \o ops
<1>1. p.op \in Seq(A) /\ ops \in Seq(A)
  BY DEF HasBlocks
<1>2. n \in Nat /\ m \in Nat /\ DOMAIN p.op = 1..n /\ DOMAIN ops = 1..m
  BY <1>1
<1>3. /\ r \in Seq(A) /\ Len(r) = n + m
      /\ \A i \in 1..n + m : r[i] = IF i <= n THEN p.op[i] ELSE ops[i - n]
  BY <1>1, ConcatProperties
<1> HIDE DEF r, n, m
<1>4. DOMAIN r = 1..n + m
  BY <1>3
<1>5. r \in Seq(Range(r))
  BY <1>3, <1>4 DEF Range
<1>6. \A o \in 1..n : o \in 1..n + m /\ r[o] = p.op[o]
  BY <1>2, <1>3
<1>7. \A j \in 1..m : n + j \in 1..n + m /\ ~(n + j <= n) /\ (n + j) - n = j
  BY <1>2
<1>8. \A j \in 1..m : n + j \in 1..n + m /\ r[n + j] = ops[j]
  <2> TAKE j \in 1..m
  <2>1. r[n + j] = ops[(n + j) - n]
    BY <1>3, <1>7
  <2> QED BY <2>1, <1>7
<1>9. \A o \in 1..n + m : o \in 1..n \/ o - n \in 1..m
  BY <1>2
<1> QED BY <1>2, <1>4, <1>5, <1>6, <1>8, <1>9 DEF r, n, m

\* An edit of the operations and of one block.
LEMMA RecordEdit ==
  ASSUME NEW p, p = [op |-> p.op, block |-> p.block, root |-> p.root, valued |-> p.valued],
         NEW b, NEW O, NEW s
  PROVE  [p EXCEPT !.op = O, !.block[b] = s]
           = [op |-> O, block |-> [p.block EXCEPT ![b] = s], root |-> p.root,
              valued |-> p.valued]
<1> DEFINE a == [p EXCEPT !.op = O]
<1>1. /\ a.op = O /\ a.block = p.block /\ a.root = p.root /\ a.valued = p.valued
      /\ DOMAIN a = {"op", "block", "root", "valued"}
  OBVIOUS
<1>2. a = [x \in {"op", "block", "root", "valued"} |-> a[x]]
  BY <1>1
<1>3. a = [op |-> O, block |-> p.block, root |-> p.root, valued |-> p.valued]
  BY <1>1, <1>2
<1>4. [p EXCEPT !.op = O, !.block[b] = s] = [a EXCEPT !.block[b] = s]
  OBVIOUS
<1>5. \A A, B, R, V : [[op |-> A, block |-> B, root |-> R, valued |-> V] EXCEPT !.block[b] = s]
                        = [op |-> A, block |-> [B EXCEPT ![b] = s], root |-> R, valued |-> V]
  OBVIOUS
<1> HIDE DEF a
<1> QED BY <1>3, <1>4, <1>5

\* q is p with `ops` in front of `at`, in the block b.
IsEmit(p, b, at, ops, q) ==
  LET n == Len(p.op)
  IN /\ HasBlocks(q)
     /\ q.root = p.root /\ DOMAIN q.block = DOMAIN p.block
     /\ Len(q.op) = n + Len(ops)
     /\ \A o \in DOMAIN p.op : o \in DOMAIN q.op /\ q.op[o] = p.op[o]
     /\ \A j \in DOMAIN ops : n + j \in DOMAIN q.op /\ q.op[n + j] = ops[j]
     /\ \A c \in DOMAIN p.block : c # b => q.block[c] = p.block[c]
     /\ q.block[b] # <<>> /\ Last(q.block[b]) = Last(p.block[b])
     /\ Range(q.block[b]) = Range(p.block[b]) \cup (n + 1..n + Len(ops))
     /\ \A t : /\ t \in Seq(Nat)
               /\ EndsIn(p.block[b], t)
               /\ IndexOf(p, at) <= Len(p.block[b]) - Len(t) + 1
               => EndsIn(q.block[b], t)

\* RewriterBase::create at a place in a block does what IsEmit says.
LEMMA EmitFacts ==
  ASSUME NEW p, HasBlocks(p), NEW b \in DOMAIN p.block, NEW at \in Range(p.block[b]),
         NEW ops, ops \in Seq(Range(ops)),
         \A j \in DOMAIN ops : IsNode(ops[j]) /\ ops[j].k # "end"
  PROVE  IsEmit(p, b, at, ops, Emit(p, at, ops))
<1> DEFINE q == Emit(p, at, ops)
           n == Len(p.op)
           m == Len(ops)
           s == p.block[b]
           r == Inserted(s, IndexOf(p, at), Fresh(n, m))
<1>1. /\ n \in Nat /\ m \in Nat /\ DOMAIN p.op = 1..n /\ DOMAIN ops = 1..m
      /\ p.block \in Seq(Range(p.block)) /\ BlockOf(p, at) = b
      /\ p = [op |-> p.op, block |-> p.block, root |-> p.root, valued |-> p.valued]
  BY CodeFacts, SMTT(60) DEF HasBlocks
<1>2. /\ s \in Seq(Nat) /\ IsInjective(s) /\ Range(s) \subseteq 1..n /\ Len(s) \in Nat
      /\ IndexOf(p, at) \in 1..Len(s) /\ DOMAIN s = 1..Len(s)
  BY <1>1, BlockFacts, ZenonT(60)
<1>3. /\ Fresh(n, m) \in Seq(Nat) /\ IsInjective(Fresh(n, m))
      /\ Range(Fresh(n, m)) = n + 1..n + m
  <2> HIDE DEF n, m
  <2>1. n \in Nat /\ m \in Nat
    BY <1>1
  <2>2. /\ Fresh(n, m) \in Seq(n + 1..n + m) /\ IsInjective(Fresh(n, m))
        /\ Range(Fresh(n, m)) = n + 1..n + m
    BY <2>1, FreshFacts
  <2>3. n + 1..n + m \subseteq Nat
    BY <2>1
  <2> QED BY <2>2, <2>3, SeqWiden
<1>4. q = [op |-> p.op \o ops, block |-> [p.block EXCEPT ![b] = r], root |-> p.root,
           valued |-> p.valued]
  <2>1. q = [p EXCEPT !.op = p.op \o ops, !.block[b] = r]
    BY <1>1 DEF Emit, Inserted, Fresh
  <2> HIDE DEF q, r
  <2> QED BY <2>1, <1>1, RecordEdit
<1> HIDE DEF q
<1>5. q.op = p.op \o ops /\ q.block = [p.block EXCEPT ![b] = r] /\ q.root = p.root
  BY <1>4
<1>6. q = [op |-> q.op, block |-> q.block, root |-> q.root, valued |-> q.valued]
  BY <1>4
<1>7. Range(s) \cap Range(Fresh(n, m)) = {}
  <2>1. (1..n) \cap (n + 1..n + m) = {}
    BY <1>1
  <2> QED BY <2>1, <1>2, <1>3
<1>8. /\ r \in Seq(Nat) /\ r # <<>> /\ Last(r) = Last(s)
      /\ Range(r) = Range(s) \cup (n + 1..n + m) /\ IsInjective(r)
      /\ \A t : t \in Seq(Nat) /\ EndsIn(s, t) /\ IndexOf(p, at) <= Len(s) - Len(t) + 1
                  => EndsIn(r, t)
  <2>1. PICK f, i, e : f = Fresh(n, m) /\ i = IndexOf(p, at) /\ e = s
    OBVIOUS
  <2> HIDE DEF s, n, m
  <2>2. e \in Seq(Nat) /\ f \in Seq(Nat) /\ i \in 1..Len(e)
    BY <2>1, <1>2, <1>3
  <2>3. IsInjective(e) /\ IsInjective(f) /\ Range(e) \cap Range(f) = {} /\ r = Inserted(e, i, f)
    BY <2>1, <1>2, <1>3, <1>7
  <2> HIDE DEF r
  <2>4. /\ r \in Seq(Nat) /\ r # <<>> /\ Last(r) = Last(e)
        /\ Range(r) = Range(e) \cup Range(f) /\ IsInjective(r)
        /\ \A t : t \in Seq(Nat) /\ EndsIn(e, t) /\ i <= Len(e) - Len(t) + 1 => EndsIn(r, t)
    <3>1. LET x == Inserted(e, i, f)
          IN /\ x \in Seq(Nat) /\ x # <<>>
             /\ Last(x) = Last(e)
             /\ Range(x) = Range(e) \cup Range(f)
             /\ IsInjective(e) /\ IsInjective(f) /\ Range(e) \cap Range(f) = {}
                  => IsInjective(x)
             /\ \A t : t \in Seq(Nat) /\ EndsIn(e, t) /\ i <= Len(e) - Len(t) + 1
                         => EndsIn(x, t)
      BY <2>2, InsertedFacts
    <3> QED BY <3>1, <2>3
  <2> QED BY <2>1, <2>4, <1>3
<1>9. /\ q.op \in Seq(Range(q.op)) /\ DOMAIN q.op = 1..n + m
      /\ \A o \in DOMAIN p.op : o \in DOMAIN q.op /\ q.op[o] = p.op[o]
      /\ \A j \in DOMAIN ops : n + j \in DOMAIN q.op /\ q.op[n + j] = ops[j]
      /\ \A o \in DOMAIN q.op : o \in DOMAIN p.op \/ o - n \in DOMAIN ops
  BY <1>5, AppendedOps
<1>10. Len(q.op) = n + m
  <2>1. Len(q.op) \in Nat /\ DOMAIN q.op = 1..Len(q.op)
    BY <1>9
  <2>2. n + m \in Nat
    BY <1>1
  <2> HIDE DEF n, m
  <2> QED BY <2>1, <2>2, <1>9
<1>11. DOMAIN q.block = DOMAIN p.block /\ q.block[b] = r
       /\ \A c \in DOMAIN p.block : c # b => q.block[c] = p.block[c]
  BY <1>5
<1> HIDE DEF r, n, m, s
<1>12. \A o \in DOMAIN q.op : IsNode(q.op[o])
  <2> SUFFICES ASSUME NEW o \in DOMAIN q.op PROVE IsNode(q.op[o])
    OBVIOUS
  <2>1. CASE o \in DOMAIN p.op
    BY <2>1, <1>9 DEF HasBlocks
  <2>2. CASE o - n \in DOMAIN ops
    <3>1. n + (o - n) = o
      BY <1>1, <1>9
    <3> QED BY <2>2, <3>1, <1>9
  <2> QED BY <2>1, <2>2, <1>9
<1>13. IsBlock(q, r)
  <2>1. Range(r) \subseteq DOMAIN q.op
    <3>1. 1..n \subseteq 1..n + m /\ n + 1..n + m \subseteq 1..n + m
      BY <1>1
    <3> QED BY <3>1, <1>2, <1>8, <1>9
  <2>2. r \in Seq(DOMAIN q.op) /\ DOMAIN r = 1..Len(r) /\ Len(r) \in Nat
    <3>1. r \in Seq(Nat)
      BY <1>8
    <3>2. \A i \in 1..Len(r) : r[i] \in DOMAIN q.op
      BY <3>1, <2>1, RangeFacts
    <3>3. DOMAIN r = 1..Len(r) /\ Len(r) \in Nat
      BY <3>1
    <3>4. r \in Seq(DOMAIN q.op)
      BY ONLY <3>1, <3>2, SMTT(60)
    <3> QED BY <3>3, <3>4
  <2>3. ASSUME NEW x \in Range(r) PROVE q.op[x].k = "end" <=> x = Last(r)
    <3>1. CASE x \in Range(s)
      <4>1. p.op[x].k = "end" <=> x = Last(s)
        BY <3>1, BlockFacts DEF s
      <4>2. q.op[x] = p.op[x]
        BY <3>1, <1>1, <1>2, <1>9
      <4> QED BY <4>1, <4>2, <1>8
    <3>2. CASE x \in n + 1..n + m
      <4>1. x - n \in DOMAIN ops /\ n + (x - n) = x
        BY <3>2, <1>1
      <4>2. q.op[x].k # "end"
        <5>1. q.op[n + (x - n)] = ops[x - n]
          BY <4>1, <1>9
        <5> QED BY <5>1, <4>1
      <4>3. x \notin Range(s)
        BY <3>2, <1>3, <1>7
      <4>4. s # <<>> => Last(s) \in Range(s)
        BY BlockFacts DEF s
      <4>5. s # <<>>
        BY <1>2
      <4> QED BY <4>2, <4>3, <4>4, <4>5, <1>8
    <3> QED BY <3>1, <3>2, <2>3, <1>8
  <2>4. ASSUME NEW i \in DOMAIN r PROVE q.op[r[i]].k = "end" <=> i = Len(r)
    <3>1. r[i] \in Range(r) /\ Len(r) \in DOMAIN r
      BY <2>2 DEF Range
    <3>2. r[i] = Last(r) <=> i = Len(r)
      BY <3>1, <1>8 DEF IsInjective, Last
    <3> QED BY <3>1, <3>2, <2>3
  <2> QED BY <2>2, <2>4, <1>8 DEF IsBlock
<1>14. ASSUME NEW c \in DOMAIN q.block PROVE IsBlock(q, q.block[c])
  <2>1. CASE c = b
    BY <2>1, <1>11, <1>13
  <2>2. CASE c # b
    <3>1. IsBlock(p, p.block[c]) /\ q.block[c] = p.block[c]
      BY <2>2, <1>11 DEF HasBlocks
    <3>2. \A i \in DOMAIN p.block[c] : p.block[c][i] \in DOMAIN p.op
      BY <3>1 DEF IsBlock
    <3>3. p.block[c] \in Seq(DOMAIN q.op)
      <4>1. DOMAIN p.op \subseteq DOMAIN q.op
        BY <1>9
      <4> QED BY <4>1, <3>1 DEF IsBlock
    <3>4. \A i \in DOMAIN p.block[c] : q.op[p.block[c][i]].k = "end" <=> i = Len(p.block[c])
      BY <3>1, <3>2, <1>9, ZenonT(60) DEF IsBlock
    <3>5. PICK t : t = q.block[c]
      OBVIOUS
    <3>6. /\ t \in Seq(DOMAIN q.op) /\ IsInjective(t)
          /\ \A i \in DOMAIN t : q.op[t[i]].k = "end" <=> i = Len(t)
      BY <3>1, <3>3, <3>4, <3>5 DEF IsBlock
    <3> QED BY <3>5, <3>6 DEF IsBlock
  <2> QED BY <2>1, <2>2
<1>15. ASSUME NEW c \in DOMAIN q.block, NEW d \in DOMAIN q.block, c # d
       PROVE  Range(q.block[c]) \cap Range(q.block[d]) = {}
  <2>1. \A e \in DOMAIN p.block : Range(p.block[e]) \cap (n + 1..n + m) = {}
    <3> SUFFICES ASSUME NEW e \in DOMAIN p.block PROVE Range(p.block[e]) \cap (n + 1..n + m) = {}
      OBVIOUS
    <3>1. Range(p.block[e]) \subseteq 1..n
      BY BlockFacts, <1>1
    <3>2. (1..n) \cap (n + 1..n + m) = {}
      BY <1>1
    <3> QED BY <3>1, <3>2
  <2>2. Range(p.block[c]) \cap Range(p.block[d]) = {}
    BY <1>11, <1>15 DEF HasBlocks
  <2>3. q.block[b] = r /\ Range(r) = Range(p.block[b]) \cup (n + 1..n + m)
    BY <1>8, <1>11 DEF s
  <2> QED BY <2>1, <2>2, <2>3, <1>11, <1>15
<1>16. q.block \in Seq(Range(q.block)) /\ q.root \in DOMAIN q.block
  <2>1. p.block \in Seq(Range(p.block)) /\ p.root \in DOMAIN p.block
    BY DEF HasBlocks
  <2>2. q.block \in Seq(Range(p.block) \cup {r})
    BY <2>1, <1>5, <1>1
  <2>3. q.block \in Seq(Range(q.block))
    BY <2>2 DEF Range
  <2> QED BY <2>1, <2>3, <1>5, <1>11
<1>17. HasBlocks(q)
  BY <1>6, <1>9, <1>12, <1>14, <1>15, <1>16 DEF HasBlocks
<1> QED BY <1>5, <1>8, <1>9, <1>10, <1>11, <1>17 DEF IsEmit, q, r, n, m, s

\* Created at the head of a block, an operation is the first of it.
LEMMA EmitAtHead ==
  ASSUME NEW p, HasBlocks(p), NEW b \in DOMAIN p.block, p.block[b] # <<>>, NEW a
  PROVE  LET s == p.block[b]
             t == Emit(p, Head(s), <<a>>).block[b]
         IN /\ t \in Seq(Nat) /\ Len(t) = Len(s) + 1 /\ t[1] = Len(p.op) + 1
            /\ \A j \in 1..Len(s) : t[j + 1] = s[j]
<1>1. PICK s, n : s = p.block[b] /\ n = Len(p.op)
  OBVIOUS
<1>2. /\ s \in Seq(Nat) /\ s # <<>> /\ n \in Nat
      /\ p.block \in Seq(Range(p.block))
      /\ p = [op |-> p.op, block |-> p.block, root |-> p.root, valued |-> p.valued]
  <2>1. p.block[b] \in Seq(Nat)
    BY BlockFacts
  <2> QED BY <2>1, <1>1, CodeFacts DEF HasBlocks
<1>3. PICK l : l = Len(s)
  OBVIOUS
<1>4. l \in Nat /\ l >= 1 /\ Head(s) = s[1] /\ 1 \in 1..l
  BY <1>2, <1>3
<1>5. BlockOf(p, Head(s)) = b /\ IndexOf(p, Head(s)) = 1
  <2>1. \A i \in 1..Len(s) : s[i] \in Range(s) /\ IndexOf(p, s[i]) = i
    BY <1>1, BlockFacts
  <2> QED BY <2>1, <1>1, <1>3, <1>4, CodeFacts
<1>6. PICK r : r = Inserted(s, 1, Fresh(n, 1))
  OBVIOUS
<1>7. Emit(p, Head(s), <<a>>).block[b] = r
  <2>1. Len(<<a>>) = 1
    OBVIOUS
  <2>2. Emit(p, Head(s), <<a>>) = [p EXCEPT !.op = p.op \o <<a>>, !.block[b] = r]
    BY <2>1, <1>1, <1>2, <1>5, <1>6 DEF Emit, Inserted, Fresh
  <2>3. PICK O : O = p.op \o <<a>>
    OBVIOUS
  <2>4. [p EXCEPT !.op = O, !.block[b] = r]
          = [op |-> O, block |-> [p.block EXCEPT ![b] = r], root |-> p.root,
             valued |-> p.valued]
    <3>1. p = [op |-> p.op, block |-> p.block, root |-> p.root, valued |-> p.valued]
      BY <1>2
    <3>2. PICK q : q = [p EXCEPT !.op = O, !.block[b] = r]
      OBVIOUS
    <3>3. q = [op |-> O, block |-> [p.block EXCEPT ![b] = r], root |-> p.root,
               valued |-> p.valued]
      BY ONLY <3>1, <3>2, RecordEdit
    <3> QED BY <3>2, <3>3
  <2>5. Emit(p, Head(s), <<a>>).block = [p.block EXCEPT ![b] = r]
    BY <2>2, <2>3, <2>4, ZenonT(60)
  <2>6. p.block \in Seq(Range(p.block)) /\ b \in DOMAIN p.block
    BY <1>2
  <2>7. [p.block EXCEPT ![b] = r][b] = r
    BY <2>6
  <2> QED BY <2>5, <2>7
<1>8. PICK f : f = Fresh(n, 1)
  OBVIOUS
<1>9. f \in Seq(Nat) /\ Len(f) = 1 /\ f[1] = n + 1
  BY <1>2, <1>8 DEF Fresh
<1>10. /\ Inserted(s, 1, f) \in Seq(Nat) /\ Len(Inserted(s, 1, f)) = l + 1
       /\ \A j \in 1..l + 1 : Inserted(s, 1, f)[j] = IF j < 1 THEN s[j]
                                                     ELSE IF j < 1 + 1 THEN f[j - 1 + 1]
                                                     ELSE s[j - 1]
  <2>1. LET x == Inserted(s, 1, f)
        IN /\ x \in Seq(Nat) /\ Len(x) = Len(s) + Len(f)
           /\ \A j \in 1..Len(s) + Len(f) :
                x[j] = IF j < 1 THEN s[j]
                       ELSE IF j < 1 + Len(f) THEN f[j - 1 + 1]
                       ELSE s[j - Len(f)]
    BY <1>2, <1>3, <1>4, <1>9, InsertedAt, ZenonT(60)
  <2> QED BY <2>1, <1>3, <1>9
<1>11. r \in Seq(Nat) /\ Len(r) = l + 1 /\ r[1] = n + 1 /\ \A j \in 1..l : r[j + 1] = s[j]
  <2>1. 1 \in 1..l + 1 /\ f[1 - 1 + 1] = f[1]
    BY <1>4
  <2>2. \A j \in 1..l : j + 1 \in 1..l + 1 /\ ~(j + 1 < 1) /\ ~(j + 1 < 1 + 1) /\ (j + 1) - 1 = j
    BY <1>4
  <2>3. r[1] = n + 1
    BY <2>1, <1>6, <1>8, <1>9, <1>10
  <2> QED BY <2>2, <2>3, <1>6, <1>8, <1>10
<1> QED BY <1>1, <1>3, <1>7, <1>11

\* The operations of a body one block of which has changed.
LEMMA OpsOfEdit ==
  ASSUME NEW p, NEW q, DOMAIN q.block = DOMAIN p.block, NEW b \in DOMAIN p.block, NEW new,
         \A c \in DOMAIN p.block : c # b => q.block[c] = p.block[c],
         Range(q.block[b]) = Range(p.block[b]) \cup new
  PROVE  OpsIn(q) = OpsIn(p) \cup new
BY DEF OpsIn

\* q is p with a block of nothing but a terminator.
IsAddEmpty(p, q) ==
  LET n == Len(p.op)
      N == Len(p.block) + 1
  IN /\ HasBlocks(q)
     /\ q.root = p.root /\ DOMAIN q.block = DOMAIN p.block \cup {N}
     /\ N \notin DOMAIN p.block
     /\ Len(q.op) = n + 1
     /\ \A o \in DOMAIN p.op : o \in DOMAIN q.op /\ q.op[o] = p.op[o]
     /\ n + 1 \notin DOMAIN p.op /\ n + 1 \in DOMAIN q.op /\ q.op[n + 1] = End
     /\ \A c \in DOMAIN p.block : q.block[c] = p.block[c]
     /\ q.block[N] = <<n + 1>>
     /\ OpsIn(q) = OpsIn(p) \cup {n + 1}

\* A new block with a terminator does what IsAddEmpty says.
LEMMA AddEmptyFacts ==
  ASSUME NEW p, HasBlocks(p)
  PROVE  IsAddEmpty(p, AddEmptyBlock(p))
<1> DEFINE q == AddEmptyBlock(p)
           n == Len(p.op)
           N == Len(p.block) + 1
<1>1. /\ n \in Nat /\ DOMAIN p.op = 1..n /\ Len(p.block) \in Nat /\ DOMAIN p.block = 1..Len(p.block)
      /\ p.block \in Seq(Range(p.block)) /\ p.op \in Seq(Range(p.op))
      /\ p = [op |-> p.op, block |-> p.block, root |-> p.root, valued |-> p.valued]
  BY CodeFacts DEF HasBlocks
<1>2. q = [op |-> Append(p.op, End), block |-> Append(p.block, <<n + 1>>), root |-> p.root,
           valued |-> p.valued]
  <2>1. q = [[p EXCEPT !.op = Append(@, End)] EXCEPT !.block = Append(@, <<n + 1>>)]
    BY DEF AddEmptyBlock, AddBlock
  <2> DEFINE a == [p EXCEPT !.op = Append(p.op, End)]
  <2>2. /\ a.op = Append(p.op, End) /\ a.block = p.block /\ a.root = p.root /\ a.valued = p.valued
        /\ DOMAIN a = {"op", "block", "root", "valued"}
    BY <1>1
  <2> DEFINE e == [a EXCEPT !.block = Append(a.block, <<n + 1>>)]
  <2>3. q = e
    BY <2>1
  <2> HIDE DEF a
  <2>4. /\ e.op = a.op /\ e.block = Append(a.block, <<n + 1>>) /\ e.root = a.root
        /\ e.valued = a.valued /\ DOMAIN e = {"op", "block", "root", "valued"}
    BY <2>2
  <2>5. e = [x \in {"op", "block", "root", "valued"} |-> e[x]]
    BY <2>4
  <2> HIDE DEF e, q
  <2> QED BY <2>2, <2>3, <2>4, <2>5
<1> HIDE DEF q
<1>3. /\ q.op = Append(p.op, End) /\ q.block = Append(p.block, <<n + 1>>) /\ q.root = p.root
      /\ q = [op |-> q.op, block |-> q.block, root |-> q.root, valued |-> q.valued]
  BY <1>2
<1>4. /\ DOMAIN q.op = 1..n + 1 /\ Len(q.op) = n + 1 /\ q.op[n + 1] = End
      /\ \A o \in 1..n : o \in 1..n + 1 /\ q.op[o] = p.op[o]
      /\ q.op \in Seq(Range(p.op) \cup {End})
  BY <1>1, <1>3
<1>5. /\ DOMAIN q.block = 1..N /\ q.block[N] = <<n + 1>>
      /\ \A c \in DOMAIN p.block : c \in DOMAIN q.block /\ q.block[c] = p.block[c]
      /\ q.block \in Seq(Range(p.block) \cup {<<n + 1>>})
  BY <1>1, <1>3
<1>6. DOMAIN q.block = DOMAIN p.block \cup {N} /\ N \notin DOMAIN p.block
  BY <1>1, <1>5
<1>7. q.op \in Seq(Range(q.op)) /\ q.block \in Seq(Range(q.block))
  <2>1. ASSUME NEW A, NEW u \in Seq(A) PROVE u \in Seq(Range(u))
    <3>1. u = [i \in 1..Len(u) |-> u[i]] /\ Len(u) \in Nat /\ DOMAIN u = 1..Len(u)
      BY <2>1
    <3>2. \A i \in 1..Len(u) : u[i] \in Range(u)
      BY <3>1 DEF Range
    <3> QED BY <3>1, <3>2
  <2> QED BY <1>4, <1>5, <2>1
<1>8. n + 1 \in 1..n + 1 /\ n + 1 \notin 1..n /\ \A o \in 1..n + 1 : o \in 1..n \/ o = n + 1
  BY <1>1
<1>9. ASSUME NEW o \in DOMAIN q.op PROVE IsNode(q.op[o])
  <2>1. CASE o \in 1..n
    BY <2>1, <1>1, <1>4 DEF HasBlocks
  <2>2. CASE o = n + 1
    BY <2>2, <1>4 DEF IsNode, End, Make, Kind, NoVar
  <2> QED BY <2>1, <2>2, <1>4, <1>8
<1>10. Range(<<n + 1>>) = {n + 1}
  BY DEF Range
<1>11. ASSUME NEW b \in DOMAIN q.block PROVE IsBlock(q, q.block[b])
  <2>1. CASE b \in DOMAIN p.block
    <3>1. IsBlock(p, p.block[b]) /\ q.block[b] = p.block[b]
      BY <2>1, <1>5 DEF HasBlocks
    <3>2. \A i \in DOMAIN p.block[b] : p.block[b][i] \in 1..n
      BY <3>1, <1>1 DEF IsBlock
    <3>3. p.block[b] \in Seq(DOMAIN q.op)
      BY <3>1, <1>1, <1>4, SeqWiden DEF IsBlock
    <3> QED BY <3>1, <3>2, <3>3, <1>4 DEF IsBlock
  <2>2. CASE b = N
    <3>1. /\ <<n + 1>> \in Seq(DOMAIN q.op) /\ IsInjective(<<n + 1>>)
          /\ DOMAIN <<n + 1>> = {1} /\ Len(<<n + 1>>) = 1 /\ <<n + 1>>[1] = n + 1
      BY <1>4, <1>8 DEF IsInjective
    <3> QED BY <2>2, <3>1, <1>4, <1>5 DEF IsBlock, End, Make
  <2> QED BY <2>1, <2>2, <1>6
<1>12. \A c \in DOMAIN p.block : Range(p.block[c]) \subseteq 1..n
  BY <1>1, BlockFacts
<1>13. ASSUME NEW c \in DOMAIN q.block, NEW d \in DOMAIN q.block, c # d
       PROVE  Range(q.block[c]) \cap Range(q.block[d]) = {}
  <2>1. CASE c \in DOMAIN p.block /\ d \in DOMAIN p.block
    BY <2>1, <1>5, <1>13 DEF HasBlocks
  <2>2. CASE ~(c \in DOMAIN p.block /\ d \in DOMAIN p.block)
    BY <2>2, <1>5, <1>6, <1>8, <1>10, <1>12, <1>13, ZenonT(60)
  <2> QED BY <2>1, <2>2
<1>14. q.root \in DOMAIN q.block
  BY <1>3, <1>6 DEF HasBlocks
<1>15. HasBlocks(q)
  BY <1>3, <1>7, <1>9, <1>11, <1>13, <1>14 DEF HasBlocks
<1>16. OpsIn(q) = OpsIn(p) \cup {n + 1}
  BY <1>5, <1>6, <1>10, ZenonT(60) DEF OpsIn
<1> QED BY <1>1, <1>3, <1>4, <1>5, <1>6, <1>8, <1>15, <1>16 DEF IsAddEmpty, q

\* q is p without the operations S.
IsErase(p, S, q) ==
  /\ HasBlocks(q)
  /\ q.op = p.op /\ q.root = p.root /\ DOMAIN q.block = DOMAIN p.block
  /\ OpsIn(q) = OpsIn(p) \ S
  /\ \A c \in DOMAIN p.block :
       /\ Range(q.block[c]) = Range(p.block[c]) \ S
       /\ \A t : t \in Seq(Nat) /\ EndsIn(p.block[c], t) /\ Range(t) \cap S = {}
            => EndsIn(q.block[c], t)
       /\ p.block[c] # <<>> /\ Last(p.block[c]) \notin S
            => q.block[c] # <<>> /\ Last(q.block[c]) = Last(p.block[c])

\* RewriterBase::eraseOp does what IsErase says, when a terminator goes only with
\* all of its block.
LEMMA EraseFacts ==
  ASSUME NEW p, HasBlocks(p), NEW S,
         \A b \in DOMAIN p.block :
           p.block[b] # <<>> /\ Last(p.block[b]) \in S => Range(p.block[b]) \subseteq S
  PROVE  IsErase(p, S, Erase(p, S))
<1> DEFINE q == Erase(p, S)
<1>1. p = [op |-> p.op, block |-> p.block, root |-> p.root, valued |-> p.valued]
  BY DEF HasBlocks
<1>2. q = [op |-> p.op, block |-> [b \in DOMAIN p.block |-> Without(p.block[b], S)],
           root |-> p.root, valued |-> p.valued]
  <2> DEFINE B == [b \in DOMAIN p.block |-> Without(p.block[b], S)]
             a == [p EXCEPT !.block = B]
  <2>1. q = a
    BY DEF Erase
  <2> HIDE DEF B
  <2>2. /\ a.op = p.op /\ a.block = B /\ a.root = p.root /\ a.valued = p.valued
        /\ DOMAIN a = {"op", "block", "root", "valued"}
    BY <1>1
  <2>3. a = [x \in {"op", "block", "root", "valued"} |-> a[x]]
    BY <2>2
  <2> HIDE DEF a, q
  <2> QED BY <2>1, <2>2, <2>3 DEF B
<1> HIDE DEF q
<1>3. /\ q.op = p.op /\ q.root = p.root /\ DOMAIN q.block = DOMAIN p.block
      /\ \A c \in DOMAIN p.block : q.block[c] = Without(p.block[c], S)
      /\ q = [op |-> q.op, block |-> q.block, root |-> q.root, valued |-> q.valued]
  BY <1>2
<1>4. ASSUME NEW c \in DOMAIN p.block
      PROVE  /\ q.block[c] \in Seq(Nat) /\ q.block[c] \in Seq(DOMAIN p.op)
             /\ IsInjective(q.block[c])
             /\ Range(q.block[c]) = Range(p.block[c]) \ S
             /\ \A t : t \in Seq(Nat) /\ EndsIn(p.block[c], t) /\ Range(t) \cap S = {}
                  => EndsIn(q.block[c], t)
  <2>1. p.block[c] \in Seq(Nat) /\ p.block[c] \in Seq(DOMAIN p.op) /\ IsInjective(p.block[c])
    BY BlockFacts DEF HasBlocks, IsBlock
  <2> QED BY <2>1, <1>3, WithoutFacts
<1>5. ASSUME NEW c \in DOMAIN p.block, p.block[c] # <<>>, Last(p.block[c]) \notin S
      PROVE  q.block[c] # <<>> /\ Last(q.block[c]) = Last(p.block[c])
  <2>1. PICK s : s = p.block[c]
    OBVIOUS
  <2>2. PICK r : r = q.block[c]
    OBVIOUS
  <2>3. s \in Seq(Nat) /\ r \in Seq(Nat) /\ s # <<>>
    BY <2>1, <2>2, <1>4, <1>5, BlockFacts
  <2>4. Len(s) \in Nat /\ Len(s) >= 1 /\ Len(r) \in Nat /\ Last(s) \in Nat
    BY <2>3, RangeFacts
  <2>5. EndsIn(s, <<Last(s)>>)
    <3>1. Len(s) - 1 + 1 = Len(s) /\ \A j \in 1..1 : j = 1
      BY <2>4
    <3> QED BY <3>1, <2>4 DEF EndsIn, Last
  <2>6. <<Last(s)>> \in Seq(Nat) /\ Range(<<Last(s)>>) = {Last(s)}
    BY <2>4 DEF Range
  <2>7. EndsIn(r, <<Last(s)>>)
    BY <2>1, <2>2, <2>5, <2>6, <1>4, <1>5, ZenonT(60)
  <2>8. Len(r) >= 1 /\ r[Len(r) - 1 + 1] = Last(s) /\ Len(r) - 1 + 1 = Len(r)
    BY <2>4, <2>7 DEF EndsIn
  <2>9. r # <<>>
    BY <2>8
  <2> QED BY <2>1, <2>2, <2>8, <2>9 DEF Last
<1>6. ASSUME NEW c \in DOMAIN p.block PROVE IsBlock(q, q.block[c])
  <2> DEFINE s == p.block[c]
             r == q.block[c]
  <2>1. r \in Seq(Nat) /\ r \in Seq(DOMAIN q.op) /\ IsInjective(r) /\ Range(r) = Range(s) \ S
    BY <1>3, <1>4
  <2>2. \A o \in Range(s) : p.op[o].k = "end" <=> o = Last(s)
    BY BlockFacts
  <2> HIDE DEF s, r
  <2>3. ASSUME NEW i \in DOMAIN r PROVE q.op[r[i]].k = "end" <=> i = Len(r)
    <3>1. r[i] \in Range(r) /\ Len(r) \in DOMAIN r
      BY <2>1 DEF Range
    <3>2. s # <<>> /\ Last(s) \notin S
      <4>1. r[i] \in Range(s) /\ r[i] \notin S
        BY <3>1, <2>1
      <4>2. s # <<>>
        BY <4>1 DEF Range
      <4> QED BY <4>1, <4>2 DEF s
    <3>3. Last(r) = Last(s)
      BY <3>2, <1>5 DEF r, s
    <3>4. r[i] = Last(r) <=> i = Len(r)
      BY <3>1, <2>1 DEF IsInjective, Last
    <3> QED BY <3>1, <3>3, <3>4, <2>1, <2>2, <1>3
  <2> QED BY <2>1, <2>3 DEF IsBlock, r
<1>7. q.block \in Seq(Range(q.block))
  <2>1. p.block \in Seq(Range(p.block))
    BY DEF HasBlocks
  <2>2. Len(p.block) \in Nat /\ DOMAIN q.block = 1..Len(p.block)
    BY <2>1, <1>3
  <2>3. q.block = [c \in 1..Len(p.block) |-> q.block[c]]
    BY <1>2, <2>2
  <2>4. \A c \in 1..Len(p.block) : q.block[c] \in Range(q.block)
    BY <2>2 DEF Range
  <2> QED BY ONLY <2>2, <2>3, <2>4, SMTT(60)
<1>8. \A c, d \in DOMAIN q.block : c # d => Range(q.block[c]) \cap Range(q.block[d]) = {}
  BY <1>3, <1>4, ZenonT(60) DEF HasBlocks
<1>9. HasBlocks(q)
  BY <1>3, <1>6, <1>7, <1>8 DEF HasBlocks
<1>10. OpsIn(q) = OpsIn(p) \ S
  BY <1>3, <1>4 DEF OpsIn
<1> QED BY <1>3, <1>4, <1>5, <1>9, <1>10 DEF IsErase, q

\* q is p with o moved to the block b.
IsMove(p, o, b, q) ==
  /\ HasBlocks(q)
  /\ q.op = p.op /\ q.root = p.root /\ DOMAIN q.block = DOMAIN p.block
  /\ OpsIn(q) = OpsIn(p)
  /\ \A c \in DOMAIN p.block :
       /\ Range(q.block[c]) = IF c = b THEN Range(p.block[c]) \cup {o}
                              ELSE Range(p.block[c]) \ {o}
       /\ \A t : t \in Seq(Nat) /\ EndsIn(p.block[c], t) /\ o \notin Range(t) /\ c # b
            => EndsIn(q.block[c], t)
       /\ p.block[c] # <<>>
            => q.block[c] # <<>> /\ Last(q.block[c]) = Last(p.block[c])

\* The operation o in front of `at`, in the block b.
LEMMA MoveFacts ==
  ASSUME NEW p, HasBlocks(p), NEW b \in DOMAIN p.block, NEW at \in Range(p.block[b]),
         NEW o \in OpsIn(p), o # at, p.op[o].k # "end"
  PROVE  IsMove(p, o, b, MoveBefore(p, o, at))
<1> DEFINE e == Erase(p, {o})
           q == MoveBefore(p, o, at)
<1>1. \A c \in DOMAIN p.block : p.block[c] # <<>> => Last(p.block[c]) # o
  BY BlockFacts
<1>2. IsErase(p, {o}, e)
  BY <1>1, EraseFacts
<1>19. /\ HasBlocks(e)
      /\ e.op = p.op /\ e.root = p.root /\ DOMAIN e.block = DOMAIN p.block
      /\ OpsIn(e) = OpsIn(p) \ {o}
      /\ \A c \in DOMAIN p.block :
           /\ Range(e.block[c]) = Range(p.block[c]) \ {o}
           /\ \A t : t \in Seq(Nat) /\ EndsIn(p.block[c], t) /\ Range(t) \cap {o} = {}
                => EndsIn(e.block[c], t)
           /\ p.block[c] # <<>> /\ Last(p.block[c]) \notin {o}
                => e.block[c] # <<>> /\ Last(e.block[c]) = Last(p.block[c])
  BY <1>2 DEF IsErase
<1> HIDE DEF e
<1>3. at \in Range(e.block[b]) /\ BlockOf(e, at) = b /\ b \in DOMAIN e.block
  BY <1>19, CodeFacts
<1> DEFINE s == e.block[b]
           i == IndexOf(e, at)
           r == Inserted(s, i, <<o>>)
<1>4. /\ s \in Seq(Nat) /\ Len(s) \in Nat /\ i \in 1..Len(s) /\ IsInjective(s)
      /\ Range(s) \subseteq DOMAIN p.op
  BY <1>19, <1>3, BlockFacts
<1>5. /\ o \in DOMAIN p.op /\ DOMAIN p.op \subseteq Nat /\ <<o>> \in Seq(Nat)
      /\ IsInjective(<<o>>) /\ Range(<<o>>) = {o} /\ Len(<<o>>) = 1
  <2>1. o \in DOMAIN p.op /\ DOMAIN p.op \subseteq Nat
    BY CodeFacts
  <2> QED BY <2>1 DEF Range, IsInjective
<1>6. /\ r \in Seq(Nat) /\ r # <<>> /\ Last(r) = Last(s)
      /\ Range(r) = Range(s) \cup {o} /\ IsInjective(r)
  <2>1. Range(s) \cap Range(<<o>>) = {}
    BY <1>19, <1>5
  <2> HIDE DEF s, i
  <2>2. PICK f : f = <<o>>
    OBVIOUS
  <2>3. LET x == Inserted(s, i, f)
        IN /\ x \in Seq(Nat) /\ x # <<>>
           /\ Last(x) = Last(s)
           /\ Range(x) = Range(s) \cup Range(f)
           /\ IsInjective(s) /\ IsInjective(f) /\ Range(s) \cap Range(f) = {}
                => IsInjective(x)
    <3>1. s \in Seq(Nat) /\ f \in Seq(Nat) /\ i \in 1..Len(s)
      BY <2>2, <1>4, <1>5
    <3> QED BY <3>1, InsertedFacts, ZenonT(60)
  <2> QED BY <2>1, <2>2, <2>3, <1>4, <1>5
<1>7. q = [op |-> e.op, block |-> [e.block EXCEPT ![b] = r], root |-> e.root, valued |-> e.valued]
  <2>1. q = [e EXCEPT !.block[b] = InsertAt(s, i, o)]
    BY <1>3 DEF MoveBefore, e
  <2>2. InsertAt(s, i, o) = r
    <3>1. [j \in 1..Len(<<o>>) |-> <<o>>[j]] = <<o>>
      BY <1>5
    <3> QED BY <3>1 DEF InsertAt, Inserted
  <2>3. e = [op |-> e.op, block |-> e.block, root |-> e.root, valued |-> e.valued]
    BY <1>19 DEF HasBlocks
  <2>4. \A A, B, R, V : [[op |-> A, block |-> B, root |-> R, valued |-> V] EXCEPT !.block[b] = r]
                          = [op |-> A, block |-> [B EXCEPT ![b] = r], root |-> R, valued |-> V]
    OBVIOUS
  <2> HIDE DEF q, r, s, i
  <2> QED BY <2>1, <2>2, <2>3, <2>4
<1> HIDE DEF q, r
<1>8. /\ q.op = p.op /\ q.root = p.root /\ DOMAIN q.block = DOMAIN p.block
      /\ q.block[b] = r /\ \A c \in DOMAIN p.block : c # b => q.block[c] = e.block[c]
      /\ q = [op |-> q.op, block |-> q.block, root |-> q.root, valued |-> q.valued]
  BY <1>19, <1>7
<1>9. Range(r) = Range(p.block[b]) \cup {o}
  BY <1>19, <1>6
<1>10. s # <<>> /\ Last(s) \in Range(s) /\ \A x \in Range(s) : p.op[x].k = "end" <=> x = Last(s)
  <2>1. s # <<>>
    BY <1>4
  <2> QED BY <2>1, <1>19, <1>3, BlockFacts
<1> HIDE DEF s, i
<1>11. IsBlock(q, r)
  <2>1. \A x \in Range(r) : x \in DOMAIN p.op /\ (p.op[x].k = "end" <=> x = Last(r))
    <3>1. o # Last(s)
      BY <1>10
    <3> QED BY <3>1, <1>4, <1>5, <1>6, <1>10
  <2>2. DOMAIN r = 1..Len(r) /\ Len(r) \in Nat /\ \A j \in DOMAIN r : r[j] \in Range(r)
    BY <1>6 DEF Range
  <2>3. r \in Seq(DOMAIN p.op)
    <3>1. \A j \in 1..Len(r) : r[j] \in DOMAIN p.op
      BY <2>1, <2>2
    <3>2. r = [j \in 1..Len(r) |-> r[j]]
      BY <1>6
    <3> QED BY <3>1, <3>2, <2>2
  <2>4. ASSUME NEW j \in DOMAIN r PROVE p.op[r[j]].k = "end" <=> j = Len(r)
    <3>1. Len(r) \in DOMAIN r
      BY <2>2
    <3>2. r[j] = Last(r) <=> j = Len(r)
      BY <3>1, <1>6 DEF IsInjective, Last
    <3> QED BY <3>2, <2>1, <2>2
  <2> QED BY <2>3, <2>4, <1>6, <1>8 DEF IsBlock
<1>12. ASSUME NEW c \in DOMAIN q.block PROVE IsBlock(q, q.block[c])
  <2>1. CASE c # b
    BY ONLY <2>1, <1>19, <1>8, <1>12, SMTT(60) DEF HasBlocks, IsBlock
  <2> QED BY <2>1, <1>8, <1>11
<1>13. \A c \in DOMAIN p.block : c # b => Range(q.block[c]) = Range(p.block[c]) \ {o}
  BY <1>19, <1>8
<1>14. \A c, d \in DOMAIN q.block : c # d => Range(q.block[c]) \cap Range(q.block[d]) = {}
  <2>1. \A c, d \in DOMAIN p.block : c # d => Range(p.block[c]) \cap Range(p.block[d]) = {}
    BY DEF HasBlocks
  <2> SUFFICES ASSUME NEW c \in DOMAIN p.block, NEW d \in DOMAIN p.block, c # d
               PROVE  Range(q.block[c]) \cap Range(q.block[d]) = {}
    BY <1>8
  <2>2. CASE c = b
    BY <2>1, <2>2, <1>8, <1>9, <1>13
  <2>3. CASE d = b
    BY <2>1, <2>3, <1>8, <1>9, <1>13
  <2>4. CASE c # b /\ d # b
    BY <2>1, <2>4, <1>13
  <2> QED BY <2>2, <2>3, <2>4
<1>15. q.block \in Seq(Range(q.block))
  <2>1. e.block \in Seq(Range(e.block)) /\ q.block = [e.block EXCEPT ![b] = r]
    BY <1>19, <1>7 DEF HasBlocks
  <2>2. q.block \in Seq(Range(e.block) \cup {r})
    BY <2>1, <1>3
  <2> QED BY <2>2 DEF Range
<1>16. HasBlocks(q)
  <2>1. /\ p.op \in Seq(Range(p.op)) /\ p.root \in DOMAIN p.block
        /\ \A x \in DOMAIN p.op : IsNode(p.op[x])
    BY DEF HasBlocks
  <2> QED BY <2>1, <1>8, <1>12, <1>14, <1>15 DEF HasBlocks
<1>17. OpsIn(q) = OpsIn(p)
  <2>1. \A x \in OpsIn(q) : x \in OpsIn(p)
    BY <1>8, <1>9, <1>13 DEF OpsIn
  <2>2. \A x \in OpsIn(p) : x \in OpsIn(q)
    BY <1>8, <1>9, <1>13 DEF OpsIn
  <2> QED BY <2>1, <2>2
<1>18. ASSUME NEW c \in DOMAIN p.block, p.block[c] # <<>>
       PROVE  q.block[c] # <<>> /\ Last(q.block[c]) = Last(p.block[c])
  <2>1. e.block[c] # <<>> /\ Last(e.block[c]) = Last(p.block[c])
    BY <1>1, <1>19, <1>18
  <2> QED BY <2>1, <1>6, <1>8 DEF s
<1> QED BY <1>19, <1>8, <1>9, <1>13, <1>16, <1>17, <1>18, ZenonT(60) DEF IsMove, q

-----------------------------------------------------------------------------
(* Regions *)

\* The two halves of IsCode that an edit has to keep besides the blocks.
LEMMA RegionsKept ==
  ASSUME NEW p, NEW q, HasBlocks(p), HasRegions(p), q.root = p.root,
         DOMAIN p.block \subseteq DOMAIN q.block, NEW new,
         \A o \in OpsIn(q) \cap OpsIn(p) : q.op[o].regions = p.op[o].regions,
         \A o \in OpsIn(q) \ OpsIn(p) :
           \/ q.op[o].regions = <<>>
           \/ /\ o = new
              /\ \E N \in (DOMAIN q.block) \ DOMAIN p.block : q.op[o].regions = <<N>>
  PROVE  HasRegions(q)
<1>1. \A o \in OpsIn(q) \cap OpsIn(p) : Regions(q, o) = Regions(p, o)
  BY DEF Regions
<1>2. p.root \in DOMAIN p.block
  BY DEF HasBlocks
<1>3. \A N : Range(<<N>>) = {N} /\ IsInjective(<<N>>)
  BY DEF Range, IsInjective
<1>4. Range(<<>>) = {} /\ IsInjective(<<>>)
  BY DEF Range, IsInjective
<1>5. ASSUME NEW o \in OpsIn(q) \ OpsIn(p)
      PROVE  /\ IsInjective(q.op[o].regions)
             /\ o # new => Regions(q, o) = {}
             /\ Regions(q, o) \subseteq (DOMAIN q.block) \ DOMAIN p.block
  BY <1>3, <1>4, <1>5, ZenonT(60) DEF Regions
<1>6. \A o \in OpsIn(q) : /\ IsInjective(q.op[o].regions)
                          /\ Regions(q, o) \subseteq (DOMAIN q.block) \ {q.root}
  BY <1>1, <1>2, <1>5 DEF HasRegions
<1>7. ASSUME NEW o \in OpsIn(q), NEW x \in OpsIn(q), o # x
      PROVE  Regions(q, o) \cap Regions(q, x) = {}
  <2>1. \A y \in OpsIn(q) \cap OpsIn(p) : Regions(q, y) \subseteq DOMAIN p.block
    BY <1>1 DEF HasRegions
  <2>2. CASE o \in OpsIn(p) /\ x \in OpsIn(p)
    BY <2>2, <1>1, <1>7 DEF HasRegions
  <2>3. CASE ~(o \in OpsIn(p) /\ x \in OpsIn(p))
    BY <2>1, <2>3, <1>5, <1>7
  <2> QED BY <2>2, <2>3
<1> QED BY <1>6, <1>7 DEF HasRegions

=============================================================================
