------------------------ MODULE InlineParsers_lemmas ------------------------
(***************************************************************************)
(* What the operators of InlineParsers do, whatever the step of the pass:  *)
(* names and their prefixes, sequences with elements inserted, removed or  *)
(* replaced, the adjustment of the values that a cut takes away from their *)
(* uses, the calls of an instance, and what keeps a parser well formed     *)
(* when its states are split and those of another parser are copied to it. *)
(***************************************************************************)
EXTENDS InlineParsers, Positions_proofs, SequenceTheorems

-----------------------------------------------------------------------------
(* Sequences *)

\* A function on 1..n is a sequence of n elements.
LEMMA AsSeq ==
  ASSUME NEW S, NEW n \in Nat, NEW s \in [1..n -> S]
  PROVE  s \in Seq(S) /\ Len(s) = n /\ DOMAIN s = 1..n
<1>1. s \in Seq(S)
  OBVIOUS
<1>2. DOMAIN s = 1..n /\ Len(s) \in Nat /\ DOMAIN s = 1..Len(s)
  BY <1>1, LenProperties
<1> QED BY <1>1, <1>2

-----------------------------------------------------------------------------
(* Names *)

\* The name x begins with y; neither of two names begins with the other.
Begins(x, y) == Len(y) <= Len(x) /\ \A i \in 1..Len(y) : x[i] = y[i]
Apart(x, y) == ~Begins(x, y) /\ ~Begins(y, x)

\* Not empty and not a mark.
IsStem(x) == x # <<>> /\ x[1] # "#"

\* The marks that the pass adds to names are words.
LEMMA Words == {"#", "+", "in", "pre", "post"} \subseteq Word
BY DEF Word

\* What the concatenation of names is, word by word.
LEMMA NameConcat ==
  ASSUME NEW x \in Name, NEW y \in Name
  PROVE  /\ x \o y \in Name
         /\ Len(x) \in Nat /\ Len(y) \in Nat
         /\ Len(x \o y) = Len(x) + Len(y)
         /\ \A i \in 1..Len(x) : (x \o y)[i] = x[i]
         /\ \A i \in 1..Len(y) : (x \o y)[Len(x) + i] = y[i]
BY ConcatProperties DEF Name

\* Names with the same words are equal.
LEMMA NameEqual ==
  ASSUME NEW x \in Name, NEW y \in Name, Len(x) = Len(y), \A i \in 1..Len(x) : x[i] = y[i]
  PROVE  x = y
BY SeqEqual DEF Name

\* The only name without words is the empty one.
LEMMA NameEmpty ==
  /\ <<>> \in Name
  /\ \A x \in Name : (x = <<>> <=> Len(x) = 0) /\ Len(x) \in Nat
BY EmptySeq DEF Name

\* Every name begins with itself.
LEMMA BeginsSelf == \A x : Len(x) \in Nat => Begins(x, x)
BY DEF Begins

\* To begin with a name is to have it as a prefix.
LEMMA BeginsIsPrefix ==
  ASSUME NEW x \in Name, NEW y \in Name
  PROVE  IsPrefix(y, x) <=> Begins(x, y)
<1>1. CASE Len(y) <= Len(x)
  <2>1. Len(x) \in Nat /\ Len(y) \in Nat /\ SubSeq(y, 1, Len(y)) = y
    BY SubSeqFull DEF Name
  <2>2. \A i \in 1..Len(y) : x[i] \in Word
    BY <1>1, <2>1, ElementOfSeq DEF Name
  <2>3. /\ SubSeq(x, 1, Len(y)) \in Name /\ Len(SubSeq(x, 1, Len(y))) = Len(y)
        /\ \A i \in 1..Len(y) : SubSeq(x, 1, Len(y))[i] = x[i]
    <3>1. /\ SubSeq(x, 1, Len(y)) \in Seq(Word)
          /\ Len(SubSeq(x, 1, Len(y))) = IF 1 <= Len(y) THEN Len(y) - 1 + 1 ELSE 0
          /\ \A i \in 1..Len(y) - 1 + 1 : SubSeq(x, 1, Len(y))[i] = x[1 + i - 1]
      <4>1. 1 \in Int /\ Len(y) \in Int
        BY <2>1
      <4> QED BY <2>2, <4>1, SubSeqProperties
    <3> QED BY <2>1, <3>1 DEF Name
  <2>4. y = SubSeq(x, 1, Len(y)) <=> \A i \in 1..Len(y) : y[i] = x[i]
    BY <2>3, NameEqual
  <2> QED BY <1>1, <2>1, <2>4 DEF IsPrefix, Begins
<1>2. CASE ~(Len(y) <= Len(x))
  BY <1>2 DEF IsPrefix, Begins
<1> QED BY <1>1, <1>2

\* What begins with a name begins with all that the name begins with.
LEMMA BeginsTrans ==
  ASSUME NEW x \in Name, NEW y \in Name, NEW z \in Name, Begins(x, y), Begins(y, z)
  PROVE  Begins(x, z)
<1>1. Len(x) \in Nat /\ Len(y) \in Nat /\ Len(z) \in Nat
  BY NameEmpty
<1> QED BY <1>1 DEF Begins

\* Of two beginnings of a name one begins with the other.
LEMMA BeginsBoth ==
  ASSUME NEW x \in Name, NEW y \in Name, NEW z \in Name, Begins(x, y), Begins(x, z)
  PROVE  Begins(y, z) \/ Begins(z, y)
<1>1. Len(x) \in Nat /\ Len(y) \in Nat /\ Len(z) \in Nat
  BY NameEmpty
<1> QED BY <1>1 DEF Begins

\* A concatenation begins with its first part.
LEMMA BeginsConcat ==
  ASSUME NEW x \in Name, NEW y \in Name
  PROVE  x \o y \in Name /\ Begins(x \o y, x)
<1>1. Len(x) <= Len(x \o y)
  BY NameConcat
<1> QED BY <1>1, NameConcat DEF Begins

\* A longer name is apart from what the shorter one is apart from.
LEMMA ApartLonger ==
  ASSUME NEW a \in Name, NEW x \in Name, NEW z \in Name, Apart(a, x), Begins(z, x)
  PROVE  Apart(a, z)
<1>1. ASSUME Begins(a, z) PROVE FALSE
  BY <1>1, BeginsTrans DEF Apart
<1>2. ASSUME Begins(z, a) PROVE FALSE
  BY <1>2, BeginsBoth DEF Apart
<1> QED BY <1>1, <1>2 DEF Apart

\* Being apart is symmetric.
LEMMA ApartSym == \A x, y : Apart(x, y) <=> Apart(y, x)
BY DEF Apart

\* Names that are apart differ.
LEMMA ApartDiffer ==
  ASSUME NEW x \in Name, NEW y \in Name, Apart(x, y)
  PROVE  x # y
BY BeginsSelf, NameEmpty DEF Apart

\* What begins with a stem is a stem.
LEMMA StemLonger ==
  ASSUME NEW x \in Name, NEW z \in Name, IsStem(x), Begins(z, x)
  PROVE  IsStem(z)
<1>1. Len(x) \in Nat /\ Len(x) # 0 /\ Len(z) \in Nat /\ (z = <<>> => Len(z) = 0)
  BY NameEmpty DEF IsStem
<1>2. 1 \in 1..Len(x)
  BY <1>1
<1> QED BY <1>1, <1>2 DEF IsStem, Begins

\* A common prefix of two names tells them neither apart nor equal: what follows does.
LEMMA SamePrefix ==
  ASSUME NEW i \in Name, NEW x \in Name, NEW y \in Name
  PROVE  /\ i \o x = i \o y => x = y
         /\ Begins(i \o x, i \o y) <=> Begins(x, y)
         /\ Apart(i \o x, i \o y) <=> Apart(x, y)
<1>1. /\ Len(i) \in Nat /\ Len(x) \in Nat /\ Len(y) \in Nat
      /\ Len(i \o x) = Len(i) + Len(x) /\ Len(i \o y) = Len(i) + Len(y)
      /\ \A n \in 1..Len(i) : (i \o x)[n] = i[n] /\ (i \o y)[n] = i[n]
      /\ \A n \in 1..Len(x) : (i \o x)[Len(i) + n] = x[n]
      /\ \A n \in 1..Len(y) : (i \o y)[Len(i) + n] = y[n]
  BY NameConcat
<1>2. ASSUME NEW u \in Name, NEW v \in Name,
             /\ Len(u) \in Nat /\ Len(v) \in Nat
             /\ Len(i \o u) = Len(i) + Len(u) /\ Len(i \o v) = Len(i) + Len(v)
             /\ \A n \in 1..Len(i) : (i \o u)[n] = i[n] /\ (i \o v)[n] = i[n]
             /\ \A n \in 1..Len(u) : (i \o u)[Len(i) + n] = u[n]
             /\ \A n \in 1..Len(v) : (i \o v)[Len(i) + n] = v[n]
      PROVE  Begins(i \o u, i \o v) <=> Begins(u, v)
  <2>1. ASSUME Begins(i \o u, i \o v) PROVE Begins(u, v)
    <3>1. Len(v) <= Len(u)
      BY <1>1, <1>2, <2>1 DEF Begins
    <3>2. ASSUME NEW n \in 1..Len(v) PROVE u[n] = v[n]
      <4>1. Len(i) + n \in 1..Len(i \o v) /\ n \in 1..Len(u)
        BY <1>1, <1>2, <3>1
      <4>2. (i \o u)[Len(i) + n] = (i \o v)[Len(i) + n]
        BY <4>1, <2>1 DEF Begins
      <4> QED BY <4>1, <4>2, <1>2
    <3> QED BY <3>1, <3>2 DEF Begins
  <2>2. ASSUME Begins(u, v) PROVE Begins(i \o u, i \o v)
    <3>1. Len(i \o v) <= Len(i \o u)
      BY <1>1, <1>2, <2>2 DEF Begins
    <3>2. ASSUME NEW n \in 1..Len(i \o v) PROVE (i \o u)[n] = (i \o v)[n]
      <4>1. CASE n <= Len(i)
        <5>1. n \in 1..Len(i)
          BY <4>1
        <5> QED BY <5>1, <1>2
      <4>2. CASE ~(n <= Len(i))
        <5>1. PICK m \in 1..Len(v) : n = Len(i) + m
          <6>1. n - Len(i) \in 1..Len(v) /\ n = Len(i) + (n - Len(i))
            BY <4>2, <1>1, <1>2
          <6> QED BY <6>1
        <5>2. u[m] = v[m] /\ m \in 1..Len(u)
          BY <1>2, <2>2 DEF Begins
        <5> QED BY <5>1, <5>2, <1>2
      <4> QED BY <4>1, <4>2
    <3> QED BY <3>1, <3>2 DEF Begins
  <2> QED BY <2>1, <2>2
<1>3. Begins(i \o x, i \o y) <=> Begins(x, y)
  BY <1>1, <1>2
<1>4. Begins(i \o y, i \o x) <=> Begins(y, x)
  BY <1>1, <1>2
<1>5. ASSUME i \o x = i \o y PROVE x = y
  <2>1. Begins(x, y) /\ Len(x) = Len(y)
    <3>1. Begins(i \o x, i \o x)
      BY <1>1, BeginsSelf
    <3> QED BY <3>1, <1>1, <1>3, <1>5
  <2> QED BY <2>1, NameEqual DEF Begins
<1> QED BY <1>3, <1>4, <1>5 DEF Apart

\* A number of marks is a name of as many words, each of them the mark.
LEMMA MarksFacts ==
  ASSUME NEW n \in Nat, NEW mark \in {"#", "+"}
  PROVE  /\ Marks(mark, n) \in Name /\ Len(Marks(mark, n)) = n
         /\ \A i \in 1..n : Marks(mark, n)[i] = mark
<1>1. mark \in Word
  BY Words
<1>2. PICK s : s = [i \in 1..n |-> mark]
  OBVIOUS
<1>3. s \in [1..n -> Word]
  BY <1>1, <1>2
<1>4. s \in Seq(Word) /\ Len(s) = n
  BY <1>3, AsSeq
<1> QED BY <1>2, <1>4 DEF Marks, Name

\* A stem and a name that begins with a mark are apart.
LEMMA StemsApart ==
  ASSUME NEW x \in Name, NEW y \in Name, NEW k \in Nat, IsStem(x), IsStem(y), k # 0
  PROVE  Apart(x, Marks("#", k) \o y)
<1>1. "#" \in {"#", "+"}
  OBVIOUS
<1>2. /\ Marks("#", k) \in Name /\ Len(Marks("#", k)) = k
      /\ \A i \in 1..k : Marks("#", k)[i] = "#"
  BY <1>1, MarksFacts
<1>3. /\ Len(Marks("#", k) \o y) = k + Len(y) /\ Len(y) \in Nat
      /\ (Marks("#", k) \o y)[1] = "#"
  <2>1. 1 \in 1..k
    OBVIOUS
  <2> DEFINE u == Marks("#", k)
  <2>2. u \in Name /\ Len(u) = k /\ u[1] = "#"
    BY <1>2, <2>1
  <2> HIDE DEF u
  <2>3. Len(u \o y) = k + Len(y) /\ Len(y) \in Nat /\ (u \o y)[1] = "#"
    BY <2>1, <2>2, NameConcat
  <2> QED BY <2>3 DEF u
<1>4. Len(x) \in Nat /\ 1 \in 1..Len(x) /\ x[1] # "#" /\ 1 \in 1..(k + Len(y))
  BY <1>3, NameEmpty DEF IsStem
<1> QED BY <1>3, <1>4 DEF Apart, Begins

\* Names with numbers in front differ when the numbers or the names do.
LEMMA MarksDiffer ==
  ASSUME NEW x \in Name, NEW y \in Name, NEW k \in Nat, NEW l \in Nat,
         IsStem(x), IsStem(y), Marks("#", k) \o x = Marks("#", l) \o y
  PROVE  k = l /\ x = y
<1> DEFINE u == Marks("#", k)
           v == Marks("#", l)
<1>1. "#" \in {"#", "+"}
  OBVIOUS
<1>2. /\ u \in Name /\ Len(u) = k /\ \A i \in 1..k : u[i] = "#"
      /\ v \in Name /\ Len(v) = l /\ \A i \in 1..l : v[i] = "#"
  BY <1>1, MarksFacts
<1> HIDE DEF u, v
<1>3. /\ Len(x) \in Nat /\ 1 \in 1..Len(x) /\ x[1] # "#"
      /\ Len(y) \in Nat /\ 1 \in 1..Len(y) /\ y[1] # "#"
  BY NameEmpty DEF IsStem
<1>4. /\ \A i \in 1..k : (u \o x)[i] = "#"
      /\ \A i \in 1..l : (v \o y)[i] = "#"
      /\ (u \o x)[k + 1] # "#" /\ (v \o y)[l + 1] # "#"
  <2>1. \A i \in 1..Len(u) : (u \o x)[i] = u[i]
    BY <1>2, NameConcat
  <2>2. \A i \in 1..Len(v) : (v \o y)[i] = v[i]
    BY <1>2, NameConcat
  <2>3. (u \o x)[k + 1] = x[1]
    BY <1>2, <1>3, NameConcat
  <2>4. (v \o y)[l + 1] = y[1]
    BY <1>2, <1>3, NameConcat
  <2> QED BY <1>2, <1>3, <2>1, <2>2, <2>3, <2>4
<1>5. ~(k < l) /\ ~(l < k)
  <2>1. u \o x = v \o y
    BY DEF u, v
  <2>2. k < l => k + 1 \in 1..l
    OBVIOUS
  <2>3. l < k => l + 1 \in 1..k
    OBVIOUS
  <2> QED BY <1>4, <2>1, <2>2, <2>3
<1>6. k = l
  BY <1>5
<1> QED BY <1>2, <1>6, SamePrefix DEF u, v

-----------------------------------------------------------------------------
(* Sequences that are put together, and parts of sequences *)

\* The elements of a sequence are those at its positions.
LEMMA SeqFacts ==
  ASSUME NEW S, NEW s \in Seq(S)
  PROVE  /\ Len(s) \in Nat /\ DOMAIN s = 1..Len(s)
         /\ \A i \in DOMAIN s : s[i] \in S
         /\ ToSet(s) \subseteq S
         /\ \A i \in DOMAIN s : s[i] \in ToSet(s)
         /\ \A x \in ToSet(s) : \E i \in DOMAIN s : s[i] = x
BY LenProperties, ElementOfSeq DEF ToSet

\* The first i elements of a sequence.
LEMMA Prefix ==
  ASSUME NEW S, NEW s \in Seq(S), NEW i \in 0..Len(s)
  PROVE  /\ SubSeq(s, 1, i) \in Seq(S) /\ Len(SubSeq(s, 1, i)) = i
         /\ \A n \in 1..i : SubSeq(s, 1, i)[n] = s[n]
<1>1. 1 \in Int /\ i \in Int /\ \A n \in 1..i : s[n] \in S
  BY ElementOfSeq
<1>2. /\ SubSeq(s, 1, i) \in Seq(S)
      /\ Len(SubSeq(s, 1, i)) = IF 1 <= i THEN i - 1 + 1 ELSE 0
      /\ \A n \in 1..i - 1 + 1 : SubSeq(s, 1, i)[n] = s[1 + n - 1]
  BY <1>1, SubSeqProperties
<1> QED BY <1>2

\* The elements of a sequence from the i-th one.
LEMMA Suffix ==
  ASSUME NEW S, NEW s \in Seq(S), NEW i \in 1..Len(s) + 1
  PROVE  /\ SubSeq(s, i, Len(s)) \in Seq(S) /\ Len(SubSeq(s, i, Len(s))) = Len(s) - i + 1
         /\ \A n \in 1..Len(s) - i + 1 : SubSeq(s, i, Len(s))[n] = s[i + n - 1]
<1>1. Len(s) \in Nat /\ Len(s) \in Int /\ i \in Int /\ \A n \in i..Len(s) : s[n] \in S
  BY ElementOfSeq, LenProperties
<1>2. /\ SubSeq(s, i, Len(s)) \in Seq(S)
      /\ Len(SubSeq(s, i, Len(s))) = IF i <= Len(s) THEN Len(s) - i + 1 ELSE 0
      /\ \A n \in 1..Len(s) - i + 1 : SubSeq(s, i, Len(s))[n] = s[i + n - 1]
  BY <1>1, SubSeqProperties
<1> QED BY <1>1, <1>2

\* What the concatenation of two sequences is, element by element.
IsJoined(r, s, t) ==
  /\ DOMAIN r = 1..Len(s) + Len(t)
  /\ \A n \in DOMAIN s : r[n] = s[n]
  /\ \A n \in DOMAIN t : r[n + Len(s)] = t[n]

\* Concatenation has that property.
LEMMA Joined ==
  ASSUME NEW S, NEW s \in Seq(S), NEW t \in Seq(S)
  PROVE  s \o t \in Seq(S) /\ IsJoined(s \o t, s, t)
<1>1. /\ s \o t \in Seq(S) /\ Len(s \o t) = Len(s) + Len(t)
      /\ \A i \in 1..Len(s) + Len(t) :
           (s \o t)[i] = IF i <= Len(s) THEN s[i] ELSE t[i - Len(s)]
  BY ConcatProperties
<1>2. /\ Len(s) \in Nat /\ Len(t) \in Nat /\ DOMAIN s = 1..Len(s) /\ DOMAIN t = 1..Len(t)
      /\ DOMAIN (s \o t) = 1..Len(s) + Len(t)
  BY <1>1, LenProperties
<1>3. ASSUME NEW n \in DOMAIN t PROVE (s \o t)[n + Len(s)] = t[n]
  <2>1. n + Len(s) \in 1..Len(s) + Len(t) /\ ~(n + Len(s) <= Len(s)) /\ (n + Len(s)) - Len(s) = n
    BY <1>2
  <2> QED BY <1>1, <2>1
<1>4. ASSUME NEW n \in DOMAIN s PROVE (s \o t)[n] = s[n]
  <2>1. n \in 1..Len(s) + Len(t) /\ n <= Len(s)
    BY <1>2
  <2> QED BY <1>1, <2>1
<1> QED BY <1>1, <1>2, <1>3, <1>4 DEF IsJoined

\* What a sequence with another one in it is.
IsInserted(r, s, t, i) ==
  /\ \A n \in 1..i : n \in DOMAIN r /\ r[n] = s[n]
  /\ \A n \in DOMAIN t : i + n \in DOMAIN r /\ r[i + n] = t[n]
  /\ \A n \in i + 1..Len(s) : n + Len(t) \in DOMAIN r /\ r[n + Len(t)] = s[n]
  /\ \A m \in DOMAIN r :
       \/ m \in 1..i
       \/ \E n \in DOMAIN t : m = i + n
       \/ \E n \in i + 1..Len(s) : m = n + Len(t)

\* InsertAfter keeps the order of both sequences.
LEMMA Inserted ==
  ASSUME NEW S, NEW s \in Seq(S), NEW t \in Seq(S), NEW i \in 0..Len(s), NEW r,
         r = InsertAfter(s, i, t)
  PROVE  r \in Seq(S) /\ Len(r) = Len(s) + Len(t) /\ IsInserted(r, s, t, i)
<1> DEFINE a == SubSeq(s, 1, i)
           c == SubSeq(s, i + 1, Len(s))
<1>1. Len(s) \in Nat /\ Len(t) \in Nat /\ DOMAIN t = 1..Len(t)
  BY LenProperties
<1>2. a \in Seq(S) /\ Len(a) = i /\ \A n \in 1..i : a[n] = s[n]
  BY Prefix
<1>3. c \in Seq(S) /\ Len(c) = Len(s) - i /\ \A n \in 1..Len(s) - i : c[n] = s[i + n]
  <2>1. i + 1 \in 1..Len(s) + 1
    BY <1>1
  <2>2. c \in Seq(S) /\ Len(c) = Len(s) - (i + 1) + 1
        /\ \A n \in 1..Len(s) - (i + 1) + 1 : c[n] = s[(i + 1) + n - 1]
    BY <2>1, Suffix
  <2> HIDE DEF c
  <2>3. Len(s) - (i + 1) + 1 = Len(s) - i
    BY <1>1
  <2>4. ASSUME NEW n \in 1..Len(s) - i PROVE c[n] = s[i + n]
    <3>1. (i + 1) + n - 1 = i + n /\ c[n] = s[(i + 1) + n - 1]
      BY <1>1, <2>2, <2>3
    <3> QED BY <3>1
  <2> QED BY <2>2, <2>3, <2>4
<1> HIDE DEF a, c
<1>4. /\ a \o t \in Seq(S) /\ Len(a \o t) = i + Len(t)
      /\ \A n \in 1..i + Len(t) : (a \o t)[n] = IF n <= i THEN a[n] ELSE t[n - i]
  BY <1>1, <1>2, ConcatProperties
<1>5. /\ r \in Seq(S) /\ Len(r) = Len(s) + Len(t)
      /\ \A n \in 1..Len(s) + Len(t) :
           r[n] = IF n <= i + Len(t) THEN (a \o t)[n] ELSE c[n - (i + Len(t))]
  <2>1. r = (a \o t) \o c
    BY DEF a, c, InsertAfter
  <2> DEFINE b == a \o t
  <2>2. b \in Seq(S) /\ Len(b) = i + Len(t)
    BY <1>4
  <2> HIDE DEF b
  <2>3. /\ b \o c \in Seq(S) /\ Len(b \o c) = Len(b) + Len(c)
        /\ \A n \in 1..Len(b) + Len(c) : (b \o c)[n] = IF n <= Len(b) THEN b[n] ELSE c[n - Len(b)]
    BY <1>3, <2>2, ConcatProperties
  <2>4. Len(b) + Len(c) = Len(s) + Len(t)
    BY <1>1, <1>3, <2>2
  <2>5. r = b \o c
    BY <2>1 DEF b
  <2>6. \A n \in 1..Len(s) + Len(t) : r[n] = IF n <= i + Len(t) THEN b[n] ELSE c[n - (i + Len(t))]
    BY <2>2, <2>3, <2>4, <2>5
  <2> QED BY <2>3, <2>4, <2>5, <2>6 DEF b
<1>6. DOMAIN r = 1..Len(s) + Len(t)
  BY <1>5, LenProperties
<1>7. ASSUME NEW n \in 1..i PROVE n \in DOMAIN r /\ r[n] = s[n]
  <2>1. n \in 1..Len(s) + Len(t) /\ n \in 1..i + Len(t) /\ n <= i /\ n <= i + Len(t)
    BY <1>1
  <2> QED BY <1>2, <1>4, <1>5, <1>6, <2>1
<1>8. ASSUME NEW n \in DOMAIN t PROVE i + n \in DOMAIN r /\ r[i + n] = t[n]
  <2>1. /\ i + n \in 1..Len(s) + Len(t) /\ i + n \in 1..i + Len(t) /\ ~(i + n <= i)
        /\ i + n <= i + Len(t) /\ (i + n) - i = n
    BY <1>1
  <2> QED BY <1>4, <1>5, <1>6, <2>1
<1>9. ASSUME NEW n \in i + 1..Len(s) PROVE n + Len(t) \in DOMAIN r /\ r[n + Len(t)] = s[n]
  <2>1. /\ n + Len(t) \in 1..Len(s) + Len(t) /\ ~(n + Len(t) <= i + Len(t))
        /\ (n + Len(t)) - (i + Len(t)) = n - i /\ n - i \in 1..Len(s) - i /\ i + (n - i) = n
    BY <1>1
  <2>2. r[n + Len(t)] = c[n - i] /\ c[n - i] = s[i + (n - i)]
    BY <1>3, <1>5, <2>1
  <2> QED BY <1>6, <2>1, <2>2
<1>10. ASSUME NEW m \in DOMAIN r
       PROVE  \/ m \in 1..i
              \/ \E n \in DOMAIN t : m = i + n
              \/ \E n \in i + 1..Len(s) : m = n + Len(t)
  <2>1. m \in 1..Len(s) + Len(t)
    BY <1>6
  <2>2. CASE m <= i
    BY <1>1, <2>1, <2>2
  <2>3. CASE i < m /\ m <= i + Len(t)
    <3>1. m - i \in DOMAIN t /\ m = i + (m - i)
      BY <1>1, <2>1, <2>3
    <3> QED BY <3>1
  <2>4. CASE i + Len(t) < m
    <3>1. m - Len(t) \in i + 1..Len(s) /\ m = (m - Len(t)) + Len(t)
      BY <1>1, <2>1, <2>4
    <3> QED BY <3>1
  <2> QED BY <1>1, <2>1, <2>2, <2>3, <2>4
<1> QED BY <1>5, <1>7, <1>8, <1>9, <1>10 DEF IsInserted

\* The elements of a sequence with others in it are those of both.
LEMMA InsertedSet ==
  ASSUME NEW S, NEW s \in Seq(S), NEW t \in Seq(S), NEW i \in 0..Len(s), NEW r,
         r = InsertAfter(s, i, t)
  PROVE  ToSet(r) = ToSet(s) \cup ToSet(t)
<1>1. Len(s) \in Nat /\ DOMAIN s = 1..Len(s)
  BY LenProperties
<1>0. /\ r \in Seq(S)
      /\ \A n \in 1..i : n \in DOMAIN r /\ r[n] = s[n]
      /\ \A n \in DOMAIN t : i + n \in DOMAIN r /\ r[i + n] = t[n]
      /\ \A n \in i + 1..Len(s) : n + Len(t) \in DOMAIN r /\ r[n + Len(t)] = s[n]
      /\ \A m \in DOMAIN r :
           \/ m \in 1..i
           \/ \E n \in DOMAIN t : m = i + n
           \/ \E n \in i + 1..Len(s) : m = n + Len(t)
  <2>1. r \in Seq(S) /\ IsInserted(r, s, t, i)
    BY Inserted
  <2> QED BY <2>1 DEF IsInserted
<1>2. ASSUME NEW x \in ToSet(r) PROVE x \in ToSet(s) \cup ToSet(t)
  <2>1. PICK m \in DOMAIN r : r[m] = x
    BY DEF ToSet
  <2>2. CASE m \in 1..i
    <3>1. r[m] = s[m] /\ m \in DOMAIN s
      BY <1>1, <2>2, <1>0
    <3> QED BY <2>1, <3>1 DEF ToSet
  <2>3. CASE \E n \in DOMAIN t : m = i + n
    <3>1. \E n \in DOMAIN t : r[m] = t[n]
      BY <2>3, <1>0
    <3> QED BY <2>1, <3>1 DEF ToSet
  <2>4. CASE \E n \in i + 1..Len(s) : m = n + Len(t)
    <3>1. \E n \in DOMAIN s : r[m] = s[n]
      <4>1. PICK n \in i + 1..Len(s) : m = n + Len(t)
        BY <2>4
      <4>2. n \in DOMAIN s
        BY <1>1
      <4>3. r[n + Len(t)] = s[n]
        BY <1>0
      <4> QED BY <4>1, <4>2, <4>3
    <3> QED BY <2>1, <3>1 DEF ToSet
  <2> QED BY <2>2, <2>3, <2>4, <1>0
<1>3. ASSUME NEW n \in DOMAIN s PROVE s[n] \in ToSet(r)
  <2>1. CASE n \in 1..i
    BY <2>1, <1>0 DEF ToSet
  <2>2. CASE n \in i + 1..Len(s)
    BY <2>2, <1>0 DEF ToSet
  <2> QED BY <1>1, <2>1, <2>2
<1>4. ASSUME NEW n \in DOMAIN t PROVE t[n] \in ToSet(r)
  BY <1>0 DEF ToSet
<1> QED BY <1>2, <1>3, <1>4 DEF ToSet

\* What a sequence without its j-th element is, element by element.
IsRemoved(r, s, j) ==
  /\ \A n \in 1..j - 1 : n \in DOMAIN r /\ r[n] = s[n]
  /\ \A n \in j + 1..Len(s) : n - 1 \in DOMAIN r /\ r[n - 1] = s[n]
  /\ \A m \in DOMAIN r : m \in 1..j - 1 \/ m + 1 \in j + 1..Len(s)

\* RemoveAt has that property.
LEMMA Removed ==
  ASSUME NEW S, NEW s \in Seq(S), NEW j \in DOMAIN s, NEW r, r = RemoveAt(s, j)
  PROVE  r \in Seq(S) /\ Len(r) = Len(s) - 1 /\ IsRemoved(r, s, j)
<1>1. Len(s) \in Nat /\ DOMAIN s = 1..Len(s) /\ j \in 1..Len(s)
  BY LenProperties
<1> DEFINE a == SubSeq(s, 1, j - 1)
           c == SubSeq(s, j + 1, Len(s))
<1>2. a \in Seq(S) /\ Len(a) = j - 1 /\ \A n \in 1..j - 1 : a[n] = s[n]
  <2>1. j - 1 \in 0..Len(s)
    BY <1>1
  <2> QED BY <2>1, Prefix
<1>3. c \in Seq(S) /\ Len(c) = Len(s) - j /\ \A n \in 1..Len(s) - j : c[n] = s[j + n]
  <2>1. j + 1 \in 1..Len(s) + 1
    BY <1>1
  <2>2. c \in Seq(S) /\ Len(c) = Len(s) - (j + 1) + 1
        /\ \A n \in 1..Len(s) - (j + 1) + 1 : c[n] = s[(j + 1) + n - 1]
    BY <2>1, Suffix
  <2> HIDE DEF c
  <2>3. Len(s) - (j + 1) + 1 = Len(s) - j
    BY <1>1
  <2>4. ASSUME NEW n \in 1..Len(s) - j PROVE c[n] = s[j + n]
    <3>1. (j + 1) + n - 1 = j + n /\ c[n] = s[(j + 1) + n - 1]
      BY <1>1, <2>2, <2>3
    <3> QED BY <3>1
  <2> QED BY <2>2, <2>3, <2>4
<1> HIDE DEF a, c
<1>4. r = a \o c
  BY DEF RemoveAt, a, c
<1>5. /\ r \in Seq(S) /\ Len(r) = (j - 1) + (Len(s) - j)
      /\ \A n \in 1..(j - 1) + (Len(s) - j) : r[n] = IF n <= j - 1 THEN a[n] ELSE c[n - (j - 1)]
  <2>1. /\ a \o c \in Seq(S) /\ Len(a \o c) = Len(a) + Len(c)
        /\ \A n \in 1..Len(a) + Len(c) : (a \o c)[n] = IF n <= Len(a) THEN a[n] ELSE c[n - Len(a)]
    BY <1>2, <1>3, ConcatProperties
  <2> QED BY <1>2, <1>3, <1>4, <2>1
<1>6. Len(r) = Len(s) - 1 /\ DOMAIN r = 1..Len(s) - 1 /\ (j - 1) + (Len(s) - j) = Len(s) - 1
  BY <1>1, <1>5, LenProperties
<1>7. ASSUME NEW n \in 1..j - 1 PROVE n \in DOMAIN r /\ r[n] = s[n]
  <2>1. n \in 1..Len(s) - 1 /\ n <= j - 1
    BY <1>1
  <2> QED BY <1>2, <1>5, <1>6, <2>1
<1>8. ASSUME NEW n \in j + 1..Len(s) PROVE n - 1 \in DOMAIN r /\ r[n - 1] = s[n]
  <2>1. /\ n - 1 \in 1..Len(s) - 1 /\ ~(n - 1 <= j - 1) /\ (n - 1) - (j - 1) = n - j
        /\ n - j \in 1..Len(s) - j /\ j + (n - j) = n
    BY <1>1
  <2>2. r[n - 1] = c[n - j] /\ c[n - j] = s[j + (n - j)]
    BY <1>3, <1>5, <1>6, <2>1
  <2> QED BY <1>6, <2>1, <2>2
<1>9. \A m \in DOMAIN r : m \in 1..j - 1 \/ m + 1 \in j + 1..Len(s)
  BY <1>1, <1>6
<1> QED BY <1>5, <1>6, <1>7, <1>8, <1>9 DEF IsRemoved

\* K gives the positions of the elements.
IsChosen(C, s, at, K) ==
  /\ \A p \in DOMAIN C : K[p] \in at /\ C[p] = s[K[p]]
  /\ \A p, q \in DOMAIN C : p < q <=> K[p] < K[q]
  /\ \A n \in at : \E p \in DOMAIN C : K[p] = n

\* Chosen takes each of the positions once and in their order.
LEMMA ChosenFacts ==
  ASSUME NEW S, NEW s \in Seq(S), NEW at, at \subseteq DOMAIN s
  PROVE  Chosen(s, at) \in Seq(S) /\ \E K : IsChosen(Chosen(s, at), s, at, K)
<1> DEFINE drop == DOMAIN s \ at
<1> HIDE DEF drop
<1> DEFINE K == Staying(Len(s), drop)
           C == Chosen(s, at)
<1>1. Len(s) \in Nat /\ DOMAIN s = 1..Len(s)
  BY LenProperties
<1>2. /\ DOMAIN K = 1..Place(Len(s), drop) /\ Place(Len(s), drop) \in Nat
      /\ \A p \in DOMAIN K : K[p] \in 1..Len(s) /\ K[p] \notin drop
      /\ \A p, q \in DOMAIN K : p < q => K[p] < K[q]
      /\ \A p, q \in DOMAIN K : K[p] < K[q] => p < q
      /\ \A n \in (1..Len(s)) \ drop : \E p \in DOMAIN K : K[p] = n
  BY <1>1, StayingFacts
<1>3. C = [p \in DOMAIN K |-> s[K[p]]]
  BY DEF Chosen, drop
<1>4. \A n : n \in at <=> n \in (1..Len(s)) \ drop
  BY <1>1 DEF drop
<1> HIDE DEF K, C
<1>5. DOMAIN C = DOMAIN K /\ \A p \in DOMAIN C : C[p] = s[K[p]] /\ K[p] \in at
  BY <1>2, <1>3, <1>4
<1>6. C \in Seq(S)
  <2>1. C \in [1..Place(Len(s), drop) -> S]
    <3>1. \A p \in DOMAIN K : s[K[p]] \in S
      BY <1>1, <1>2, ElementOfSeq
    <3> QED BY <1>2, <1>3, <3>1
  <2> QED BY <1>2, <2>1, AsSeq
<1>7. /\ \A p, q \in DOMAIN C : p < q <=> K[p] < K[q]
      /\ \A n \in at : \E p \in DOMAIN C : K[p] = n
  BY <1>2, <1>4, <1>5
<1>8. IsChosen(C, s, at, K)
  BY <1>5, <1>7 DEF IsChosen
<1> QED BY <1>6, <1>8 DEF C

\* The elements of Chosen are those at the positions.
LEMMA ChosenSet ==
  ASSUME NEW S, NEW s \in Seq(S), NEW at, at \subseteq DOMAIN s
  PROVE  /\ Chosen(s, at) \in Seq(S)
         /\ ToSet(Chosen(s, at)) = {s[n] : n \in at}
<1> DEFINE C == Chosen(s, at)
<1>1. C \in Seq(S)
  BY ChosenFacts
<1>2. PICK K : IsChosen(C, s, at, K)
  BY ChosenFacts
<1> HIDE DEF C
<1>3. ToSet(C) = {s[n] : n \in at}
  BY <1>2 DEF ToSet, IsChosen
<1> QED BY <1>1, <1>3 DEF C

-----------------------------------------------------------------------------
(* Concatenation of sequences of operations *)

\* No two elements have the same result.
OneEach(s) == \A i, j \in DOMAIN s : s[i].res = s[j].res => i = j
\* No two elements of all the sequences have the same result.
OneInAll(seqs) ==
  \A i, j \in DOMAIN seqs : \A a \in DOMAIN seqs[i], b \in DOMAIN seqs[j] :
    seqs[i][a].res = seqs[j][b].res => i = j /\ a = b

\* Results stay distinct in a concatenation of sequences without a common result.
LEMMA ConcatOneEach ==
  ASSUME NEW S, NEW s \in Seq(S), NEW t \in Seq(S), OneEach(s), OneEach(t),
         \A i \in DOMAIN s, j \in DOMAIN t : s[i].res # t[j].res
  PROVE  OneEach(s \o t)
<1>1. /\ Len(s) \in Nat /\ Len(t) \in Nat
      /\ DOMAIN s = 1..Len(s) /\ DOMAIN t = 1..Len(t)
  BY LenProperties
<1> DEFINE r == s \o t
<1>2. /\ DOMAIN r = 1..Len(s) + Len(t)
      /\ \A n \in 1..Len(s) + Len(t) : r[n] = IF n <= Len(s) THEN s[n] ELSE t[n - Len(s)]
  BY ConcatProperties, LenProperties
<1> HIDE DEF r
<1>3. ASSUME NEW i \in DOMAIN r, NEW j \in DOMAIN r, r[i].res = r[j].res PROVE i = j
  <2>1. CASE i <= Len(s) /\ j <= Len(s)
    <3>1. i \in DOMAIN s /\ j \in DOMAIN s /\ r[i] = s[i] /\ r[j] = s[j]
      BY <1>1, <1>2, <2>1
    <3> QED BY <1>3, <3>1 DEF OneEach
  <2>2. CASE i <= Len(s) /\ ~(j <= Len(s))
    <3>1. i \in DOMAIN s /\ j - Len(s) \in DOMAIN t /\ r[i] = s[i] /\ r[j] = t[j - Len(s)]
      BY <1>1, <1>2, <2>2
    <3> QED BY <1>3, <3>1
  <2>3. CASE ~(i <= Len(s)) /\ j <= Len(s)
    <3>1. j \in DOMAIN s /\ i - Len(s) \in DOMAIN t /\ r[j] = s[j] /\ r[i] = t[i - Len(s)]
      BY <1>1, <1>2, <2>3
    <3> QED BY <1>3, <3>1
  <2>4. CASE ~(i <= Len(s)) /\ ~(j <= Len(s))
    <3>1. /\ i - Len(s) \in DOMAIN t /\ j - Len(s) \in DOMAIN t
          /\ r[i] = t[i - Len(s)] /\ r[j] = t[j - Len(s)]
      BY <1>1, <1>2, <2>4
    <3>2. i - Len(s) = j - Len(s)
      BY <1>3, <3>1 DEF OneEach
    <3> QED BY <3>2, <1>1, <1>2
  <2> QED BY <2>1, <2>2, <2>3, <2>4
<1> QED BY <1>3 DEF OneEach, r

\* The elements of a concatenation are those of both sequences.
LEMMA ConcatSet ==
  ASSUME NEW S, NEW s \in Seq(S), NEW t \in Seq(S)
  PROVE  s \o t \in Seq(S) /\ ToSet(s \o t) = ToSet(s) \cup ToSet(t)
<1>1. /\ Len(s) \in Nat /\ Len(t) \in Nat
      /\ DOMAIN s = 1..Len(s) /\ DOMAIN t = 1..Len(t)
  BY LenProperties
<1> DEFINE r == s \o t
<1>2. /\ DOMAIN r = 1..Len(s) + Len(t) /\ r \in Seq(S)
      /\ \A n \in 1..Len(s) + Len(t) : r[n] = IF n <= Len(s) THEN s[n] ELSE t[n - Len(s)]
  BY ConcatProperties, LenProperties
<1> HIDE DEF r
<1>3. ASSUME NEW n \in DOMAIN r PROVE r[n] \in ToSet(s) \cup ToSet(t)
  <2>1. CASE n <= Len(s)
    <3>1. n \in DOMAIN s /\ r[n] = s[n]
      BY <1>1, <1>2, <2>1
    <3> QED BY <3>1 DEF ToSet
  <2>2. CASE ~(n <= Len(s))
    <3>1. n - Len(s) \in DOMAIN t /\ r[n] = t[n - Len(s)]
      BY <1>1, <1>2, <2>2
    <3> QED BY <3>1 DEF ToSet
  <2> QED BY <2>1, <2>2
<1>4. ASSUME NEW n \in DOMAIN s PROVE s[n] \in ToSet(r)
  <2>1. n \in DOMAIN r /\ r[n] = s[n]
    BY <1>1, <1>2
  <2> QED BY <2>1 DEF ToSet
<1>5. ASSUME NEW n \in DOMAIN t PROVE t[n] \in ToSet(r)
  <2>1. n + Len(s) \in DOMAIN r /\ r[n + Len(s)] = t[n]
    <3>1. /\ n + Len(s) \in 1..Len(s) + Len(t) /\ ~(n + Len(s) <= Len(s))
          /\ (n + Len(s)) - Len(s) = n
      BY <1>1
    <3> QED BY <1>2, <3>1
  <2> QED BY <2>1 DEF ToSet
<1>6. ToSet(r) = ToSet(s) \cup ToSet(t)
  BY <1>3, <1>4, <1>5 DEF ToSet
<1> QED BY <1>2, <1>6 DEF r

\* The elements of a flattened sequence are those of its members; their results stay distinct.
LEMMA FlattenFacts ==
  ASSUME NEW S, NEW seqs \in Seq(Seq(S))
  PROVE  /\ FlattenSeq(seqs) \in Seq(S)
         /\ ToSet(FlattenSeq(seqs)) = UNION {ToSet(seqs[i]) : i \in DOMAIN seqs}
         /\ OneInAll(seqs) => OneEach(FlattenSeq(seqs))
<1> DEFINE n == Len(seqs)
<1>1. n \in Nat /\ DOMAIN seqs = 1..n /\ \A i \in 1..n : seqs[i] \in Seq(S)
  BY LenProperties, ElementOfSeq
<1>2. CASE n = 0
  <2>1. seqs = <<>>
    BY <1>2, EmptySeq
  <2>2. FlattenSeq(seqs) = <<>>
    BY <1>2, <2>1 DEF FlattenSeq
  <2>3. DOMAIN seqs = {} /\ <<>> \in Seq(S) /\ DOMAIN <<>> = {}
    BY <1>1, <1>2, EmptySeq
  <2> QED BY <2>2, <2>3 DEF ToSet, OneEach
<1>3. CASE n # 0
  <2>1. PICK f : /\ FlattenSeq(seqs) = f[n]
                 /\ \A i \in 1..n : f[i] = IF i = 1 THEN seqs[i] ELSE f[i - 1] \o seqs[i]
    BY <1>1, <1>3, FlattenSteps
  <2> HIDE DEF n
  <2> DEFINE All(m) == UNION {ToSet(seqs[i]) : i \in 1..m}
             Good(m) == /\ f[m] \in Seq(S) /\ ToSet(f[m]) = All(m)
                        /\ OneInAll(seqs) => OneEach(f[m])
             T == {m \in Nat : m \in 1..n => Good(m)}
  <2>2. 0 \in T
    OBVIOUS
  <2>3. ASSUME NEW m \in Nat, m \in T PROVE m + 1 \in T
    <3> SUFFICES ASSUME m + 1 \in 1..n PROVE Good(m + 1)
      OBVIOUS
    <3>1. All(m + 1) = All(m) \cup ToSet(seqs[m + 1])
      <4>1. \A i : i \in 1..m + 1 <=> i \in 1..m \/ i = m + 1
        OBVIOUS
      <4> QED BY <4>1
    <3>2. ASSUME OneInAll(seqs) PROVE OneEach(seqs[m + 1])
      BY <1>1, <3>2 DEF OneInAll, OneEach
    <3>3. CASE m = 0
      <4>1. f[m + 1] = seqs[m + 1]
        BY <2>1, <3>3
      <4>2. All(m) = {}
        BY <3>3
      <4>3. ToSet(f[m + 1]) = All(m + 1) /\ f[m + 1] \in Seq(S)
        BY <1>1, <3>1, <4>1, <4>2
      <4> QED BY <3>2, <4>1, <4>3
    <3>4. CASE m # 0
      <4>1. m \in 1..n /\ f[m + 1] = f[m] \o seqs[m + 1]
        <5>1. m + 1 # 1 /\ (m + 1) - 1 = m /\ m \in 1..n
          BY <1>1, <3>4
        <5> QED BY <2>1, <5>1
      <4>2. Good(m) /\ seqs[m + 1] \in Seq(S)
        BY <1>1, <2>3, <4>1
      <4>3. f[m + 1] \in Seq(S) /\ ToSet(f[m + 1]) = All(m) \cup ToSet(seqs[m + 1])
        BY <4>1, <4>2, ConcatSet
      <4>4. ASSUME OneInAll(seqs) PROVE OneEach(f[m + 1])
        <5>1. ASSUME NEW i \in DOMAIN f[m], NEW j \in DOMAIN seqs[m + 1]
              PROVE  f[m][i].res # seqs[m + 1][j].res
          <6>1. f[m][i] \in All(m)
            BY <4>2 DEF ToSet
          <6>2. PICK k \in 1..m : f[m][i] \in ToSet(seqs[k])
            BY <6>1
          <6>3. PICK a \in DOMAIN seqs[k] : seqs[k][a] = f[m][i]
            BY <6>2 DEF ToSet
          <6>4. k \in DOMAIN seqs /\ m + 1 \in DOMAIN seqs /\ k # m + 1
            BY <1>1, <4>1
          <6> QED BY <4>4, <6>3, <6>4 DEF OneInAll
        <5> QED BY <3>2, <4>1, <4>2, <4>4, <5>1, ConcatOneEach
      <4> QED BY <3>1, <4>3, <4>4
    <3> QED BY <3>3, <3>4
  <2>4. n \in T
    <3> HIDE DEF T
    <3> QED BY <1>1, <2>2, <2>3, Induction DEF n
  <2>5. n \in 1..n
    BY <1>1, <1>3 DEF n
  <2>6. Good(n)
    BY <2>4, <2>5
  <2> QED BY <1>1, <2>1, <2>6 DEF n
<1> QED BY <1>2, <1>3

-----------------------------------------------------------------------------
(* New names *)

\* A function of a finite set has a finite range.
LEMMA FiniteRange ==
  ASSUME NEW S, IsFiniteSet(S), NEW f
  PROVE  IsFiniteSet({f[x] : x \in S})
<1> DEFINE T == {f[x] : x \in S}
           g == [x \in S |-> f[x]]
<1>1. g \in Surjection(S, T)
  BY DEF Surjection
<1> HIDE DEF g, T
<1>2. IsFiniteSet(T)
  BY <1>1, FS_Surjection
<1> QED BY <1>2 DEF T

\* A sequence has finitely many positions.
LEMMA FiniteSeq ==
  ASSUME NEW S, NEW s \in Seq(S)
  PROVE  IsFiniteSet(DOMAIN s)
<1>1. Len(s) \in Nat /\ DOMAIN s = 1..Len(s) /\ 1 \in Int /\ Len(s) \in Int
  BY LenProperties
<1>2. IsFiniteSet(1..Len(s))
  BY <1>1, FS_Interval
<1> QED BY <1>1, <1>2

\* One of many different names is not among those of a smaller set.
LEMMA LeastFree ==
  ASSUME NEW T, IsFiniteSet(T), NEW f, NEW c, c = Cardinality(T),
         \A m, n \in 0..c : f[m] = f[n] => m = n
  PROVE  \E n \in 0..c : f[n] \notin T /\ \A m \in 0..n - 1 : f[m] \in T
<1>1. c \in Nat /\ IsFiniteSet(0..c) /\ Cardinality(0..c) = c + 1
  <2>1. c \in Nat
    BY FS_CardinalityType
  <2>2. 0 \in Int /\ c \in Int
    BY <2>1
  <2>3. IsFiniteSet(0..c) /\ Cardinality(0..c) = IF 0 > c THEN 0 ELSE c - 0 + 1
    BY <2>2, FS_Interval
  <2> QED BY <2>1, <2>3
<1> DEFINE F == {n \in 0..c : f[n] \notin T}
<1>2. F # {}
  <2> SUFFICES ASSUME \A n \in 0..c : f[n] \in T PROVE FALSE
    OBVIOUS
  <2> DEFINE g == [n \in 0..c |-> f[n]]
             S == 0..c
  <2>1. g \in [S -> T]
    OBVIOUS
  <2>2. IsFiniteSet(S) /\ Cardinality(T) < Cardinality(S)
    BY <1>1
  <2>3. \A x, y \in S : g[x] = g[y] => x = y
    OBVIOUS
  <2> HIDE DEF g, S
  <2> QED BY <2>1, <2>2, <2>3, FS_PigeonHole
<1>3. F \in SUBSET Nat
  BY <1>1
<1>4. PICK n \in F : \A m \in F : n <= m
  BY <1>2, <1>3, Least
<1>5. ASSUME NEW m \in 0..n - 1 PROVE f[m] \in T
  <2>1. m \in 0..c /\ ~(n <= m)
    BY <1>1, <1>4
  <2> QED BY <2>1, <1>4
<1> QED BY <1>4, <1>5

\* The types of the parts of a parser.
LEMMA ParserFacts ==
  ASSUME NEW P \in ParserType
  PROVE  /\ P.params \in Seq(Name) /\ P.top \in Seq(Operation) /\ P.insts \in Seq(InstanceType)
         /\ P.start \in Name /\ P.states \in Seq(StateType)
         /\ \A i \in DOMAIN P.states :
              /\ P.states[i] \in StateType /\ P.states[i].name \in Name
              /\ P.states[i].ops \in Seq(Operation) /\ P.states[i].next \in Transition
         /\ \A i \in DOMAIN P.insts :
              /\ P.insts[i] \in InstanceType /\ P.insts[i].name \in Name
              /\ P.insts[i].args \in Seq(Name)
<1>1. /\ P.params \in Seq(Name) /\ P.top \in Seq(Operation) /\ P.insts \in Seq(InstanceType)
      /\ P.start \in Name /\ P.states \in Seq(StateType)
  BY DEF ParserType
<1>2. ASSUME NEW i \in DOMAIN P.states PROVE P.states[i] \in StateType
  BY <1>1, SeqFacts
<1>3. ASSUME NEW i \in DOMAIN P.insts PROVE P.insts[i] \in InstanceType
  BY <1>1, SeqFacts
<1>4. \A s \in StateType : s.name \in Name /\ s.ops \in Seq(Operation) /\ s.next \in Transition
  BY DEF StateType
<1>5. \A s \in InstanceType : s.name \in Name /\ s.args \in Seq(Name)
  BY DEF InstanceType
<1> QED BY <1>1, <1>2, <1>3, <1>4, <1>5

\* The types of the parts of an operation.
LEMMA OpFacts ==
  ASSUME NEW o \in Operation
  PROVE  /\ o.op \in OpKinds /\ o.res \in Name /\ o.args \in Seq(Name) /\ o.lit \in Nat
         /\ o.inst \in Name /\ o.deep \in BOOLEAN
BY DEF Operation

\* The missing value is a name, the empty one.
LEMMA NoValueName == NoValue \in Name
BY NameEmpty DEF NoValue

\* The results of operations are finitely many names, each of some operation.
LEMMA ResultsFacts ==
  ASSUME NEW ops \in Seq(Operation)
  PROVE  /\ Results(ops) \subseteq Name /\ IsFiniteSet(Results(ops))
         /\ \A v : v \in Results(ops) <=> v # NoValue /\ \E j \in DOMAIN ops : ops[j].res = v
<1> DEFINE f == [j \in DOMAIN ops |-> ops[j].res]
           D == DOMAIN ops
<1>1. IsFiniteSet(D)
  BY FiniteSeq
<1>2. IsFiniteSet({f[x] : x \in D})
  <2> HIDE DEF f, D
  <2> QED BY <1>1, FiniteRange
<1>3. {f[x] : x \in D} = {ops[j].res : j \in DOMAIN ops}
  OBVIOUS
<1>4. \A j \in DOMAIN ops : ops[j] \in Operation /\ ops[j].res \in Name
  BY SeqFacts, OpFacts
<1>5. Results(ops) \subseteq {ops[j].res : j \in DOMAIN ops}
  BY DEF Results
<1>6. IsFiniteSet(Results(ops))
  BY <1>2, <1>3, <1>5, FS_Subset
<1> QED BY <1>4, <1>6 DEF Results

\* The values of a parser are finitely many names, from three places.
LEMMA ValuesFacts ==
  ASSUME NEW P \in ParserType
  PROVE  /\ ValuesOf(P) \subseteq Name /\ IsFiniteSet(ValuesOf(P))
         /\ ToSet(P.params) \subseteq ValuesOf(P)
         /\ Results(P.top) \subseteq ValuesOf(P)
         /\ \A i \in DOMAIN P.states : Results(P.states[i].ops) \subseteq ValuesOf(P)
         /\ \A v \in ValuesOf(P) :
              \/ v \in ToSet(P.params)
              \/ v \in Results(P.top)
              \/ \E i \in DOMAIN P.states : v \in Results(P.states[i].ops)
<1> DEFINE f == [i \in DOMAIN P.states |-> Results(P.states[i].ops)]
           D == DOMAIN P.states
           R == {f[i] : i \in D}
           A == ToSet(P.params)
           B == Results(P.top)
<1>1. A \subseteq Name /\ IsFiniteSet(A)
  <2>1. IsFiniteSet(DOMAIN P.params)
    BY ParserFacts, FiniteSeq
  <2> DEFINE p == P.params
             E == DOMAIN p
  <2>2. IsFiniteSet({p[x] : x \in E})
    <3> HIDE DEF p, E
    <3>1. IsFiniteSet(E)
      BY <2>1 DEF E, p
    <3> QED BY <3>1, FiniteRange
  <2>3. A \subseteq Name
    BY ParserFacts, SeqFacts
  <2> QED BY <2>2, <2>3 DEF ToSet
<1>2. B \subseteq Name /\ IsFiniteSet(B)
  BY ParserFacts, ResultsFacts
<1>3. ASSUME NEW i \in D PROVE f[i] \subseteq Name /\ IsFiniteSet(f[i])
  <2>1. P.states[i].ops \in Seq(Operation)
    BY ParserFacts
  <2> QED BY <2>1, ResultsFacts
<1>4. IsFiniteSet(D)
  BY ParserFacts, FiniteSeq
<1>5. ValuesOf(P) = A \cup B \cup UNION R
  BY DEF ValuesOf
<1> HIDE DEF f, D, A, B
<1>6. IsFiniteSet(R)
  BY <1>4, FiniteRange
<1>7. IsFiniteSet(UNION R) /\ UNION R \subseteq Name
  <2>1. \A T \in R : IsFiniteSet(T) /\ T \subseteq Name
    BY <1>3
  <2> HIDE DEF R
  <2> QED BY <1>6, <2>1, FS_UNION
<1>8. IsFiniteSet(A \cup B)
  BY <1>1, <1>2, FS_Union
<1>9. IsFiniteSet((A \cup B) \cup UNION R)
  BY <1>7, <1>8, FS_Union
<1>10. IsFiniteSet(ValuesOf(P)) /\ ValuesOf(P) \subseteq Name
  BY <1>1, <1>2, <1>5, <1>7, <1>9
<1>11. \A v : v \in UNION R <=> \E i \in D : v \in f[i]
  OBVIOUS
<1> QED BY <1>5, <1>10, <1>11 DEF f, D, A, B

\* A parser has finitely many states and instances.
LEMMA NamesFinite ==
  ASSUME NEW P \in ParserType
  PROVE  IsFiniteSet(StateNames(P) \cup InstanceNames(P))
<1> DEFINE f == [i \in DOMAIN P.states |-> P.states[i].name]
           D == DOMAIN P.states
           g == [i \in DOMAIN P.insts |-> P.insts[i].name]
           E == DOMAIN P.insts
<1>1. IsFiniteSet(D) /\ IsFiniteSet(E)
  BY ParserFacts, FiniteSeq
<1>2. StateNames(P) = {f[i] : i \in D} /\ InstanceNames(P) = {g[i] : i \in E}
  BY DEF StateNames, InstanceNames
<1> HIDE DEF f, D, g, E
<1>3. IsFiniteSet({f[i] : i \in D})
  BY <1>1, FiniteRange
<1>4. IsFiniteSet({g[i] : i \in E})
  BY <1>1, FiniteRange
<1> QED BY <1>2, <1>3, <1>4, FS_Union

\* What a name with n marks after it is.
LEMMA Numbered ==
  ASSUME NEW base \in Name, NEW n \in Nat
  PROVE  /\ base \o Marks("+", n) \in Name
         /\ Len(base) \in Nat /\ Len(base \o Marks("+", n)) = Len(base) + n
         /\ \A i \in 1..n : (base \o Marks("+", n))[Len(base) + i] = "+"
         /\ Begins(base \o Marks("+", n), base)
<1> DEFINE u == Marks("+", n)
<1>1. "+" \in {"#", "+"}
  OBVIOUS
<1>2. u \in Name /\ Len(u) = n /\ \A i \in 1..n : u[i] = "+"
  BY <1>1, MarksFacts
<1> HIDE DEF u
<1>3. /\ base \o u \in Name /\ Len(base) \in Nat /\ Len(base \o u) = Len(base) + Len(u)
      /\ \A i \in 1..Len(u) : (base \o u)[Len(base) + i] = u[i]
      /\ Begins(base \o u, base)
  BY <1>2, NameConcat, BeginsConcat
<1> QED BY <1>2, <1>3 DEF u

\* UniqueName finds a name that no state and no instance has, and that begins with its base:
\* of one more number than there are names one is free.
LEMMA UniqueNameFacts ==
  ASSUME NEW P \in ParserType, NEW base \in Name
  PROVE  /\ UniqueName(P, base) \in Name
         /\ UniqueName(P, base) \notin StateNames(P) \cup InstanceNames(P)
         /\ Begins(UniqueName(P, base), base)
<1> DEFINE taken == StateNames(P) \cup InstanceNames(P)
           c == Cardinality(taken)
           f == [n \in 0..c |-> base \o Marks("+", n)]
<1>1. IsFiniteSet(taken) /\ c \in Nat
  BY NamesFinite, FS_CardinalityType
<1> HIDE DEF taken, c
<1>2. ASSUME NEW n \in 0..c
      PROVE  f[n] \in Name /\ Len(f[n]) = Len(base) + n /\ Begins(f[n], base)
  <2>1. n \in Nat /\ f[n] = base \o Marks("+", n)
    BY <1>1
  <2> HIDE DEF f
  <2> QED BY <2>1, Numbered
<1>3. Len(base) \in Nat
  BY NameEmpty
<1>4. \A n \in 0..c : f[n] = base \o Marks("+", n)
  OBVIOUS
<1> HIDE DEF f
<1>5. \A m, n \in 0..c : f[m] = f[n] => m = n
  BY <1>1, <1>2, <1>3
<1>6. \E n \in 0..c : f[n] \notin taken /\ \A m \in 0..n - 1 : f[m] \in taken
  BY <1>1, <1>5, LeastFree DEF c
<1>7. \E n \in 0..c : /\ base \o Marks("+", n) \notin taken
                      /\ \A m \in 0..n - 1 : base \o Marks("+", m) \in taken
  <2>1. PICK n \in 0..c : f[n] \notin taken /\ \A m \in 0..n - 1 : f[m] \in taken
    BY <1>6
  <2>2. \A m \in 0..n - 1 : m \in 0..c
    BY <1>1, <2>1
  <2> QED BY <1>4, <2>1, <2>2
<1> DEFINE N == CHOOSE n \in 0..c : /\ base \o Marks("+", n) \notin taken
                                    /\ \A m \in 0..n - 1 : base \o Marks("+", m) \in taken
<1>8. N \in 0..c /\ base \o Marks("+", N) \notin taken
  BY <1>7
<1>9. UniqueName(P, base) = base \o Marks("+", N)
  BY DEF UniqueName, taken, c
<1> HIDE DEF N
<1> QED BY <1>2, <1>4, <1>8, <1>9 DEF taken

\* NewStem finds a stem that no value begins with, and that begins with the old value.
LEMMA NewStemFacts ==
  ASSUME NEW P \in ParserType, NEW old \in Name
  PROVE  /\ NewStem(P, old) \in Name
         /\ NewStem(P, old) # <<>>
         /\ Begins(NewStem(P, old), old)
         /\ \A v \in ValuesOf(P) : ~Begins(v, NewStem(P, old))
<1> DEFINE V == ValuesOf(P)
           c == Cardinality(V)
           f == [n \in 0..c |-> old \o Marks("+", n) \o <<"in">>]
<1>1. IsFiniteSet(V) /\ V \subseteq Name /\ c \in Nat
  BY ValuesFacts, FS_CardinalityType
<1> HIDE DEF V, c
<1>2. <<"in">> \in Name /\ Len(<<"in">>) = 1 /\ <<"in">>[1] = "in"
  <2>1. "in" \in Word
    BY Words
  <2> QED BY <2>1 DEF Name
<1>3. ASSUME NEW n \in 0..c
      PROVE  /\ f[n] \in Name /\ Len(old) \in Nat /\ Len(f[n]) = Len(old) + n + 1
             /\ \A i \in 1..n : f[n][Len(old) + i] = "+"
             /\ f[n][Len(old) + n + 1] = "in"
             /\ Begins(f[n], old)
  <2> DEFINE x == old \o Marks("+", n)
             y == <<"in">>
  <2>1. /\ x \in Name /\ Len(old) \in Nat /\ Len(x) = Len(old) + n
        /\ \A i \in 1..n : x[Len(old) + i] = "+"
        /\ Begins(x, old)
    <3>1. n \in Nat
      BY <1>1
    <3> QED BY <3>1, Numbered
  <2>2. f[n] = x \o y
    OBVIOUS
  <2>3. y \in Name /\ Len(y) = 1 /\ y[1] = "in"
    BY <1>2
  <2> HIDE DEF x, y, f
  <2>4. /\ x \o y \in Name /\ Len(x \o y) = Len(x) + 1 /\ Begins(x \o y, x)
        /\ \A i \in 1..Len(x) : (x \o y)[i] = x[i]
        /\ (x \o y)[Len(x) + 1] = "in"
    <3>1. /\ x \o y \in Name /\ Len(x \o y) = Len(x) + Len(y)
          /\ \A i \in 1..Len(x) : (x \o y)[i] = x[i]
          /\ \A i \in 1..Len(y) : (x \o y)[Len(x) + i] = y[i]
      BY <2>1, <2>3, NameConcat
    <3>2. 1 \in 1..Len(y)
      BY <2>3
    <3> QED BY <2>1, <2>3, <3>1, <3>2, BeginsConcat
  <2>5. ASSUME NEW i \in 1..n PROVE (x \o y)[Len(old) + i] = "+"
    <3>1. Len(old) + i \in 1..Len(x)
      <4>1. n \in Nat /\ i \in Nat /\ i # 0 /\ i <= n
        BY <1>1
      <4> QED BY <2>1, <4>1
    <3> QED BY <2>1, <2>4, <3>1
  <2>6. Begins(x \o y, old)
    BY <2>1, <2>4, BeginsTrans
  <2> QED BY <1>1, <2>1, <2>2, <2>4, <2>5, <2>6
<1>4. \A n \in 0..c : f[n] = old \o Marks("+", n) \o <<"in">>
  OBVIOUS
<1> HIDE DEF f
<1>5. ASSUME NEW m \in 0..c, NEW n \in 0..c, NEW v \in Name, Begins(v, f[m]), Begins(v, f[n])
      PROVE  m = n
  <2>1. ASSUME NEW i \in 0..c, NEW j \in 0..c, i < j, Begins(v, f[i]), Begins(v, f[j])
        PROVE  FALSE
    <3>0. /\ i \in Nat /\ j \in Nat /\ Len(old) \in Nat
          /\ Len(f[i]) = Len(old) + i + 1 /\ Len(f[j]) = Len(old) + j + 1
      BY <1>1, <1>3
    <3>1. /\ Len(old) + i + 1 \in 1..Len(f[i]) /\ Len(old) + i + 1 \in 1..Len(f[j])
          /\ i + 1 \in 1..j /\ Len(old) + i + 1 = Len(old) + (i + 1)
      BY <2>1, <3>0
    <3>2. v[Len(old) + i + 1] = "in"
      BY <1>3, <2>1, <3>1 DEF Begins
    <3>3. v[Len(old) + (i + 1)] = "+"
      BY <1>3, <2>1, <3>1 DEF Begins
    <3> QED BY <3>1, <3>2, <3>3
  <2>2. ~(m < n) /\ ~(n < m)
    BY <1>5, <2>1
  <2> QED BY <1>1, <2>2
<1>6. \E n \in 0..c : \A v \in V : ~Begins(v, f[n])
  <2> SUFFICES ASSUME \A n \in 0..c : \E v \in V : Begins(v, f[n]) PROVE FALSE
    OBVIOUS
  <2> DEFINE g == [n \in 0..c |-> CHOOSE v \in V : Begins(v, f[n])]
  <2>1. \A n \in 0..c : g[n] \in V /\ Begins(g[n], f[n])
    OBVIOUS
  <2> HIDE DEF g
  <2>2. \A m, n \in 0..c : g[m] = g[n] => m = n
    BY <1>1, <1>5, <2>1
  <2>3. \E n \in 0..c : g[n] \notin V
    BY <1>1, <2>2, LeastFree DEF c
  <2> QED BY <2>1, <2>3
<1>7. \E n \in 0..c : \A v \in V : ~IsPrefix(old \o Marks("+", n) \o <<"in">>, v)
  <2>1. PICK n \in 0..c : \A v \in V : ~Begins(v, f[n])
    BY <1>6
  <2>2. \A v \in V : ~IsPrefix(f[n], v)
    BY <1>1, <1>3, <2>1, BeginsIsPrefix
  <2> QED BY <1>4, <2>2
<1> DEFINE N == CHOOSE n \in 0..c : \A v \in V : ~IsPrefix(old \o Marks("+", n) \o <<"in">>, v)
<1>8. N \in 0..c /\ \A v \in V : ~IsPrefix(old \o Marks("+", N) \o <<"in">>, v)
  BY <1>7
<1>9. NewStem(P, old) = old \o Marks("+", N) \o <<"in">>
  BY DEF NewStem, V, c
<1> HIDE DEF N
<1>10. NewStem(P, old) = f[N]
  BY <1>4, <1>8, <1>9
<1>11. \A v \in V : ~Begins(v, f[N])
  BY <1>1, <1>3, <1>4, <1>8, BeginsIsPrefix
<1>12. f[N] # <<>> /\ f[N] \in Name /\ Begins(f[N], old)
  <2>1. Len(f[N]) # 0
    <3>1. N \in Nat /\ Len(old) \in Nat /\ Len(f[N]) = Len(old) + N + 1
      BY <1>1, <1>3, <1>8
    <3> QED BY <3>1
  <2> QED BY <1>3, <1>8, <2>1, NameEmpty
<1> QED BY <1>10, <1>11, <1>12 DEF V

-----------------------------------------------------------------------------
(* The states of a parser *)

\* The states, and the instances, have different names.
UniqueStates(P) == \A i, k \in DOMAIN P.states : P.states[i].name = P.states[k].name => i = k
UniqueInsts(P) == \A i, k \in DOMAIN P.insts : P.insts[i].name = P.insts[k].name => i = k

\* StateAt and StateNamed find the state with a name.
LEMMA StateAtFacts ==
  ASSUME NEW P \in ParserType, NEW n \in StateNames(P)
  PROVE  /\ StateAt(P, n) \in DOMAIN P.states
         /\ P.states[StateAt(P, n)].name = n
         /\ StateNamed(P, n) = P.states[StateAt(P, n)]
         /\ UniqueStates(P) => \A i \in DOMAIN P.states : P.states[i].name = n => i = StateAt(P, n)
<1>1. \E i \in DOMAIN P.states : P.states[i].name = n
  BY DEF StateNames
<1>2. StateAt(P, n) \in DOMAIN P.states /\ P.states[StateAt(P, n)].name = n
  BY <1>1 DEF StateAt
<1> QED BY <1>2 DEF UniqueStates, StateNamed

\* The operation p is o with another value for "old".
IsSwapped(o, p, old, new) ==
  /\ p.op = o.op /\ p.res = o.res /\ p.lit = o.lit /\ p.inst = o.inst /\ p.deep = o.deep
  /\ DOMAIN p.args = DOMAIN o.args /\ Len(p.args) = Len(o.args)
  /\ \A i \in DOMAIN o.args : p.args[i] = IF o.args[i] = old THEN new ELSE o.args[i]

\* SwapArgs changes nothing but uses of the old value.
LEMMA SwappedOp ==
  ASSUME NEW o \in Operation, NEW old, NEW new \in Name, NEW p,
         p = SwapArgs(o, old, new)
  PROVE  p \in Operation /\ IsSwapped(o, p, old, new)
<1> DEFINE a == [i \in DOMAIN o.args |-> IF o.args[i] = old THEN new ELSE o.args[i]]
<1>1. /\ o.args \in Seq(Name) /\ Len(o.args) \in Nat /\ DOMAIN o.args = 1..Len(o.args)
      /\ \A i \in DOMAIN o.args : o.args[i] \in Name
  BY OpFacts, SeqFacts
<1>2. a \in [1..Len(o.args) -> Name]
  BY <1>1
<1>3. a \in Seq(Name) /\ Len(a) = Len(o.args)
  BY <1>1, <1>2, AsSeq
<1>4. p = [o EXCEPT !.args = a]
  BY DEF SwapArgs
<1>5. \A i \in DOMAIN o.args : a[i] = IF o.args[i] = old THEN new ELSE o.args[i]
  OBVIOUS
<1>6. DOMAIN a = DOMAIN o.args
  OBVIOUS
<1> HIDE DEF a
<1>7. p \in Operation /\ p.args = a
  BY <1>3, <1>4 DEF Operation
<1>8. p.op = o.op /\ p.res = o.res /\ p.lit = o.lit /\ p.inst = o.inst /\ p.deep = o.deep
  BY <1>4 DEF Operation
<1> QED BY <1>3, <1>5, <1>6, <1>7, <1>8 DEF IsSwapped

\* The state t is s with one more operation, m, and another value for "old".
IsReplaced(s, t, old, new, m) ==
  /\ t.name = s.name /\ t.next.kind = s.next.kind /\ t.next.targets = s.next.targets
  /\ t.next.sel = IF s.next.sel = old THEN new ELSE s.next.sel
  /\ DOMAIN t.ops = 1..Len(s.ops) + 1
  /\ t.ops[1] = m
  /\ \A j \in DOMAIN s.ops : IsSwapped(s.ops[j], t.ops[j + 1], old, new)

\* The types of the parts of a state.
LEMMA StateFacts ==
  ASSUME NEW s \in StateType
  PROVE  /\ s.name \in Name /\ s.ops \in Seq(Operation) /\ s.next \in Transition
         /\ Len(s.ops) \in Nat /\ DOMAIN s.ops = 1..Len(s.ops)
         /\ \A j \in DOMAIN s.ops : s.ops[j] \in Operation
         /\ s.next.sel \in Name /\ s.next.targets \in Seq(Name)
<1>1. s.name \in Name /\ s.ops \in Seq(Operation) /\ s.next \in Transition
  BY DEF StateType
<1>2. s.next.sel \in Name /\ s.next.targets \in Seq(Name)
  BY <1>1 DEF Transition
<1> QED BY <1>1, <1>2, SeqFacts

\* RecomputeIn adds one operation and changes nothing else but uses of the old value.
LEMMA ReplacedState ==
  ASSUME NEW s \in StateType, NEW old, NEW new \in Name, NEW o \in Operation, NEW t,
         t = RecomputeIn(s, old, o, new)
  PROVE  t \in StateType /\ IsReplaced(s, t, old, new, [o EXCEPT !.res = new])
<1> DEFINE q == [j \in DOMAIN s.ops |-> SwapArgs(s.ops[j], old, new)]
           sel == IF s.next.sel = old THEN new ELSE s.next.sel
           u == [s EXCEPT !.ops = q, !.next.sel = sel]
           m == [o EXCEPT !.res = new]
<1>1. /\ s.name \in Name /\ s.ops \in Seq(Operation) /\ s.next \in Transition
      /\ Len(s.ops) \in Nat /\ DOMAIN s.ops = 1..Len(s.ops)
      /\ \A j \in DOMAIN s.ops : s.ops[j] \in Operation
      /\ s.next.sel \in Name /\ s.next.targets \in Seq(Name)
  BY StateFacts
<1>0. m \in Operation
  BY DEF Operation
<1> HIDE DEF m
<1>2. ReplaceUses(s, old, new) = u
  BY DEF ReplaceUses, StateType, Transition
<1>3. ASSUME NEW j \in DOMAIN s.ops
      PROVE  q[j] \in Operation /\ IsSwapped(s.ops[j], q[j], old, new)
  <2>1. q[j] = SwapArgs(s.ops[j], old, new)
    OBVIOUS
  <2> HIDE DEF q
  <2> QED BY <1>1, <2>1, SwappedOp
<1>4. DOMAIN q = DOMAIN s.ops
  OBVIOUS
<1> HIDE DEF q
<1>5. q \in Seq(Operation) /\ Len(q) = Len(s.ops)
  <2>1. q \in [1..Len(s.ops) -> Operation]
    <3>1. q = [j \in DOMAIN s.ops |-> q[j]]
      BY <1>4 DEF q
    <3> QED BY <1>1, <1>3, <1>4, <3>1
  <2> QED BY <1>1, <2>1, AsSeq
<1> DEFINE e == <<m>>
           r == e \o q
<1>6. e \in Seq(Operation) /\ Len(e) = 1 /\ e[1] = m /\ DOMAIN e = 1..1
  BY <1>0
<1> HIDE DEF e
<1>7. /\ r \in Seq(Operation) /\ DOMAIN r = 1..Len(s.ops) + 1 /\ r[1] = m
      /\ \A j \in DOMAIN s.ops : r[j + 1] = q[j]
  <2>1. r \in Seq(Operation) /\ IsJoined(r, e, q)
    BY <1>5, <1>6, Joined
  <2> HIDE DEF r
  <2>2. 1 \in DOMAIN e /\ Len(e) + Len(q) = Len(s.ops) + 1
    BY <1>1, <1>5, <1>6
  <2> QED BY <1>4, <1>5, <1>6, <2>1, <2>2 DEF IsJoined
<1>8. sel \in Name /\ [s.next EXCEPT !.sel = sel] \in Transition
  BY <1>1 DEF Transition
<1>9. u.ops = q
  BY DEF StateType
<1>10. t = [u EXCEPT !.ops = r]
  BY <1>2, <1>9 DEF RecomputeIn, e, m
<1> HIDE DEF r, sel
<1>11. /\ t.name = s.name /\ t.ops = r /\ t.next = [s.next EXCEPT !.sel = sel]
       /\ t \in StateType
  BY <1>7, <1>8, <1>10 DEF StateType
<1>12. /\ t.next.kind = s.next.kind /\ t.next.targets = s.next.targets /\ t.next.sel = sel
  BY <1>1, <1>11 DEF Transition
<1>13. \A j \in DOMAIN s.ops : IsSwapped(s.ops[j], t.ops[j + 1], old, new)
  BY <1>3, <1>7, <1>11
<1> QED BY <1>7, <1>11, <1>12, <1>13 DEF IsReplaced, sel, m

\* Q is a parser that differs from P in its body and in the code of its states at most.
SameRest(P, Q) ==
  /\ Q \in ParserType
  /\ Q.params = P.params /\ Q.insts = P.insts /\ Q.start = P.start
  /\ Len(Q.states) = Len(P.states) /\ DOMAIN Q.states = DOMAIN P.states

\* The states in E recompute the value, the others are as they were.
IsRecomputed(P, Q, E, old, o) ==
  \A i \in DOMAIN P.states :
    LET here == NewStem(P, old) \o P.states[i].name
    IN IF i \in E
       THEN IsReplaced(P.states[i], Q.states[i], old, here, [o EXCEPT !.res = here])
       ELSE Q.states[i] = P.states[i]

\* Recompute changes the states in E only.
LEMMA RecomputeFacts ==
  ASSUME NEW P \in ParserType, NEW E, NEW old \in Name, NEW o \in Operation, NEW Q,
         Q = Recompute(P, E, old, o)
  PROVE  SameRest(P, Q) /\ Q.top = P.top /\ IsRecomputed(P, Q, E, old, o)
<1> DEFINE here(i) == NewStem(P, old) \o P.states[i].name
           m(i) == [o EXCEPT !.res = here(i)]
           S == [i \in DOMAIN P.states |->
                   IF i \in E THEN RecomputeIn(P.states[i], old, o, here(i)) ELSE P.states[i]]
<1>1. Q = [P EXCEPT !.states = S]
  BY DEF Recompute
<1>2. /\ Len(P.states) \in Nat /\ DOMAIN P.states = 1..Len(P.states)
      /\ \A i \in DOMAIN P.states : P.states[i] \in StateType /\ P.states[i].name \in Name
  BY ParserFacts, SeqFacts
<1>3. ASSUME NEW i \in DOMAIN P.states PROVE here(i) \in Name /\ m(i) \in Operation
  <2>1. here(i) \in Name
    BY <1>2, NewStemFacts, NameConcat
  <2> QED BY <2>1 DEF Operation
<1>4. ASSUME NEW i \in DOMAIN P.states
      PROVE  /\ S[i] \in StateType
             /\ IF i \in E THEN IsReplaced(P.states[i], S[i], old, here(i), m(i))
                ELSE S[i] = P.states[i]
  <2>1. CASE i \in E
    <3>1. S[i] = RecomputeIn(P.states[i], old, o, here(i)) /\ here(i) \in Name
      BY <1>3, <2>1
    <3> HIDE DEF S
    <3>2. S[i] \in StateType /\ IsReplaced(P.states[i], S[i], old, here(i), m(i))
      BY <1>2, <3>1, ReplacedState
    <3> QED BY <2>1, <3>2
  <2>2. CASE i \notin E
    BY <1>2, <2>2
  <2> QED BY <2>1, <2>2
<1>5. S \in Seq(StateType) /\ Len(S) = Len(P.states) /\ DOMAIN S = DOMAIN P.states
  <2>1. DOMAIN S = DOMAIN P.states
    OBVIOUS
  <2>2. S \in [1..Len(P.states) -> StateType]
    <3>1. S = [i \in DOMAIN P.states |-> S[i]]
      OBVIOUS
    <3> HIDE DEF S
    <3> QED BY <1>2, <1>4, <3>1
  <2> QED BY <1>2, <2>1, <2>2, AsSeq
<1> HIDE DEF S
<1>6. /\ Q \in ParserType /\ Q.states = S
      /\ Q.params = P.params /\ Q.top = P.top /\ Q.insts = P.insts /\ Q.start = P.start
  BY <1>1, <1>5 DEF ParserType
<1> QED BY <1>4, <1>5, <1>6 DEF SameRest, IsRecomputed

-----------------------------------------------------------------------------
(* One operation of a block whose value is used elsewhere *)

\* The code of one state changes.
SameState(s, t) == t.name = s.name /\ t.next = s.next

\* The n-th operation of the state B has become a declaration of the parser.
IsMoved(P, Q, B, n, o) ==
  /\ o.op = "var"
  /\ Q.top = Append(P.top, o)
  /\ \A i \in DOMAIN P.states : i # B => Q.states[i] = P.states[i]
  /\ SameState(P.states[B], Q.states[B])
  /\ Q.states[B].ops = RemoveAt(P.states[B].ops, n)

\* The value of an operation in the i-th state, and the variable that holds it.
NewValue(P, o, i) == NewStem(P, o.res) \o P.states[i].name

\* The states in E repeat the operation.
IsCopiedTo(P, Q, E, o) ==
  /\ IsCopied(o)
  /\ Q.top = P.top
  /\ \A i \in DOMAIN P.states :
       IF i \in E
       THEN IsReplaced(P.states[i], Q.states[i], o.res, NewValue(P, o, i),
                       [o EXCEPT !.res = NewValue(P, o, i)])
       ELSE Q.states[i] = P.states[i]

Local(P, o) == NewStem(P, o.res)
Assign(P, o) == Op("assign", NoValue, <<Local(P, o), o.res>>, 0)

\* The value of the n-th operation of the state B is in a new variable, which the states in E read.
IsPromoted(P, Q, B, n, E, o) ==
  /\ Q.top = Append(P.top, Op("var", Local(P, o), <<>>, 0))
  /\ \A i \in DOMAIN P.states :
       /\ i \in E =>
            IsReplaced(P.states[i], Q.states[i], o.res, NewValue(P, o, i),
                       [Op("read", NoValue, <<Local(P, o)>>, 0) EXCEPT !.res = NewValue(P, o, i)])
       /\ i \notin E /\ i # B => Q.states[i] = P.states[i]
  /\ SameState(P.states[B], Q.states[B])
  /\ Q.states[B].ops = InsertAfter(P.states[B].ops, n, <<Assign(P, o)>>)

\* Op makes operations.
LEMMA OpTyped ==
  ASSUME NEW op \in OpKinds, NEW res \in Name, NEW args \in Seq(Name), NEW lit \in Nat
  PROVE  Op(op, res, args, lit) \in Operation
BY NoValueName DEF Op, Operation

\* Another body for one state.
LEMMA WithOpsFacts ==
  ASSUME NEW P \in ParserType, UniqueStates(P), NEW B \in DOMAIN P.states,
         NEW ops \in Seq(Operation), NEW Q, Q = WithOps(P, P.states[B].name, ops)
  PROVE  /\ SameRest(P, Q) /\ Q.top = P.top
         /\ \A i \in DOMAIN P.states : i # B => Q.states[i] = P.states[i]
         /\ SameState(P.states[B], Q.states[B]) /\ Q.states[B].ops = ops
<1> DEFINE s == [P.states[B] EXCEPT !.ops = ops]
           S == [P.states EXCEPT ![B] = s]
<1>1. P.states[B].name \in StateNames(P)
  BY DEF StateNames
<1>2. StateAt(P, P.states[B].name) = B
  BY <1>1, StateAtFacts
<1>3. P.states[B] \in StateType /\ P.states \in Seq(StateType)
  BY ParserFacts
<1>4. s \in StateType /\ SameState(P.states[B], s) /\ s.ops = ops
  BY <1>3 DEF StateType, SameState
<1>5. Q = [P EXCEPT !.states = S]
  BY <1>2 DEF WithOps
<1> HIDE DEF s
<1>6. /\ S \in Seq(StateType) /\ Len(S) = Len(P.states) /\ DOMAIN S = DOMAIN P.states
      /\ S[B] = s /\ \A i \in DOMAIN P.states : i # B => S[i] = P.states[i]
  <2>1. B \in 1..Len(P.states)
    BY <1>3, LenProperties
  <2>2. S \in Seq(StateType) /\ Len(S) = Len(P.states)
    BY <1>3, <1>4, <2>1, ExceptSeq
  <2> QED BY <2>2
<1> HIDE DEF S
<1>7. /\ Q \in ParserType /\ Q.states = S /\ Q.top = P.top
      /\ Q.params = P.params /\ Q.insts = P.insts /\ Q.start = P.start
  BY <1>5, <1>6 DEF ParserType
<1> QED BY <1>4, <1>6, <1>7 DEF SameRest, SameState

\* A declaration is added and nothing else.
LEMMA WithTop ==
  ASSUME NEW P \in ParserType, NEW o \in Operation, NEW Q,
         Q = [P EXCEPT !.top = Append(@, o)]
  PROVE  SameRest(P, Q) /\ Q.top = Append(P.top, o) /\ Q.states = P.states
<1>1. P.top \in Seq(Operation)
  BY ParserFacts
<1>2. Append(P.top, o) \in Seq(Operation)
  BY <1>1
<1> QED BY <1>2 DEF SameRest, ParserType

\* OpAt finds the position of an operation with a result.
LEMMA OpAtFacts ==
  ASSUME NEW ops, DefinedOnce(ops), NEW n \in DOMAIN ops, ops[n].res # NoValue
  PROVE  OpAt(ops, ops[n]) = n
<1>1. \E j \in DOMAIN ops : ops[j] = ops[n]
  OBVIOUS
<1> QED BY <1>1 DEF OpAt, DefinedOnce

\* Which of its cases AdjustUsesOf takes.
LEMMA AdjustUses ==
  ASSUME NEW P, NEW b, NEW o, NEW E, E = EscapingStates(P, b, o.res)
  PROVE  /\ o.res = NoValue \/ E = {} => AdjustUsesOf(P, b, o) = P
         /\ ~(o.res = NoValue \/ E = {}) =>
              /\ o.op = "var" => AdjustUsesOf(P, b, o) = MoveToTop(P, b, o)
              /\ o.op # "var" /\ IsCopied(o) => AdjustUsesOf(P, b, o) = CopyOp(P, o, E)
              /\ o.op # "var" /\ ~IsCopied(o) =>
                   AdjustUsesOf(P, b, o) = PromoteValToVar(P, b, o, E)
BY DEF AdjustUsesOf, IsCopied

\* CopyOp changes the states in E only.
LEMMA CopyFacts ==
  ASSUME NEW P \in ParserType, NEW E, NEW o \in Operation, NEW Q,
         Q = CopyOp(P, o, E)
  PROVE  SameRest(P, Q) /\ Q.top = P.top /\ IsRecomputed(P, Q, E, o.res, o)
<1>1. o.res \in Name
  BY OpFacts
<1> DEFINE old == o.res
<1>2. Q = Recompute(P, E, old, o)
  BY DEF CopyOp
<1>3. old \in Name
  BY <1>1
<1> HIDE DEF old
<1>4. SameRest(P, Q) /\ Q.top = P.top /\ IsRecomputed(P, Q, E, old, o)
  BY <1>2, <1>3, RecomputeFacts
<1> QED BY <1>4 DEF old

\* AdjustUsesOf leaves the parser as it is, or moves, copies or promotes the operation.
LEMMA AdjustCases ==
  ASSUME NEW P \in ParserType, UniqueStates(P), IsSSA(P), NEW B \in DOMAIN P.states,
         NEW n \in DOMAIN P.states[B].ops, NEW o, o = P.states[B].ops[n],
         NEW E, E = EscapingStates(P, P.states[B].name, o.res),
         NEW Q, Q = AdjustUsesOf(P, P.states[B].name, o)
  PROVE  \/ Q = P /\ (o.res = NoValue \/ E = {})
         \/ o.res # NoValue /\ SameRest(P, Q) /\ IsMoved(P, Q, B, n, o)
         \/ o.res # NoValue /\ SameRest(P, Q) /\ IsCopiedTo(P, Q, E, o)
         \/ o.res # NoValue /\ SameRest(P, Q) /\ IsPromoted(P, Q, B, n, E, o)
<1> DEFINE b == P.states[B].name
           ops == P.states[B].ops
<1>1. /\ b \in StateNames(P) /\ b \in Name /\ ops \in Seq(Operation) /\ o \in Operation
      /\ o.res \in Name /\ StateNamed(P, b).ops = ops
  <2>1. b \in StateNames(P)
    BY DEF StateNames
  <2>2. StateNamed(P, b) = P.states[B]
    BY <2>1, StateAtFacts
  <2>3. P.states[B] \in StateType
    BY ParserFacts
  <2> QED BY <2>1, <2>2, <2>3, StateFacts, OpFacts
<1>2. B \notin E
  BY DEF EscapingStates
<1>3. DefinedOnce(ops)
  BY DEF IsSSA
<1> HIDE DEF b
<1>4. CASE o.res = NoValue \/ E = {}
  BY <1>4, AdjustUses DEF b
<1>5. CASE ~(o.res = NoValue \/ E = {}) /\ o.op = "var"
  <2> DEFINE r == RemoveAt(ops, n)
             P1 == WithOps(P, b, r)
  <2>1. OpAt(ops, o) = n
    BY <1>3, <1>5, OpAtFacts
  <2>2. Q = MoveToTop(P, b, o)
    BY <1>5, AdjustUses DEF b
  <2>3. Q = [P1 EXCEPT !.top = Append(@, o)]
    BY <1>1, <2>1, <2>2 DEF MoveToTop
  <2>4. r \in Seq(Operation)
    BY <1>1, Removed
  <2> HIDE DEF r
  <2>5. /\ SameRest(P, P1) /\ P1.top = P.top
        /\ \A i \in DOMAIN P.states : i # B => P1.states[i] = P.states[i]
        /\ SameState(P.states[B], P1.states[B]) /\ P1.states[B].ops = r
    BY <2>4, WithOpsFacts DEF b
  <2> HIDE DEF P1
  <2>6. SameRest(P1, Q) /\ Q.top = Append(P1.top, o) /\ Q.states = P1.states
    <3>1. P1 \in ParserType
      BY <2>5 DEF SameRest
    <3> QED BY <1>1, <2>3, <3>1, WithTop
  <2>7. SameRest(P, Q)
    BY <2>5, <2>6 DEF SameRest
  <2>8. IsMoved(P, Q, B, n, o)
    BY <1>5, <2>5, <2>6 DEF IsMoved, r
  <2> QED BY <1>5, <2>7, <2>8
<1>6. CASE ~(o.res = NoValue \/ E = {}) /\ o.op # "var" /\ IsCopied(o)
  <2>1. Q = CopyOp(P, o, E)
    BY <1>6, AdjustUses DEF b
  <2>2. SameRest(P, Q) /\ Q.top = P.top /\ IsRecomputed(P, Q, E, o.res, o)
    <3>1. o \in Operation
      BY <1>1
    <3> QED BY ONLY P \in ParserType, <2>1, <3>1, CopyFacts
  <2>3. IsCopiedTo(P, Q, E, o)
    BY <1>6, <2>2 DEF IsRecomputed, IsCopiedTo, NewValue
  <2> QED BY <1>6, <2>2, <2>3
<1>7. CASE ~(o.res = NoValue \/ E = {}) /\ o.op # "var" /\ ~IsCopied(o)
  <2> DEFINE read == Op("read", NoValue, <<Local(P, o)>>, 0)
             var == Op("var", Local(P, o), <<>>, 0)
             r == InsertAfter(ops, n, <<Assign(P, o)>>)
             P1 == Recompute(P, E, o.res, read)
             P2 == WithOps(P1, b, r)
  <2>1. OpAt(ops, o) = n
    BY <1>3, <1>7, OpAtFacts
  <2>2. Q = PromoteValToVar(P, b, o, E)
    BY <1>7, AdjustUses DEF b
  <2>3. Q = [P2 EXCEPT !.top = Append(@, var)]
    <3> DEFINE now == StateNamed(P, b).ops
    <3>1. PromoteValToVar(P, b, o, E) =
            [WithOps(P1, b, InsertAfter(now, OpAt(now, o), <<Assign(P, o)>>))
               EXCEPT !.top = Append(@, var)]
      BY Zenon DEF PromoteValToVar, Local, Assign
    <3> HIDE DEF P1, var
    <3> QED BY <1>1, <2>1, <2>2, <3>1
  <2>4. Local(P, o) \in Name /\ read \in Operation /\ var \in Operation /\ Assign(P, o) \in Operation
    <3>1. Local(P, o) \in Name
      BY <1>1, NewStemFacts DEF Local
    <3>2. {"read", "var", "assign"} \subseteq OpKinds /\ 0 \in Nat
      BY DEF OpKinds
    <3>3. <<Local(P, o)>> \in Seq(Name) /\ <<Local(P, o), o.res>> \in Seq(Name) /\ <<>> \in Seq(Name)
      BY <1>1, <3>1
    <3> QED BY <3>1, <3>2, <3>3, <1>1, NoValueName, OpTyped DEF Assign
  <2>5. r \in Seq(Operation)
    <3>1. <<Assign(P, o)>> \in Seq(Operation)
      BY <2>4
    <3>2. n \in 0..Len(ops)
      BY <1>1, LenProperties
    <3> QED BY <1>1, <3>1, <3>2, Inserted
  <2> HIDE DEF r, var, read
  <2>6. SameRest(P, P1) /\ P1.top = P.top /\ IsRecomputed(P, P1, E, o.res, read)
    BY <1>1, <2>4, RecomputeFacts
  <2> HIDE DEF P1
  <2>7. UniqueStates(P1) /\ B \in DOMAIN P1.states /\ b = P1.states[B].name
    <3>1. \A i \in DOMAIN P.states : P1.states[i].name = P.states[i].name
      BY <2>6 DEF IsRecomputed, IsReplaced
    <3> QED BY <2>6, <3>1 DEF SameRest, UniqueStates, b
  <2>8. /\ SameRest(P1, P2) /\ P2.top = P1.top
        /\ \A i \in DOMAIN P1.states : i # B => P2.states[i] = P1.states[i]
        /\ SameState(P1.states[B], P2.states[B]) /\ P2.states[B].ops = r
    <3>1. P1 \in ParserType
      BY <2>6 DEF SameRest
    <3> QED BY <2>5, <2>7, <3>1, WithOpsFacts
  <2> HIDE DEF P2
  <2>9. SameRest(P2, Q) /\ Q.top = Append(P2.top, var) /\ Q.states = P2.states
    <3>1. P2 \in ParserType
      BY <2>8 DEF SameRest
    <3> QED BY <2>3, <2>4, <3>1, WithTop
  <2>10. SameRest(P, Q)
    BY <2>6, <2>8, <2>9 DEF SameRest
  <2>11. P1.states[B] = P.states[B]
    BY <1>2, <2>6 DEF IsRecomputed
  <2>12. IsPromoted(P, Q, B, n, E, o)
    <3>1. Q.top = Append(P.top, var)
      BY <2>6, <2>8, <2>9
    <3>2. /\ SameState(P.states[B], Q.states[B]) /\ Q.states[B].ops = r
      BY <2>8, <2>9, <2>11
    <3>3. ASSUME NEW i \in E, i \in DOMAIN P.states
          PROVE  IsReplaced(P.states[i], Q.states[i], o.res, NewValue(P, o, i),
                            [read EXCEPT !.res = NewValue(P, o, i)])
      <4>1. Q.states[i] = P1.states[i]
        BY <1>2, <2>6, <2>8, <2>9, <3>3 DEF SameRest
      <4> QED BY <2>6, <3>3, <4>1 DEF IsRecomputed, NewValue
    <3>4. \A i \in DOMAIN P.states : i \notin E /\ i # B => Q.states[i] = P.states[i]
      BY <2>6, <2>8, <2>9 DEF IsRecomputed, SameRest
    <3> QED BY <3>1, <3>2, <3>3, <3>4 DEF IsPromoted, r, var, read
  <2> QED BY <1>7, <2>10, <2>12
<1> QED BY <1>4, <1>5, <1>6, <1>7

-----------------------------------------------------------------------------
(* What moving, copying and promoting keep *)

\* What the pass looks at in a call.
CallOf(o) == [res |-> o.res, inst |-> o.inst, deep |-> o.deep, arity |-> Len(o.args)]
Calls(s) == {CallOf(s.ops[j]) : j \in {n \in DOMAIN s.ops : s.ops[n].op = "apply"}}

\* The states of P have the same calls in Q.
SameCalls(P, Q) == \A i \in DOMAIN P.states : Calls(Q.states[i]) = Calls(P.states[i])

\* States that have each other's calls have the same calls.
LEMMA CallsBy ==
  ASSUME NEW s, NEW t,
         \A j \in DOMAIN s.ops : s.ops[j].op = "apply" =>
           \E i \in DOMAIN t.ops : t.ops[i].op = "apply" /\ CallOf(t.ops[i]) = CallOf(s.ops[j]),
         \A j \in DOMAIN t.ops : t.ops[j].op = "apply" =>
           \E i \in DOMAIN s.ops : s.ops[i].op = "apply" /\ CallOf(s.ops[i]) = CallOf(t.ops[j])
  PROVE  Calls(t) = Calls(s)
BY DEF Calls

\* A position of a longer sequence is its first one or follows one of the shorter.
LEMMA IndexPlusOne ==
  ASSUME NEW n \in Nat, NEW j \in 1..n + 1
  PROVE  j = 1 \/ \E i \in 1..n : j = i + 1
<1>1. CASE j # 1
  <2>1. j - 1 \in 1..n /\ j = (j - 1) + 1
    BY <1>1
  <2> QED BY <2>1
<1> QED BY <1>1

\* The state t has the results of s and a new one, and the calls of s.
IsExtended(s, t, new) ==
  /\ Calls(t) = Calls(s)
  /\ Results(t.ops) = Results(s.ops) \cup {new}
  /\ DefinedOnce(s.ops) /\ new \notin Results(s.ops) => DefinedOnce(t.ops)

\* A state that recomputes a value has one more result and no other call.
LEMMA ReplacedFacts ==
  ASSUME NEW s \in StateType, NEW t \in StateType, NEW old, NEW new, NEW m,
         IsReplaced(s, t, old, new, m), m.res = new, new # NoValue, m.op # "apply"
  PROVE  IsExtended(s, t, new)
<1> USE DEF IsReplaced
<1>1. /\ Len(s.ops) \in Nat /\ DOMAIN s.ops = 1..Len(s.ops)
      /\ \A j \in DOMAIN s.ops : j + 1 \in DOMAIN t.ops
      /\ 1 \in DOMAIN t.ops
  BY StateFacts
<1>2. \A j \in DOMAIN t.ops : j = 1 \/ \E i \in DOMAIN s.ops : j = i + 1
  BY <1>1, IndexPlusOne
<1>3. \A j \in DOMAIN s.ops :
        /\ t.ops[j + 1].op = s.ops[j].op /\ t.ops[j + 1].res = s.ops[j].res
        /\ CallOf(t.ops[j + 1]) = CallOf(s.ops[j])
  BY DEF IsSwapped, CallOf
<1>4. t.ops[1].res = new /\ t.ops[1].op # "apply"
  OBVIOUS
<1> USE DEF Results
<1>5. Calls(t) = Calls(s)
  <2>1. \A j \in DOMAIN s.ops : s.ops[j].op = "apply" =>
           \E i \in DOMAIN t.ops : t.ops[i].op = "apply" /\ CallOf(t.ops[i]) = CallOf(s.ops[j])
    BY <1>1, <1>3
  <2>2. \A j \in DOMAIN t.ops : t.ops[j].op = "apply" =>
           \E i \in DOMAIN s.ops : s.ops[i].op = "apply" /\ CallOf(s.ops[i]) = CallOf(t.ops[j])
    BY <1>2, <1>3, <1>4
  <2> QED BY <2>1, <2>2, CallsBy
<1>6. Results(t.ops) = Results(s.ops) \cup {new}
  <2>1. ASSUME NEW v \in Results(t.ops) PROVE v \in Results(s.ops) \cup {new}
    <3>1. PICK j \in DOMAIN t.ops : t.ops[j].res = v /\ v # NoValue
      BY DEF Results
    <3> QED BY <1>2, <1>3, <1>4, <3>1 DEF Results
  <2>2. ASSUME NEW v \in Results(s.ops) PROVE v \in Results(t.ops)
    <3>1. PICK j \in DOMAIN s.ops : s.ops[j].res = v /\ v # NoValue
      BY DEF Results
    <3> QED BY <1>1, <1>3, <3>1 DEF Results
  <2>3. new \in Results(t.ops)
    BY <1>1, <1>4 DEF Results
  <2> QED BY <2>1, <2>2, <2>3
<1>7. ASSUME DefinedOnce(s.ops), new \notin Results(s.ops) PROVE DefinedOnce(t.ops)
  <2> SUFFICES ASSUME NEW j \in DOMAIN t.ops, NEW k \in DOMAIN t.ops,
                      t.ops[j].res = t.ops[k].res, t.ops[j].res # NoValue
               PROVE  j = k
    BY DEF DefinedOnce
  <2>1. \A i \in DOMAIN s.ops : s.ops[i].res # new
    BY <1>7 DEF Results
  <2>2. CASE j = 1 \/ k = 1
    BY <1>2, <1>3, <1>4, <2>1, <2>2
  <2>3. CASE j # 1 /\ k # 1
    BY <1>2, <1>3, <1>7, <2>3 DEF DefinedOnce
  <2> QED BY <2>2, <2>3
<1> QED BY <1>5, <1>6, <1>7 DEF IsExtended

\* What a sequence of operations with one more at its end is.
IsAppended(new, ops, o) ==
  /\ new \in Seq(Operation)
  /\ ToSet(new) = ToSet(ops) \cup {o}
  /\ Results(new) = Results(ops) \cup ({o.res} \ {NoValue})
  /\ DefinedOnce(ops) /\ o.res \notin Results(ops) => DefinedOnce(new)

\* Append has that property.
LEMMA AppendFacts ==
  ASSUME NEW ops \in Seq(Operation), NEW o \in Operation, NEW new, new = Append(ops, o)
  PROVE  IsAppended(new, ops, o)
<1>1. /\ new \in Seq(Operation) /\ Len(ops) \in Nat /\ DOMAIN new = 1..Len(ops) + 1
      /\ DOMAIN ops = 1..Len(ops)
      /\ new[Len(ops) + 1] = o /\ \A i \in DOMAIN ops : new[i] = ops[i]
  OBVIOUS
<1>2. \A i \in DOMAIN new : i \in DOMAIN ops \/ i = Len(ops) + 1
  BY <1>1
<1>3. \A i \in DOMAIN ops : i \in DOMAIN new
  BY <1>1
<1>4. Len(ops) + 1 \in DOMAIN new
  BY <1>1
<1> QED BY <1>1, <1>2, <1>3, <1>4 DEF IsAppended, ToSet, Results, DefinedOnce

\* The value of an operation for a state that does not have it.
LEMMA NewValueFacts ==
  ASSUME NEW P \in ParserType, UniqueStates(P), NEW o \in Operation
  PROVE  /\ Local(P, o) \in Name /\ Local(P, o) # NoValue
         /\ Local(P, o) \notin ValuesOf(P) /\ Begins(Local(P, o), o.res)
         /\ \A i \in DOMAIN P.states :
              /\ NewValue(P, o, i) \in Name /\ NewValue(P, o, i) # NoValue
              /\ NewValue(P, o, i) \notin ValuesOf(P)
              /\ Begins(NewValue(P, o, i), o.res)
              /\ P.states[i].name # <<>> => NewValue(P, o, i) # Local(P, o)
              /\ \A k \in DOMAIN P.states : NewValue(P, o, i) = NewValue(P, o, k) => i = k
<1>1. o.res \in Name
  BY OpFacts
<1>2. /\ Local(P, o) \in Name /\ Local(P, o) # NoValue /\ Begins(Local(P, o), o.res)
      /\ \A v \in ValuesOf(P) : ~Begins(v, Local(P, o))
  BY <1>1, NewStemFacts DEF Local, NoValue
<1>3. Local(P, o) \notin ValuesOf(P)
  <2>1. Len(Local(P, o)) \in Nat
    BY <1>2, NameEmpty
  <2> QED BY <1>2, <2>1, BeginsSelf
<1>4. ASSUME NEW i \in DOMAIN P.states
      PROVE  /\ NewValue(P, o, i) \in Name /\ NewValue(P, o, i) # NoValue
             /\ NewValue(P, o, i) \notin ValuesOf(P)
             /\ Begins(NewValue(P, o, i), o.res)
             /\ P.states[i].name # <<>> => NewValue(P, o, i) # Local(P, o)
             /\ \A k \in DOMAIN P.states : NewValue(P, o, i) = NewValue(P, o, k) => i = k
  <2>1. NewValue(P, o, i) = Local(P, o) \o P.states[i].name /\ P.states[i].name \in Name
    BY ParserFacts DEF NewValue, Local
  <2>2. NewValue(P, o, i) \in Name /\ Begins(NewValue(P, o, i), Local(P, o))
    BY <1>2, <2>1, BeginsConcat
  <2>3. Begins(NewValue(P, o, i), o.res)
    BY <1>1, <1>2, <2>2, BeginsTrans
  <2>4. /\ Len(NewValue(P, o, i)) = Len(Local(P, o)) + Len(P.states[i].name)
        /\ Len(Local(P, o)) \in Nat /\ Len(Local(P, o)) # 0
        /\ Len(P.states[i].name) \in Nat
        /\ P.states[i].name # <<>> => Len(P.states[i].name) # 0
    <3>1. Len(Local(P, o) \o P.states[i].name) = Len(Local(P, o)) + Len(P.states[i].name)
      BY <1>2, <2>1, NameConcat
    <3>2. Len(Local(P, o)) \in Nat /\ Len(Local(P, o)) # 0
      BY <1>2, NameEmpty DEF NoValue
    <3>3. /\ Len(P.states[i].name) \in Nat
          /\ P.states[i].name # <<>> => Len(P.states[i].name) # 0
      BY <2>1, NameEmpty
    <3> QED BY <2>1, <3>1, <3>2, <3>3
  <2>5. NewValue(P, o, i) # NoValue
    BY <2>4 DEF NoValue
  <2>6. \A k \in DOMAIN P.states : NewValue(P, o, i) = NewValue(P, o, k) => i = k
    <3>1. \A k \in DOMAIN P.states :
            P.states[k].name \in Name /\ NewValue(P, o, k) = Local(P, o) \o P.states[k].name
      BY ParserFacts DEF NewValue, Local
    <3>2. \A k \in DOMAIN P.states :
            NewValue(P, o, i) = NewValue(P, o, k) => P.states[i].name = P.states[k].name
      BY <1>2, <2>1, <3>1, SamePrefix
    <3> QED BY <3>2 DEF UniqueStates
  <2> QED BY <1>2, <2>2, <2>3, <2>4, <2>5, <2>6
<1> QED BY <1>2, <1>3, <1>4

\* Code with new values only.
LEMMA FreshSSA ==
  ASSUME NEW P \in ParserType, NEW Q \in ParserType, IsSSA(P), Q.params = P.params,
         DOMAIN Q.states = DOMAIN P.states, NEW G, G \cap ValuesOf(P) = {}, NEW N,
         Results(Q.top) = Results(P.top) \cup G, DefinedOnce(Q.top),
         \A i \in DOMAIN P.states :
           /\ DefinedOnce(Q.states[i].ops)
           /\ N[i] \notin ValuesOf(P) \cup G
           /\ \A k \in DOMAIN P.states : N[i] = N[k] => i = k
           /\ Results(Q.states[i].ops) \subseteq Results(P.states[i].ops) \cup {N[i]}
  PROVE  IsSSA(Q)
<1> DEFINE outer == ToSet(Q.params) \cup Results(Q.top)
<1>1. /\ ToSet(P.params) \subseteq ValuesOf(P) /\ Results(P.top) \subseteq ValuesOf(P)
      /\ \A i \in DOMAIN P.states : Results(P.states[i].ops) \subseteq ValuesOf(P)
  BY ValuesFacts
<1>2. /\ IsInjective(Q.params) /\ ToSet(P.params) \cap Results(P.top) = {}
      /\ \A i \in DOMAIN P.states :
            /\ Results(P.states[i].ops) \cap (ToSet(P.params) \cup Results(P.top)) = {}
            /\ \A k \in DOMAIN P.states :
                 Results(P.states[i].ops) \cap Results(P.states[k].ops) # {} => i = k
  BY DEF IsSSA
<1>3. ToSet(Q.params) \cap Results(Q.top) = {}
  BY <1>1, <1>2
<1>4. ASSUME NEW i \in DOMAIN Q.states PROVE Results(Q.states[i].ops) \cap outer = {}
  BY <1>1, <1>2
<1>5. ASSUME NEW i \in DOMAIN Q.states, NEW k \in DOMAIN Q.states,
             Results(Q.states[i].ops) \cap Results(Q.states[k].ops) # {}
      PROVE  i = k
  <2>1. PICK v : v \in Results(Q.states[i].ops) /\ v \in Results(Q.states[k].ops)
    BY <1>5
  <2>2. /\ v \in Results(P.states[i].ops) \/ v = N[i]
        /\ v \in Results(P.states[k].ops) \/ v = N[k]
    BY <2>1
  <2>3. CASE v = N[i] \/ v = N[k]
    BY <1>1, <2>2, <2>3
  <2>4. CASE v \in Results(P.states[i].ops) /\ v \in Results(P.states[k].ops)
    BY <1>2, <2>4
  <2> QED BY <2>2, <2>3, <2>4
<1> QED BY <1>2, <1>3, <1>4, <1>5 DEF IsSSA

\* HasKinds for an operation of a state.
KindFits(o) ==
  /\ o.op \in {"apply", "const", "ctor", "var"} => o.res # NoValue
  /\ o.op \in {"const", "ctor", "var"} => o.args = <<>>
KindsFit(s) == \A j \in DOMAIN s.ops : KindFits(s.ops[j])

\* HasKinds, state by state.
LEMMA KindsFacts ==
  ASSUME NEW P
  PROVE  HasKinds(P) <=>
           /\ \A o \in ToSet(P.top) :
                o.op # "apply" /\ (o.op \in {"const", "ctor", "var"} => o.args = <<>> /\ o.res # NoValue)
           /\ \A i \in DOMAIN P.states : KindsFit(P.states[i])
BY DEF HasKinds, KindsFit, KindFits, ToSet

\* What a state without an operation that is no call keeps.
LEMMA RemovedFacts ==
  ASSUME NEW s \in StateType, NEW t \in StateType, NEW n \in DOMAIN s.ops,
         s.ops[n].op # "apply", t.ops = RemoveAt(s.ops, n)
  PROVE  /\ Calls(t) = Calls(s)
         /\ ToSet(t.ops) \subseteq ToSet(s.ops)
         /\ KindsFit(s) => KindsFit(t)
         /\ DefinedOnce(s.ops) => /\ DefinedOnce(t.ops)
                                  /\ Results(t.ops) = Results(s.ops) \ {s.ops[n].res}
         /\ \A m \in 1..n - 1 : m \in DOMAIN t.ops /\ t.ops[m] = s.ops[m]
<1>1. /\ s.ops \in Seq(Operation) /\ t.ops \in Seq(Operation) /\ Len(s.ops) \in Nat
      /\ DOMAIN s.ops = 1..Len(s.ops)
  BY StateFacts
<1>2. IsRemoved(t.ops, s.ops, n)
  BY <1>1, Removed
<1>3. \A m \in DOMAIN t.ops : \E j \in DOMAIN s.ops :
        j # n /\ t.ops[m] = s.ops[j] /\ (m < n => j = m) /\ (m >= n => j = m + 1) /\ m \in Nat
  <2> TAKE m \in DOMAIN t.ops
  <2>1. CASE m \in 1..n - 1
    <3>1. m \in DOMAIN s.ops /\ m < n /\ ~(m >= n) /\ m \in Nat /\ m # n
      BY <1>1, <2>1
    <3>2. t.ops[m] = s.ops[m]
      BY <1>2, <2>1 DEF IsRemoved
    <3> QED BY <3>1, <3>2
  <2>2. CASE m + 1 \in n + 1..Len(s.ops)
    <3>0. m \in Int
      BY <1>1, SeqFacts
    <3>1. m + 1 \in DOMAIN s.ops /\ m + 1 # n /\ m >= n /\ ~(m < n) /\ m \in Nat /\ (m + 1) - 1 = m
      BY <1>1, <2>2, <3>0
    <3>2. t.ops[(m + 1) - 1] = s.ops[m + 1]
      BY <1>2, <2>2 DEF IsRemoved
    <3> QED BY <3>1, <3>2
  <2> QED BY <1>2, <2>1, <2>2 DEF IsRemoved
<1>4. \A j \in DOMAIN s.ops : j # n => \E m \in DOMAIN t.ops : t.ops[m] = s.ops[j]
  <2> TAKE j \in DOMAIN s.ops
  <2>1. CASE j < n
    BY <1>1, <1>2, <2>1 DEF IsRemoved
  <2>2. CASE j > n
    BY <1>1, <1>2, <2>2 DEF IsRemoved
  <2> QED BY <1>1, <2>1, <2>2
<1>5. Calls(t) = Calls(s)
  BY <1>3, <1>4, CallsBy
<1>6. ToSet(t.ops) \subseteq ToSet(s.ops)
  BY <1>3 DEF ToSet
<1>7. KindsFit(s) => KindsFit(t)
  BY <1>3 DEF KindsFit
<1>8. ASSUME DefinedOnce(s.ops)
      PROVE  DefinedOnce(t.ops) /\ Results(t.ops) = Results(s.ops) \ {s.ops[n].res}
  <2>1. DefinedOnce(t.ops)
    <3> SUFFICES ASSUME NEW a \in DOMAIN t.ops, NEW b \in DOMAIN t.ops,
                        t.ops[a].res = t.ops[b].res, t.ops[a].res # NoValue
                 PROVE  a = b
      BY DEF DefinedOnce
    <3>1. PICK j \in DOMAIN s.ops : 
            j # n /\ t.ops[a] = s.ops[j] /\ (a < n => j = a) /\ (a >= n => j = a + 1) /\ a \in Nat
      BY <1>3
    <3>2. PICK k \in DOMAIN s.ops : 
            k # n /\ t.ops[b] = s.ops[k] /\ (b < n => k = b) /\ (b >= n => k = b + 1) /\ b \in Nat
      BY <1>3
    <3>3. j = k
      BY <1>8, <3>1, <3>2 DEF DefinedOnce
    <3> QED BY <1>1, <3>1, <3>2, <3>3
  <2>2. ASSUME NEW v \in Results(t.ops) PROVE v \in Results(s.ops) \ {s.ops[n].res}
    <3>1. PICK m \in DOMAIN t.ops : t.ops[m].res = v /\ v # NoValue
      BY DEF Results
    <3>2. PICK j \in DOMAIN s.ops : j # n /\ t.ops[m] = s.ops[j]
      BY <1>3
    <3> QED BY <1>8, <3>1, <3>2 DEF Results, DefinedOnce
  <2>3. ASSUME NEW v \in Results(s.ops) \ {s.ops[n].res} PROVE v \in Results(t.ops)
    <3>1. PICK j \in DOMAIN s.ops : s.ops[j].res = v /\ v # NoValue
      BY DEF Results
    <3>2. j # n
      BY <2>3, <3>1
    <3> QED BY <1>4, <3>1, <3>2 DEF Results
  <2> QED BY <2>1, <2>2, <2>3
<1> QED BY <1>2, <1>5, <1>6, <1>7, <1>8 DEF IsRemoved

\* What a state with an assignment more keeps.
LEMMA InsertedFacts ==
  ASSUME NEW s \in StateType, NEW t \in StateType, NEW n \in DOMAIN s.ops,
         NEW a \in Operation, a.op = "assign", a.res = NoValue,
         t.ops = InsertAfter(s.ops, n, <<a>>)
  PROVE  /\ Calls(t) = Calls(s)
         /\ KindsFit(s) => KindsFit(t)
         /\ Results(t.ops) = Results(s.ops)
         /\ DefinedOnce(s.ops) => DefinedOnce(t.ops)
         /\ \A m \in 1..n : m \in DOMAIN t.ops /\ t.ops[m] = s.ops[m]
<1> DEFINE e == <<a>>
<1>1. /\ s.ops \in Seq(Operation) /\ t.ops \in Seq(Operation) /\ Len(s.ops) \in Nat
      /\ DOMAIN s.ops = 1..Len(s.ops)
  BY StateFacts
<1>0. e \in Seq(Operation) /\ Len(e) = 1 /\ DOMAIN e = {1} /\ e[1] = a
  OBVIOUS
<1>2. IsInserted(t.ops, s.ops, e, n)
  <2>1. n \in 0..Len(s.ops)
    BY <1>1
  <2> HIDE DEF e
  <2>2. t.ops = InsertAfter(s.ops, n, e)
    BY DEF e
  <2> QED BY <1>0, <1>1, <2>1, <2>2, Inserted
<1> HIDE DEF e
<1>3. \A m \in DOMAIN t.ops : t.ops[m] = a \/ \E j \in DOMAIN s.ops :
        t.ops[m] = s.ops[j] /\ (m <= n => j = m) /\ (m > n => j = m - 1) /\ m \in Nat
  <2> TAKE m \in DOMAIN t.ops
  <2>1. CASE m \in 1..n
    <3>1. m \in DOMAIN s.ops /\ m <= n /\ ~(m > n) /\ m \in Nat
      BY <1>1, <2>1
    <3>2. t.ops[m] = s.ops[m]
      BY <1>2, <2>1 DEF IsInserted
    <3> QED BY <3>1, <3>2
  <2>2. CASE \E j \in DOMAIN e : m = n + j
    BY <1>0, <1>2, <2>2 DEF IsInserted
  <2>3. CASE \E j \in n + 1..Len(s.ops) : m = j + Len(e)
    <3>1. PICK j \in n + 1..Len(s.ops) : m = j + 1
      BY <1>0, <2>3
    <3>2. j \in DOMAIN s.ops /\ m > n /\ ~(m <= n) /\ m \in Nat /\ j = m - 1
      BY <1>1, <3>1
    <3>3. t.ops[j + Len(e)] = s.ops[j]
      BY <1>2, <3>1 DEF IsInserted
    <3> QED BY <1>0, <3>1, <3>2, <3>3
  <2> QED BY <1>2, <2>1, <2>2, <2>3 DEF IsInserted
<1>4. \A j \in DOMAIN s.ops : \E m \in DOMAIN t.ops : t.ops[m] = s.ops[j]
  <2> TAKE j \in DOMAIN s.ops
  <2>1. CASE j <= n
    BY <1>1, <1>2, <2>1 DEF IsInserted
  <2>2. CASE j > n
    BY <1>0, <1>1, <1>2, <2>2 DEF IsInserted
  <2> QED BY <1>1, <2>1, <2>2
<1>5. Calls(t) = Calls(s)
  BY <1>3, <1>4, CallsBy
<1>6. KindsFit(s) => KindsFit(t)
  BY <1>3 DEF KindsFit, KindFits
<1>7. Results(t.ops) = Results(s.ops)
  <2>2. ASSUME NEW v \in Results(t.ops) PROVE v \in Results(s.ops)
    <3>1. PICK m \in DOMAIN t.ops : t.ops[m].res = v /\ v # NoValue
      BY DEF Results
    <3>2. PICK j \in DOMAIN s.ops : t.ops[m] = s.ops[j]
      BY <1>3, <3>1
    <3> QED BY <3>1, <3>2 DEF Results
  <2>3. ASSUME NEW v \in Results(s.ops) PROVE v \in Results(t.ops)
    <3>1. PICK j \in DOMAIN s.ops : s.ops[j].res = v /\ v # NoValue
      BY DEF Results
    <3> QED BY <1>4, <3>1 DEF Results
  <2> QED BY <2>2, <2>3
<1>8. ASSUME DefinedOnce(s.ops) PROVE DefinedOnce(t.ops)
  <2> SUFFICES ASSUME NEW x \in DOMAIN t.ops, NEW y \in DOMAIN t.ops,
                        t.ops[x].res = t.ops[y].res, t.ops[x].res # NoValue
                 PROVE  x = y
    BY DEF DefinedOnce
  <2>1. PICK j \in DOMAIN s.ops : 
            t.ops[x] = s.ops[j] /\ (x <= n => j = x) /\ (x > n => j = x - 1) /\ x \in Nat
    BY <1>3
  <2>2. PICK k \in DOMAIN s.ops : 
            t.ops[y] = s.ops[k] /\ (y <= n => k = y) /\ (y > n => k = y - 1) /\ y \in Nat
    BY <1>3
  <2>3. j = k
    BY <1>8, <2>1, <2>2 DEF DefinedOnce
  <2>4. x # n + 1 /\ y # n + 1
    <3>1. t.ops[n + 1] = a
      BY <1>0, <1>2 DEF IsInserted
    <3> QED BY <3>1
  <2> QED BY <1>1, <2>1, <2>2, <2>3, <2>4
<1> QED BY <1>2, <1>5, <1>6, <1>7, <1>8 DEF IsInserted

\* The only sequence without elements is the empty one.
LEMMA EmptySeqName == \A S : \A x \in Seq(S) : x = <<>> <=> Len(x) = 0
BY EmptySeq

\* A state that recomputes a value keeps the kinds of its operations.
LEMMA ReplacedKinds ==
  ASSUME NEW s \in StateType, NEW t \in StateType, NEW old, NEW new, NEW m,
         IsReplaced(s, t, old, new, m), KindFits(m), KindsFit(s)
  PROVE  KindsFit(t)
<1>1. /\ Len(s.ops) \in Nat /\ DOMAIN s.ops = 1..Len(s.ops)
      /\ DOMAIN t.ops = 1..Len(s.ops) + 1 /\ t.ops[1] = m
  BY StateFacts DEF IsReplaced
<1>2. ASSUME NEW j \in DOMAIN s.ops PROVE KindFits(t.ops[j + 1])
  <2>1. j + 1 \in DOMAIN t.ops
    BY <1>1
  <2>2. s.ops[j].args \in Seq(Name) /\ t.ops[j + 1].args \in Seq(Name)
    BY <2>1, StateFacts, OpFacts
  <2>3. KindFits(s.ops[j]) /\ IsSwapped(s.ops[j], t.ops[j + 1], old, new)
    BY DEF KindsFit, IsReplaced
  <2>4. s.ops[j].args = <<>> => t.ops[j + 1].args = <<>>
    BY <2>2, <2>3, EmptySeqName DEF IsSwapped
  <2> QED BY <2>3, <2>4 DEF KindFits, IsSwapped
<1>3. \A j \in DOMAIN t.ops : j = 1 \/ \E i \in DOMAIN s.ops : j = i + 1
  BY <1>1, IndexPlusOne
<1> QED BY <1>1, <1>2, <1>3 DEF KindsFit

-----------------------------------------------------------------------------
(* What adjusting keeps *)

\* As the state was created for a split.
IsUnfinished(s) == s.ops = <<>> /\ s.next = Missing

\* From P to Q code has moved and new values have come, but no call, no
\* transition and no declaration has changed.
Keeps(P, Q, B) ==
  /\ SameRest(P, Q)
  /\ \A i \in DOMAIN P.states :
       /\ Q.states[i].name = P.states[i].name
       /\ Q.states[i].next.kind = P.states[i].next.kind
       /\ Q.states[i].next.targets = P.states[i].next.targets
       /\ Calls(Q.states[i]) = Calls(P.states[i])
       /\ i # B /\ IsUnfinished(P.states[i]) => Q.states[i] = P.states[i]
  /\ ToSet(P.top) \subseteq ToSet(Q.top)
  /\ \A q \in ToSet(Q.top) : q \in ToSet(P.top) \/ q.op = "var"
  /\ IsSSA(Q) /\ HasKinds(Q)
  /\ \A v \in ValuesOf(Q) : \E u \in ValuesOf(P) : Begins(v, u)

\* The operations of the block before the n-th one are the same, too.
KeepsUpTo(P, Q, B, n) ==
  /\ Keeps(P, Q, B)
  /\ \A m \in 1..n - 1 : m \in DOMAIN Q.states[B].ops /\ Q.states[B].ops[m] = P.states[B].ops[m]

\* Nothing has changed in P itself.
LEMMA KeepsSelf ==
  ASSUME NEW P \in ParserType, IsSSA(P), HasKinds(P), NEW B
  PROVE  Keeps(P, P, B)
<1>1. \A v \in ValuesOf(P) : Begins(v, v)
  BY ValuesFacts, NameEmpty, BeginsSelf
<1> QED BY <1>1 DEF Keeps, SameRest

\* What two adjustments keep one after the other is kept.
LEMMA KeepsTrans ==
  ASSUME NEW P \in ParserType, NEW Q, NEW R, NEW B, Keeps(P, Q, B), Keeps(Q, R, B)
  PROVE  Keeps(P, R, B)
<1>1. SameRest(P, R) /\ Q \in ParserType /\ R \in ParserType /\ DOMAIN Q.states = DOMAIN P.states
  BY DEF Keeps, SameRest
<1>2. \A v \in ValuesOf(R) : \E u \in ValuesOf(P) : Begins(v, u)
  <2> TAKE v \in ValuesOf(R)
  <2>1. PICK w \in ValuesOf(Q) : Begins(v, w)
    BY DEF Keeps
  <2>2. PICK u \in ValuesOf(P) : Begins(w, u)
    BY DEF Keeps
  <2>3. v \in Name /\ w \in Name /\ u \in Name
    BY <1>1, ValuesFacts
  <2> QED BY <2>1, <2>2, <2>3, BeginsTrans
<1>3. ASSUME NEW i \in DOMAIN P.states
      PROVE  /\ R.states[i].name = P.states[i].name
             /\ R.states[i].next.kind = P.states[i].next.kind
             /\ R.states[i].next.targets = P.states[i].next.targets
             /\ Calls(R.states[i]) = Calls(P.states[i])
             /\ i # B /\ IsUnfinished(P.states[i]) => R.states[i] = P.states[i]
  BY <1>1 DEF Keeps
<1>4. /\ ToSet(P.top) \subseteq ToSet(R.top) /\ IsSSA(R) /\ HasKinds(R)
      /\ \A q \in ToSet(R.top) : q \in ToSet(P.top) \/ q.op = "var"
  BY DEF Keeps
<1> QED BY <1>1, <1>2, <1>3, <1>4 DEF Keeps

\* An unfinished state uses, calls and computes nothing.
LEMMA UnfinishedUses ==
  ASSUME NEW s, IsUnfinished(s)
  PROVE  UsesIn(s) = {} /\ Calls(s) = {} /\ Results(s.ops) = {}
BY DEF UsesIn, IsUnfinished, Missing, NextTo, Calls, Results

\* The uses of a value outside its block are not in the block and not in unfinished states.
LEMMA EscapingFacts ==
  ASSUME NEW P, NEW B \in DOMAIN P.states, NEW v, NEW E,
         E = EscapingStates(P, P.states[B].name, v)
  PROVE  /\ E \subseteq DOMAIN P.states /\ B \notin E
         /\ \A i \in E : ~IsUnfinished(P.states[i])
BY UnfinishedUses DEF EscapingStates

\* Where the values of the code after the step begin.
LEMMA ValuesBegin ==
  ASSUME NEW P \in ParserType, NEW Q \in ParserType, Q.params = P.params,
         DOMAIN Q.states = DOMAIN P.states, NEW w \in ValuesOf(P),
         \A v \in Results(Q.top) : v \in ValuesOf(P) \/ Begins(v, w),
         \A i \in DOMAIN P.states : \A v \in Results(Q.states[i].ops) :
           v \in ValuesOf(P) \/ Begins(v, w)
  PROVE  \A v \in ValuesOf(Q) : \E u \in ValuesOf(P) : Begins(v, u)
<1> TAKE v \in ValuesOf(Q)
<1>1. v \in ValuesOf(P) \/ Begins(v, w)
  BY ValuesFacts
<1>2. v \in ValuesOf(P) => Begins(v, v)
  BY ValuesFacts, NameEmpty, BeginsSelf
<1> QED BY <1>1, <1>2

\* To move a declaration keeps the code.
LEMMA MovedKeeps ==
  ASSUME NEW P \in ParserType, IsSSA(P), HasKinds(P), NEW B \in DOMAIN P.states,
         NEW n \in DOMAIN P.states[B].ops, NEW o, o = P.states[B].ops[n], o.res # NoValue,
         NEW Q, SameRest(P, Q), IsMoved(P, Q, B, n, o)
  PROVE  KeepsUpTo(P, Q, B, n)
<1> DEFINE s == P.states[B]
           t == Q.states[B]
<1>1. /\ Q \in ParserType /\ Q.params = P.params /\ DOMAIN Q.states = DOMAIN P.states
      /\ s \in StateType /\ t \in StateType
      /\ P.top \in Seq(Operation) /\ Q.top \in Seq(Operation)
      /\ \A i \in DOMAIN P.states : P.states[i] \in StateType /\ Q.states[i] \in StateType
  BY ParserFacts DEF SameRest
<1>2. o \in Operation
  BY <1>1, StateFacts
<1>3. /\ o.op = "var" /\ o.op # "apply" /\ Q.top = Append(P.top, o)
      /\ \A i \in DOMAIN P.states : i # B => Q.states[i] = P.states[i]
      /\ SameState(s, t) /\ t.ops = RemoveAt(s.ops, n)
  BY DEF IsMoved
<1>4. /\ DefinedOnce(P.top) /\ DefinedOnce(s.ops) /\ IsInjective(P.params)
      /\ ToSet(P.params) \cap Results(P.top) = {}
      /\ \A i \in DOMAIN P.states :
            /\ DefinedOnce(P.states[i].ops)
            /\ Results(P.states[i].ops) \cap (ToSet(P.params) \cup Results(P.top)) = {}
            /\ \A k \in DOMAIN P.states :
                 Results(P.states[i].ops) \cap Results(P.states[k].ops) # {} => i = k
  BY DEF IsSSA
<1>5. o.res \in Results(s.ops)
  BY DEF Results
<1> HIDE DEF s, t
<1>6. /\ Calls(t) = Calls(s) /\ (KindsFit(s) => KindsFit(t)) /\ DefinedOnce(t.ops)
      /\ Results(t.ops) = Results(s.ops) \ {o.res}
      /\ \A m \in 1..n - 1 : m \in DOMAIN t.ops /\ t.ops[m] = s.ops[m]
  <2>1. n \in DOMAIN s.ops /\ s.ops[n] = o
    BY DEF s
  <2>2. /\ s \in StateType /\ t \in StateType /\ t.ops = RemoveAt(s.ops, n)
        /\ s.ops[n].op # "apply" /\ DefinedOnce(s.ops)
    BY <1>1, <1>3, <1>4, <2>1
  <2>3. /\ Calls(t) = Calls(s) /\ (KindsFit(s) => KindsFit(t)) /\ DefinedOnce(t.ops)
        /\ Results(t.ops) = Results(s.ops) \ {s.ops[n].res}
        /\ \A m \in 1..n - 1 : m \in DOMAIN t.ops /\ t.ops[m] = s.ops[m]
    BY <2>1, <2>2, RemovedFacts
  <2> QED BY <2>1, <2>3
<1>7. /\ ToSet(Q.top) = ToSet(P.top) \cup {o} /\ Results(Q.top) = Results(P.top) \cup {o.res}
      /\ DefinedOnce(Q.top)
  <2>1. o.res \notin Results(P.top)
    BY <1>4, <1>5 DEF s
  <2>2. IsAppended(Q.top, P.top, o)
    BY <1>1, <1>2, <1>3, AppendFacts
  <2> QED BY <1>4, <2>1, <2>2 DEF IsAppended
<1>8. \A i \in DOMAIN P.states : Results(Q.states[i].ops) \subseteq Results(P.states[i].ops) \ {o.res}
  <2> TAKE i \in DOMAIN P.states
  <2>1. CASE i = B
    BY <1>6, <2>1 DEF s, t
  <2>2. CASE i # B
    BY <1>3, <1>4, <1>5, <2>2 DEF s
  <2> QED BY <2>1, <2>2
<1>9. IsSSA(Q)
  <2>1. \A i \in DOMAIN P.states : DefinedOnce(Q.states[i].ops)
    BY <1>3, <1>4, <1>6 DEF t
  <2>2. ToSet(Q.params) \cap Results(Q.top) = {}
    BY <1>1, <1>4, <1>5, <1>7 DEF s
  <2>3. ASSUME NEW i \in DOMAIN Q.states
        PROVE  /\ Results(Q.states[i].ops) \cap (ToSet(Q.params) \cup Results(Q.top)) = {}
               /\ \A k \in DOMAIN Q.states :
                    Results(Q.states[i].ops) \cap Results(Q.states[k].ops) # {} => i = k
    BY <1>1, <1>4, <1>7, <1>8
  <2> QED BY <1>1, <1>4, <1>7, <2>1, <2>2, <2>3 DEF IsSSA
<1>10. HasKinds(Q)
  <2>1. KindFits(o) /\ \A i \in DOMAIN P.states : KindsFit(P.states[i])
    BY KindsFacts DEF KindsFit
  <2>2. \A i \in DOMAIN Q.states : KindsFit(Q.states[i])
    BY <1>1, <1>3, <1>6, <2>1 DEF s, t
  <2>3. \A q \in ToSet(P.top) :
          q.op # "apply" /\ (q.op \in {"const", "ctor", "var"} => q.args = <<>> /\ q.res # NoValue)
    BY KindsFacts
  <2> QED BY <1>3, <1>7, <2>1, <2>2, <2>3, KindsFacts DEF KindFits
<1>11. \A v \in ValuesOf(Q) : \E u \in ValuesOf(P) : Begins(v, u)
  <2>1. o.res \in ValuesOf(P)
    BY <1>5, ValuesFacts DEF s
  <2>2. \A v \in Results(Q.top) : v \in ValuesOf(P)
    BY <1>7, <2>1, ValuesFacts
  <2>3. \A i \in DOMAIN P.states : \A v \in Results(Q.states[i].ops) : v \in ValuesOf(P)
    BY <1>8, ValuesFacts
  <2> QED BY <1>1, <2>1, <2>2, <2>3, ValuesBegin
<1>12. ASSUME NEW i \in DOMAIN P.states
       PROVE  /\ Q.states[i].name = P.states[i].name
              /\ Q.states[i].next.kind = P.states[i].next.kind
              /\ Q.states[i].next.targets = P.states[i].next.targets
              /\ Calls(Q.states[i]) = Calls(P.states[i])
              /\ i # B /\ IsUnfinished(P.states[i]) => Q.states[i] = P.states[i]
  BY <1>3, <1>6 DEF SameState, s, t
<1>13. ToSet(P.top) \subseteq ToSet(Q.top) /\ \A q \in ToSet(Q.top) : q \in ToSet(P.top) \/ q.op = "var"
  BY <1>3, <1>7
<1> QED BY <1>6, <1>9, <1>10, <1>11, <1>12, <1>13 DEF KeepsUpTo, Keeps, s, t

\* Copying and promoting, as far as they are alike.
IsRenewed(P, Q, B, E, o, m) ==
  \A i \in DOMAIN P.states :
    /\ i \in E =>
         /\ IsReplaced(P.states[i], Q.states[i], o.res, NewValue(P, o, i), m[i])
         /\ m[i].res = NewValue(P, o, i) /\ m[i].op # "apply" /\ KindFits(m[i])
    /\ i \notin E /\ i # B => Q.states[i] = P.states[i]

\* To recompute a value in the states E, with or without a new variable, keeps the code.
LEMMA RenewedKeeps ==
  ASSUME NEW P \in ParserType, UniqueStates(P), IsSSA(P), HasKinds(P), NEW B \in DOMAIN P.states,
         \A i \in DOMAIN P.states : P.states[i].name # <<>>,
         NEW o \in Operation, o.res # NoValue, o.res \in ValuesOf(P),
         NEW E, E \subseteq DOMAIN P.states, B \notin E, \A i \in E : ~IsUnfinished(P.states[i]),
         NEW Q, SameRest(P, Q), NEW m, IsRenewed(P, Q, B, E, o, m),
         SameState(P.states[B], Q.states[B]), Calls(Q.states[B]) = Calls(P.states[B]),
         KindsFit(Q.states[B]), Results(Q.states[B].ops) = Results(P.states[B].ops),
         DefinedOnce(Q.states[B].ops),
         NEW G, G \subseteq {Local(P, o)},
         ToSet(P.top) \subseteq ToSet(Q.top), DefinedOnce(Q.top),
         \A q \in ToSet(Q.top) : q \in ToSet(P.top) \/ q.op = "var",
         Results(Q.top) = Results(P.top) \cup G,
         \A q \in ToSet(Q.top) :
           q.op # "apply" /\ (q.op \in {"const", "ctor", "var"} => q.args = <<>> /\ q.res # NoValue)
  PROVE  Keeps(P, Q, B)
<1>1. /\ Q \in ParserType /\ Q.params = P.params /\ DOMAIN Q.states = DOMAIN P.states
      /\ \A i \in DOMAIN P.states : P.states[i] \in StateType /\ Q.states[i] \in StateType
  BY ParserFacts DEF SameRest
<1>2. /\ Local(P, o) \notin ValuesOf(P) /\ Begins(Local(P, o), o.res)
      /\ \A i \in DOMAIN P.states :
              /\ NewValue(P, o, i) # NoValue /\ NewValue(P, o, i) \notin ValuesOf(P)
              /\ Begins(NewValue(P, o, i), o.res)
              /\ NewValue(P, o, i) # Local(P, o)
              /\ \A k \in DOMAIN P.states : NewValue(P, o, i) = NewValue(P, o, k) => i = k
  BY NewValueFacts
<1>3. \A i \in DOMAIN P.states : Results(P.states[i].ops) \subseteq ValuesOf(P)
  BY ValuesFacts
<1>4. \A i \in DOMAIN P.states : DefinedOnce(P.states[i].ops) /\ KindsFit(P.states[i])
  BY KindsFacts DEF IsSSA
<1>5. ASSUME NEW i \in E
      PROVE  /\ Q.states[i].name = P.states[i].name
             /\ Q.states[i].next.kind = P.states[i].next.kind
             /\ Q.states[i].next.targets = P.states[i].next.targets
             /\ Calls(Q.states[i]) = Calls(P.states[i])
             /\ KindsFit(Q.states[i]) /\ DefinedOnce(Q.states[i].ops)
             /\ Results(Q.states[i].ops) = Results(P.states[i].ops) \cup {NewValue(P, o, i)}
  <2> DEFINE s == P.states[i]
             t == Q.states[i]
             v == NewValue(P, o, i)
  <2>1. /\ s \in StateType /\ t \in StateType /\ IsReplaced(s, t, o.res, v, m[i])
        /\ m[i].res = v /\ m[i].op # "apply" /\ KindFits(m[i])
        /\ v # NoValue /\ v \notin Results(s.ops) /\ DefinedOnce(s.ops) /\ KindsFit(s)
    BY <1>1, <1>2, <1>3, <1>4 DEF IsRenewed
  <2> HIDE DEF s, t, v
  <2>2. /\ Calls(t) = Calls(s) /\ Results(t.ops) = Results(s.ops) \cup {v} /\ DefinedOnce(t.ops)
    <3>1. IsExtended(s, t, v)
      BY <2>1, ReplacedFacts
    <3> QED BY <2>1, <3>1 DEF IsExtended
  <2>3. KindsFit(t)
    BY <2>1, ReplacedKinds
  <2>4. t.name = s.name /\ t.next.kind = s.next.kind /\ t.next.targets = s.next.targets
    BY <2>1 DEF IsReplaced
  <2> QED BY <2>2, <2>3, <2>4 DEF s, t, v
<1>6. ASSUME NEW i \in DOMAIN P.states, i \notin E
      PROVE  /\ Q.states[i].name = P.states[i].name
             /\ Q.states[i].next.kind = P.states[i].next.kind
             /\ Q.states[i].next.targets = P.states[i].next.targets
             /\ Calls(Q.states[i]) = Calls(P.states[i])
             /\ KindsFit(Q.states[i]) /\ DefinedOnce(Q.states[i].ops)
             /\ Results(Q.states[i].ops) = Results(P.states[i].ops)
             /\ i # B => Q.states[i] = P.states[i]
  BY <1>4, <1>6 DEF IsRenewed, SameState
<1>7. IsSSA(Q)
  <2> DEFINE N == [i \in DOMAIN P.states |-> NewValue(P, o, i)]
  <2>1. \A i \in DOMAIN P.states :
           /\ DefinedOnce(Q.states[i].ops)
           /\ Results(Q.states[i].ops) \subseteq Results(P.states[i].ops) \cup {N[i]}
    BY <1>5, <1>6
  <2>2. G \cap ValuesOf(P) = {}
    BY <1>2
  <2>3. \A i \in DOMAIN P.states :
           /\ N[i] \notin ValuesOf(P) \cup G
           /\ \A k \in DOMAIN P.states : N[i] = N[k] => i = k
    BY <1>2
  <2> HIDE DEF N
  <2> QED BY <1>1, <2>1, <2>2, <2>3, FreshSSA
<1>8. HasKinds(Q)
  BY <1>1, <1>5, <1>6, KindsFacts
<1>9. \A v \in ValuesOf(Q) : \E u \in ValuesOf(P) : Begins(v, u)
  <2>1. \A v \in Results(Q.top) : v \in ValuesOf(P) \/ Begins(v, o.res)
    BY <1>2, ValuesFacts
  <2>2. \A i \in DOMAIN P.states : \A v \in Results(Q.states[i].ops) :
          v \in ValuesOf(P) \/ Begins(v, o.res)
    <3> SUFFICES ASSUME NEW i \in DOMAIN P.states, NEW v \in Results(Q.states[i].ops)
                 PROVE  v \in ValuesOf(P) \/ Begins(v, o.res)
      OBVIOUS
    <3>1. v \in Results(P.states[i].ops) \/ v = NewValue(P, o, i)
      BY <1>5, <1>6
    <3> QED BY <1>2, <1>3, <3>1
  <2> QED BY <1>1, <2>1, <2>2, ValuesBegin
<1> QED BY <1>5, <1>6, <1>7, <1>8, <1>9 DEF Keeps

\* To copy an operation keeps the code.
LEMMA CopiedKeeps ==
  ASSUME NEW P \in ParserType, UniqueStates(P), IsSSA(P), HasKinds(P), NEW B \in DOMAIN P.states,
         \A i \in DOMAIN P.states : P.states[i].name # <<>>,
         NEW o \in Operation, o.res # NoValue, o.res \in ValuesOf(P), KindFits(o),
         NEW E, E \subseteq DOMAIN P.states, B \notin E, \A i \in E : ~IsUnfinished(P.states[i]),
         NEW Q, SameRest(P, Q), IsCopiedTo(P, Q, E, o)
  PROVE  Keeps(P, Q, B) /\ Q.states[B] = P.states[B]
<1> DEFINE m == [i \in DOMAIN P.states |-> [o EXCEPT !.res = NewValue(P, o, i)]]
<1>1. /\ IsCopied(o) /\ Q.top = P.top /\ Q.states[B] = P.states[B]
      /\ \A i \in DOMAIN P.states : i \notin E => Q.states[i] = P.states[i]
      /\ \A i \in E : IsReplaced(P.states[i], Q.states[i], o.res, NewValue(P, o, i), m[i])
  BY DEF IsCopiedTo
<1>2. \A i \in E : m[i].res = NewValue(P, o, i) /\ m[i].op = o.op /\ m[i].args = o.args
  BY DEF Operation
<1>3. \A i \in DOMAIN P.states : NewValue(P, o, i) # NoValue
  BY NewValueFacts
<1>4. o.op # "apply"
  BY <1>1 DEF IsCopied
<1>5. IsRenewed(P, Q, B, E, o, m)
  <2> HIDE DEF m
  <2>1. \A i \in E : KindFits(m[i]) /\ m[i].op # "apply"
    BY <1>2, <1>3, <1>4 DEF KindFits
  <2> QED BY <1>1, <1>2, <2>1 DEF IsRenewed
<1> HIDE DEF m
<1>6. /\ SameState(P.states[B], Q.states[B]) /\ Calls(Q.states[B]) = Calls(P.states[B])
      /\ KindsFit(Q.states[B]) /\ Results(Q.states[B].ops) = Results(P.states[B].ops)
      /\ DefinedOnce(Q.states[B].ops)
  BY <1>1, KindsFacts DEF SameState, IsSSA
<1>7. /\ {} \subseteq {Local(P, o)} /\ ToSet(P.top) \subseteq ToSet(Q.top) /\ DefinedOnce(Q.top)
      /\ (\A q \in ToSet(Q.top) : q \in ToSet(P.top) \/ q.op = "var")
      /\ Results(Q.top) = Results(P.top) \cup {}
      /\ \A q \in ToSet(Q.top) :
           q.op # "apply" /\ (q.op \in {"const", "ctor", "var"} => q.args = <<>> /\ q.res # NoValue)
  BY <1>1, KindsFacts DEF IsSSA
<1> DEFINE G == {}
<1>8. G \subseteq {Local(P, o)} /\ Results(Q.top) = Results(P.top) \cup G
  BY <1>7
<1> HIDE DEF G
<1>9. Keeps(P, Q, B)
  BY <1>1, <1>5, <1>6, <1>7, <1>8, RenewedKeeps
<1> QED BY <1>1, <1>9

\* To promote a value keeps the code.
LEMMA PromotedKeeps ==
  ASSUME NEW P \in ParserType, UniqueStates(P), IsSSA(P), HasKinds(P), NEW B \in DOMAIN P.states,
         NEW n \in DOMAIN P.states[B].ops,
         \A i \in DOMAIN P.states : P.states[i].name # <<>>,
         NEW o \in Operation, o.res # NoValue, o.res \in ValuesOf(P),
         NEW E, E \subseteq DOMAIN P.states, B \notin E, \A i \in E : ~IsUnfinished(P.states[i]),
         NEW Q, SameRest(P, Q), IsPromoted(P, Q, B, n, E, o)
  PROVE  KeepsUpTo(P, Q, B, n)
<1> DEFINE local == Local(P, o)
           var == Op("var", local, <<>>, 0)
           read == Op("read", NoValue, <<local>>, 0)
           m == [i \in DOMAIN P.states |-> [read EXCEPT !.res = NewValue(P, o, i)]]
           s == P.states[B]
           t == Q.states[B]
           a == Assign(P, o)
<1>1. /\ Q.top = Append(P.top, var) /\ SameState(s, t) /\ t.ops = InsertAfter(s.ops, n, <<a>>)
      /\ \A i \in DOMAIN P.states :
           /\ i \in E => IsReplaced(P.states[i], Q.states[i], o.res, NewValue(P, o, i), m[i])
           /\ i \notin E /\ i # B => Q.states[i] = P.states[i]
  BY DEF IsPromoted
<1>2. \A i \in E : m[i].res = NewValue(P, o, i) /\ m[i].op = "read"
  BY DEF Op
<1>3. IsRenewed(P, Q, B, E, o, m)
  <2> HIDE DEF m
  <2>1. \A i \in E : KindFits(m[i]) /\ m[i].op # "apply"
    BY <1>2 DEF KindFits
  <2> QED BY <1>1, <1>2, <2>1 DEF IsRenewed
<1> HIDE DEF m
<1>4. local \in Name /\ local # NoValue /\ local \notin ValuesOf(P)
  BY NewValueFacts
<1>5. /\ var.op = "var" /\ var.res = local /\ var.args = <<>>
      /\ a.op = "assign" /\ a.res = NoValue
  BY DEF Assign, Op
<1>6. var \in Operation /\ a \in Operation
  <2>1. {"var", "assign"} \subseteq OpKinds /\ 0 \in Nat
    BY DEF OpKinds
  <2>2. o.res \in Name /\ <<local, o.res>> \in Seq(Name) /\ <<>> \in Seq(Name)
    BY <1>4, OpFacts
  <2> QED BY <2>1, <2>2, <1>4, NoValueName, OpTyped DEF Assign
<1> HIDE DEF var, read, local, a
<1>7. IsAppended(Q.top, P.top, var)
  BY <1>1, <1>6, ParserFacts, AppendFacts
<1>8. /\ ToSet(P.top) \subseteq ToSet(Q.top) /\ DefinedOnce(Q.top)
      /\ (\A q \in ToSet(Q.top) : q \in ToSet(P.top) \/ q.op = "var")
      /\ Results(Q.top) = Results(P.top) \cup {local}
      /\ \A q \in ToSet(Q.top) :
           q.op # "apply" /\ (q.op \in {"const", "ctor", "var"} => q.args = <<>> /\ q.res # NoValue)
  <2>1. local \notin Results(P.top) /\ DefinedOnce(P.top)
    BY <1>4, ValuesFacts DEF IsSSA
  <2> QED BY <1>4, <1>5, <1>7, <2>1, KindsFacts DEF IsAppended
<1>9. /\ s \in StateType /\ t \in StateType /\ n \in DOMAIN s.ops
      /\ DefinedOnce(s.ops) /\ KindsFit(s)
  BY ParserFacts, KindsFacts DEF SameRest, IsSSA
<1>10. /\ Calls(t) = Calls(s) /\ KindsFit(t) /\ Results(t.ops) = Results(s.ops)
       /\ DefinedOnce(t.ops)
       /\ \A j \in 1..n : j \in DOMAIN t.ops /\ t.ops[j] = s.ops[j]
  <2> HIDE DEF s, t
  <2>1. /\ Calls(t) = Calls(s) /\ (KindsFit(s) => KindsFit(t)) /\ Results(t.ops) = Results(s.ops)
        /\ DefinedOnce(s.ops) => DefinedOnce(t.ops)
        /\ \A j \in 1..n : j \in DOMAIN t.ops /\ t.ops[j] = s.ops[j]
    BY <1>1, <1>5, <1>6, <1>9, InsertedFacts
  <2> QED BY <1>9, <2>1
<1>11. Keeps(P, Q, B)
  <2>1. {local} \subseteq {Local(P, o)}
    BY DEF local
  <2> QED BY <1>1, <1>3, <1>8, <1>10, <2>1, RenewedKeeps
<1>12. \A j \in 1..n - 1 : j \in 1..n
  BY <1>9, StateFacts
<1> QED BY <1>10, <1>11, <1>12 DEF KeepsUpTo

\* AdjustUsesOf keeps the code, and the operations of the block before that one.
LEMMA AdjustKeeps ==
  ASSUME NEW P \in ParserType, UniqueStates(P), IsSSA(P), HasKinds(P), NEW B \in DOMAIN P.states,
         \A i \in DOMAIN P.states : P.states[i].name # <<>>,
         NEW n \in DOMAIN P.states[B].ops, NEW o, o = P.states[B].ops[n],
         NEW Q, Q = AdjustUsesOf(P, P.states[B].name, o)
  PROVE  KeepsUpTo(P, Q, B, n)
<1> DEFINE E == EscapingStates(P, P.states[B].name, o.res)
<1>1. \/ Q = P
      \/ o.res # NoValue /\ SameRest(P, Q) /\ IsMoved(P, Q, B, n, o)
      \/ o.res # NoValue /\ SameRest(P, Q) /\ IsCopiedTo(P, Q, E, o)
      \/ o.res # NoValue /\ SameRest(P, Q) /\ IsPromoted(P, Q, B, n, E, o)
  BY AdjustCases
<1>2. E \subseteq DOMAIN P.states /\ B \notin E /\ \A i \in E : ~IsUnfinished(P.states[i])
  BY EscapingFacts
<1> HIDE DEF E
<1>3. /\ o \in Operation /\ KindFits(o) /\ Len(P.states[B].ops) \in Nat
      /\ DOMAIN P.states[B].ops = 1..Len(P.states[B].ops)
  BY ParserFacts, StateFacts, KindsFacts DEF KindsFit
<1>4. o.res # NoValue => o.res \in ValuesOf(P)
  <2>1. o.res # NoValue => o.res \in Results(P.states[B].ops)
    BY DEF Results
  <2> QED BY <2>1, ValuesFacts
<1>5. \A m \in 1..n - 1 : m \in DOMAIN P.states[B].ops /\ m \in 1..n
  BY <1>3
<1>6. CASE Q = P
  <2>1. Keeps(P, P, B)
    BY KeepsSelf
  <2> QED BY <1>5, <1>6, <2>1 DEF KeepsUpTo
<1>7. CASE o.res # NoValue /\ SameRest(P, Q) /\ IsMoved(P, Q, B, n, o)
  BY <1>7, MovedKeeps
<1>8. CASE o.res # NoValue /\ SameRest(P, Q) /\ IsCopiedTo(P, Q, E, o)
  <2>1. Keeps(P, Q, B) /\ Q.states[B] = P.states[B]
    BY <1>2, <1>3, <1>4, <1>8, CopiedKeeps
  <2> QED BY <1>5, <2>1 DEF KeepsUpTo
<1>9. CASE o.res # NoValue /\ SameRest(P, Q) /\ IsPromoted(P, Q, B, n, E, o)
  BY <1>2, <1>3, <1>4, <1>9, PromotedKeeps
<1> QED BY <1>1, <1>6, <1>7, <1>8, <1>9

-----------------------------------------------------------------------------
(* All operations of a block, from the last to the first *)

\* The parsers f[n] on the way of adjustBlockUses, from the last operation to the first.
IsAdjusting(f, P, b, ops) ==
  /\ f[Len(ops)] = P
  /\ \A n \in 0..Len(ops) - 1 : f[n] = AdjustUsesOf(f[n + 1], b, ops[n + 1])

\* AdjustBlockUses goes this way.
LEMMA AdjustSteps ==
  ASSUME NEW P, NEW b, NEW ops, ops = StateNamed(P, b).ops, Len(ops) \in Nat
  PROVE  \E f : AdjustBlockUses(P, b) = f[0] /\ IsAdjusting(f, P, b, ops)
<1> DEFINE L == Len(ops)
           T == {m \in Nat : m <= L => \E f :
                   f = [n \in L - m..L |-> IF n = L THEN P ELSE AdjustUsesOf(f[n + 1], b, ops[n + 1])]}
<1>1. 0 \in T
  <2> DEFINE f == [n \in L - 0..L |-> P]
  <2>1. f = [n \in L - 0..L |-> IF n = L THEN P ELSE AdjustUsesOf(f[n + 1], b, ops[n + 1])]
    <3>1. \A n \in L - 0..L : n = L
      OBVIOUS
    <3>2. PICK h : h = [n \in L - 0..L |-> IF n = L THEN P ELSE AdjustUsesOf(f[n + 1], b, ops[n + 1])]
      OBVIOUS
    <3>3. \A n \in L - 0..L : h[n] = f[n]
      BY <3>1, <3>2
    <3>4. h = f
      BY <3>2, <3>3
    <3> QED BY <3>2, <3>4
  <2> HIDE DEF f
  <2> QED BY <2>1
<1>2. ASSUME NEW m \in Nat, m \in T PROVE m + 1 \in T
  <2> SUFFICES ASSUME m + 1 <= L
               PROVE \E f : f = [n \in L - (m + 1)..L |->
                                   IF n = L THEN P ELSE AdjustUsesOf(f[n + 1], b, ops[n + 1])]
    OBVIOUS
  <2>1. PICK f : f = [n \in L - m..L |-> IF n = L THEN P ELSE AdjustUsesOf(f[n + 1], b, ops[n + 1])]
    BY <1>2
  <2> DEFINE l == L - (m + 1)
  <2>2. l \in Nat /\ l # L /\ L - m = l + 1 /\ l + 1 \in l..L
    OBVIOUS
  <2>3. PICK first : first = AdjustUsesOf(f[l + 1], b, ops[l + 1])
    OBVIOUS
  <2> HIDE DEF l
  <2>4. PICK g : g = [n \in l..L |-> IF n = l THEN first ELSE f[n]]
    OBVIOUS
  <2>5. ASSUME NEW n \in l..L
        PROVE  g[n] = IF n = L THEN P ELSE AdjustUsesOf(g[n + 1], b, ops[n + 1])
    <3>1. CASE n = l
      <4>1. g[n + 1] = f[l + 1]
        BY <2>2, <2>4, <3>1
      <4> QED BY <2>2, <2>3, <2>4, <3>1, <4>1
    <3>2. CASE n # l
      <4>1. n \in L - m..L /\ g[n] = f[n]
        BY <2>2, <2>4, <3>2
      <4>2. ASSUME n # L PROVE g[n + 1] = f[n + 1]
        <5>1. n + 1 \in l..L /\ n + 1 # l
          BY <2>2, <4>2, <3>2
        <5> QED BY <2>4, <5>1
      <4>3. f[n] = IF n = L THEN P ELSE AdjustUsesOf(f[n + 1], b, ops[n + 1])
        BY <2>1, <4>1
      <4> QED BY <4>1, <4>2, <4>3
    <3> QED BY <3>1, <3>2
  <2>6. g = [n \in l..L |-> IF n = L THEN P ELSE AdjustUsesOf(g[n + 1], b, ops[n + 1])]
    <3>1. PICK h : h = [n \in l..L |-> IF n = L THEN P ELSE AdjustUsesOf(g[n + 1], b, ops[n + 1])]
      OBVIOUS
    <3>2. \A n \in l..L : h[n] = g[n]
      BY <2>5, <3>1
    <3>3. h = g
      BY <2>4, <3>1, <3>2
    <3> QED BY <3>1, <3>3
  <2> QED BY <2>6 DEF l
<1>3. L \in T
  <2>1. L \in Nat
    OBVIOUS
  <2> HIDE DEF T, L
  <2> QED BY <1>1, <1>2, <2>1, Induction
<1>4. \E f : f = [n \in 0..L |-> IF n = L THEN P ELSE AdjustUsesOf(f[n + 1], b, ops[n + 1])]
  <2>1. L - L = 0 /\ L <= L
    OBVIOUS
  <2> QED BY <1>3, <2>1
<1>5. PICK f : f = CHOOSE g : g = [n \in 0..L |->
                     IF n = L THEN P ELSE AdjustUsesOf(g[n + 1], b, ops[n + 1])]
  OBVIOUS
<1>6. f = [n \in 0..L |-> IF n = L THEN P ELSE AdjustUsesOf(f[n + 1], b, ops[n + 1])]
  BY <1>4, <1>5
<1>7. AdjustBlockUses(P, b) = f[0]
  BY <1>5 DEF AdjustBlockUses
<1>8. IsAdjusting(f, P, b, ops)
  <2>1. L \in 0..L /\ \A n \in 0..L - 1 : n \in 0..L /\ n # L
    OBVIOUS
  <2> QED BY <1>6, <2>1 DEF IsAdjusting
<1> QED BY <1>7, <1>8

\* Once only the first n operations are left.
AdjustedTo(P, R, B, n) ==
  /\ Keeps(P, R, B)
  /\ \A m \in 1..n : m \in DOMAIN R.states[B].ops /\ R.states[B].ops[m] = P.states[B].ops[m]

\* One step of this way keeps the code.
LEMMA AdjustKeepsOn ==
  ASSUME NEW P \in ParserType, UniqueStates(P), NEW B \in DOMAIN P.states,
         \A i \in DOMAIN P.states : P.states[i].name # <<>>,
         NEW n \in Nat, NEW R, AdjustedTo(P, R, B, n + 1),
         NEW Q, Q = AdjustUsesOf(R, P.states[B].name, P.states[B].ops[n + 1])
  PROVE  AdjustedTo(P, Q, B, n)
<1>1. /\ R \in ParserType /\ IsSSA(R) /\ HasKinds(R) /\ DOMAIN R.states = DOMAIN P.states
      /\ \A i \in DOMAIN P.states : R.states[i].name = P.states[i].name
  BY DEF AdjustedTo, Keeps, SameRest
<1>2. UniqueStates(R)
  BY <1>1 DEF UniqueStates
<1>3. n + 1 \in 1..n + 1 /\ (n + 1) - 1 = n /\ \A m \in 1..n : m \in 1..n + 1
  OBVIOUS
<1>4. n + 1 \in DOMAIN R.states[B].ops /\ R.states[B].ops[n + 1] = P.states[B].ops[n + 1]
  BY <1>3 DEF AdjustedTo
<1>5. KeepsUpTo(R, Q, B, n + 1)
  <2>1. Q = AdjustUsesOf(R, R.states[B].name, R.states[B].ops[n + 1])
    BY <1>1, <1>4
  <2>2. B \in DOMAIN R.states /\ \A i \in DOMAIN R.states : R.states[i].name # <<>>
    BY <1>1
  <2> QED BY <1>1, <1>2, <1>4, <2>1, <2>2, AdjustKeeps
<1>6. Keeps(P, Q, B)
  BY <1>5, KeepsTrans DEF KeepsUpTo, AdjustedTo
<1> QED BY <1>3, <1>5, <1>6 DEF KeepsUpTo, AdjustedTo

\* adjustBlockUses keeps the code of the parser but for the block: calls, results
\* and kinds of operations, unique names.
LEMMA BlockKeeps ==
  ASSUME NEW P \in ParserType, UniqueStates(P), IsSSA(P), HasKinds(P), NEW B \in DOMAIN P.states,
         \A i \in DOMAIN P.states : P.states[i].name # <<>>,
         NEW Q, Q = AdjustBlockUses(P, P.states[B].name)
  PROVE  Keeps(P, Q, B)
<1> DEFINE b == P.states[B].name
           ops == P.states[B].ops
           L == Len(ops)
<1>1. /\ b \in StateNames(P) /\ StateNamed(P, b).ops = ops /\ L \in Nat /\ DOMAIN ops = 1..L
  <2>1. b \in StateNames(P)
    BY DEF StateNames
  <2>2. StateNamed(P, b) = P.states[B]
    BY <2>1, StateAtFacts
  <2>3. P.states[B] \in StateType
    BY ParserFacts
  <2> QED BY <2>1, <2>2, <2>3, StateFacts
<1>2. PICK f : Q = f[0] /\ IsAdjusting(f, P, b, ops)
  BY <1>1, AdjustSteps
<1> DEFINE T == {m \in Nat : m <= L => AdjustedTo(P, f[L - m], B, L - m)}
<1>3. 0 \in T
  <2>1. f[L] = P /\ L - 0 = L /\ \A m \in 1..L : m \in DOMAIN ops
    BY <1>1, <1>2 DEF IsAdjusting
  <2>2. AdjustedTo(P, P, B, L)
    BY <2>1, KeepsSelf DEF AdjustedTo
  <2> QED BY <2>1, <2>2
<1>4. ASSUME NEW m \in Nat, m \in T PROVE m + 1 \in T
  <2> SUFFICES ASSUME m + 1 <= L PROVE AdjustedTo(P, f[L - (m + 1)], B, L - (m + 1))
    BY <1>4
  <2> DEFINE n == L - (m + 1)
  <2>1. n \in Nat /\ n + 1 = L - m /\ n \in 0..L - 1 /\ m <= L
    BY <1>1
  <2>2. AdjustedTo(P, f[n + 1], B, n + 1)
    BY <1>4, <2>1
  <2> HIDE DEF n
  <2>3. f[n] = AdjustUsesOf(f[n + 1], P.states[B].name, P.states[B].ops[n + 1])
    BY <1>2, <2>1 DEF IsAdjusting
  <2>4. AdjustedTo(P, f[n], B, n)
    BY <2>1, <2>2, <2>3, AdjustKeepsOn
  <2> QED BY <2>4 DEF n
<1>5. L \in T
  <2> HIDE DEF T, L
  <2> QED BY <1>1, <1>3, <1>4, Induction
<1>6. AdjustedTo(P, f[0], B, 0)
  <2>1. L - L = 0 /\ L <= L
    BY <1>1
  <2> QED BY <1>5, <2>1
<1> QED BY <1>2, <1>6 DEF AdjustedTo

-----------------------------------------------------------------------------
(* Calls *)

\* The operation calls the instance.
IsCallOf(o, inst) == o.op = "apply" /\ o.inst = inst

\* The calls of a state are those of its operations.
LEMMA CallsFacts ==
  ASSUME NEW s
  PROVE  /\ \A c \in Calls(s) : \E j \in DOMAIN s.ops : s.ops[j].op = "apply" /\ c = CallOf(s.ops[j])
         /\ \A j \in DOMAIN s.ops : s.ops[j].op = "apply" => CallOf(s.ops[j]) \in Calls(s)
BY DEF Calls

\* The parts of a call.
LEMMA CallOfFacts ==
  ASSUME NEW o
  PROVE  /\ CallOf(o).res = o.res /\ CallOf(o).inst = o.inst
         /\ CallOf(o).deep = o.deep /\ CallOf(o).arity = Len(o.args)
BY DEF CallOf

\* Where the result of an operation leads back to.
LEMMA SiteFacts ==
  ASSUME NEW P \in ParserType, IsSSA(P), NEW i \in DOMAIN P.states,
         NEW j \in DOMAIN P.states[i].ops, NEW id, id # NoValue, P.states[i].ops[j].res = id
  PROVE  /\ SiteOf(P, id) = P.states[i]
         /\ CallIn(P.states[i], id) = j
<1>1. \A k \in DOMAIN P.states : HoldsOp(P.states[k], id) => id \in Results(P.states[k].ops)
  BY DEF HoldsOp, Results
<1>2. HoldsOp(P.states[i], id)
  BY DEF HoldsOp
<1>3. \A k \in DOMAIN P.states : HoldsOp(P.states[k], id) => k = i
  BY <1>1, <1>2 DEF IsSSA
<1>4. (CHOOSE k \in DOMAIN P.states : HoldsOp(P.states[k], id)) = i
  BY <1>2, <1>3
<1>5. \A k \in DOMAIN P.states[i].ops : P.states[i].ops[k].res = id => k = j
  BY DEF IsSSA, DefinedOnce
<1>6. CallIn(P.states[i], id) = j
  BY <1>5 DEF CallIn
<1> QED BY <1>4, <1>6 DEF SiteOf

\* CallsOf finds the operations that call an instance, each of them once.
LEMMA CallsOfFacts ==
  ASSUME NEW P \in ParserType, NEW inst
  PROVE  /\ CallsOf(P, inst) \in Seq(Operation)
         /\ \A o : o \in ToSet(CallsOf(P, inst)) <=>
              \E i \in DOMAIN P.states : \E j \in DOMAIN P.states[i].ops :
                o = P.states[i].ops[j] /\ IsCallOf(o, inst)
         /\ IsSSA(P) /\ HasKinds(P) => OneEach(CallsOf(P, inst))
<1> DEFINE at(i) == {j \in DOMAIN P.states[i].ops : IsCallOf(P.states[i].ops[j], inst)}
           seqs == [i \in DOMAIN P.states |-> Chosen(P.states[i].ops, at(i))]
<1>1. CallsOf(P, inst) = FlattenSeq(seqs)
  BY DEF CallsOf, IsCallOf
<1>2. /\ Len(P.states) \in Nat /\ DOMAIN P.states = 1..Len(P.states)
      /\ \A i \in DOMAIN P.states : P.states[i].ops \in Seq(Operation)
  BY ParserFacts, SeqFacts
<1>3. ASSUME NEW i \in DOMAIN P.states
      PROVE  /\ seqs[i] \in Seq(Operation)
             /\ ToSet(seqs[i]) = {P.states[i].ops[n] : n \in at(i)}
             /\ \E K : IsChosen(seqs[i], P.states[i].ops, at(i), K)
  <2>1. seqs[i] = Chosen(P.states[i].ops, at(i)) /\ at(i) \subseteq DOMAIN P.states[i].ops
    OBVIOUS
  <2> HIDE DEF seqs, at
  <2> QED BY <1>2, <2>1, ChosenFacts, ChosenSet
<1>4. seqs \in Seq(Seq(Operation)) /\ DOMAIN seqs = DOMAIN P.states
  <2>1. DOMAIN seqs = DOMAIN P.states
    OBVIOUS
  <2>2. seqs \in [1..Len(P.states) -> Seq(Operation)]
    <3>1. seqs = [i \in DOMAIN P.states |-> seqs[i]]
      OBVIOUS
    <3> HIDE DEF seqs
    <3> QED BY <1>2, <1>3, <3>1
  <2> QED BY <1>2, <2>1, <2>2, AsSeq
<1> HIDE DEF seqs
<1>5. ASSUME NEW o
      PROVE  o \in ToSet(CallsOf(P, inst)) <=>
               \E i \in DOMAIN P.states : \E j \in DOMAIN P.states[i].ops :
                 o = P.states[i].ops[j] /\ IsCallOf(o, inst)
  <2>1. ToSet(CallsOf(P, inst)) = UNION {ToSet(seqs[i]) : i \in DOMAIN seqs}
    BY <1>1, <1>4, FlattenFacts
  <2>2. o \in ToSet(CallsOf(P, inst)) <=> \E i \in DOMAIN P.states : o \in ToSet(seqs[i])
    BY <1>4, <2>1
  <2>3. \A i \in DOMAIN P.states : o \in ToSet(seqs[i]) <=>
          \E j \in DOMAIN P.states[i].ops : o = P.states[i].ops[j] /\ IsCallOf(o, inst)
    BY <1>3
  <2> QED BY <2>2, <2>3
<1>6. ASSUME IsSSA(P), HasKinds(P) PROVE OneEach(CallsOf(P, inst))
  <2>1. OneInAll(seqs)
    <3> SUFFICES ASSUME NEW i \in DOMAIN seqs, NEW k \in DOMAIN seqs,
                        NEW a \in DOMAIN seqs[i], NEW b \in DOMAIN seqs[k],
                        seqs[i][a].res = seqs[k][b].res
                 PROVE  i = k /\ a = b
      BY DEF OneInAll
    <3>1. PICK K : IsChosen(seqs[i], P.states[i].ops, at(i), K)
      BY <1>3, <1>4
    <3>2. PICK J : IsChosen(seqs[k], P.states[k].ops, at(k), J)
      BY <1>3, <1>4
    <3>3. /\ K[a] \in at(i) /\ seqs[i][a] = P.states[i].ops[K[a]]
          /\ J[b] \in at(k) /\ seqs[k][b] = P.states[k].ops[J[b]]
      BY <3>1, <3>2 DEF IsChosen
    <3>4. seqs[i][a].res # NoValue
      <4>1. KindsFit(P.states[i])
        BY <1>4, <1>6, KindsFacts
      <4> QED BY <3>3, <4>1 DEF KindsFit, KindFits, IsCallOf
    <3>5. i = k
      <4>1. /\ seqs[i][a].res \in Results(P.states[i].ops)
            /\ seqs[i][a].res \in Results(P.states[k].ops)
        BY <3>3, <3>4 DEF Results
      <4> QED BY <1>4, <1>6, <4>1 DEF IsSSA
    <3>6. PICK c : c = b /\ c \in DOMAIN seqs[i] /\ seqs[i][c] = seqs[k][b]
      BY <3>5
    <3>7. K[c] \in at(i) /\ seqs[i][c] = P.states[i].ops[K[c]]
      BY <3>1, <3>6 DEF IsChosen
    <3>8. DefinedOnce(P.states[i].ops)
      BY <1>4, <1>6 DEF IsSSA
    <3>9. K[c] = K[a]
      BY <3>3, <3>4, <3>6, <3>7, <3>8 DEF DefinedOnce
    <3>10. ~(a < c) /\ ~(c < a)
      <4>1. K[a] \in Nat
        <5>1. P.states[i].ops \in Seq(Operation) /\ K[a] \in DOMAIN P.states[i].ops
          BY <1>2, <1>4, <3>3
        <5> QED BY <5>1, SeqFacts
      <4>2. a < c <=> K[a] < K[c]
        BY <3>1, <3>6 DEF IsChosen
      <4>3. c < a <=> K[c] < K[a]
        BY <3>1, <3>6 DEF IsChosen
      <4> QED BY <3>9, <4>1, <4>2, <4>3
    <3>11. a \in Nat /\ c \in Nat
      BY <1>3, <1>4, <3>6, SeqFacts
    <3> QED BY <3>5, <3>6, <3>10, <3>11
  <2> QED BY <1>1, <1>4, <2>1, FlattenFacts
<1> QED BY <1>1, <1>4, <1>5, <1>6, FlattenFacts

-----------------------------------------------------------------------------
(* Sequences that are made of two *)

\* The elements of r are those of s and t, each at one place.
IsMixed(r, s, t) ==
  /\ \A m \in DOMAIN r : (\E a \in DOMAIN s : r[m] = s[a]) \/ (\E b \in DOMAIN t : r[m] = t[b])
  /\ \A a \in DOMAIN s : \E m \in DOMAIN r : r[m] = s[a]
  /\ \A b \in DOMAIN t : \E m \in DOMAIN r : r[m] = t[b]
  /\ \A m, l \in DOMAIN r : m # l =>
       \/ \E a, b \in DOMAIN s : a # b /\ r[m] = s[a] /\ r[l] = s[b]
       \/ \E a, b \in DOMAIN t : a # b /\ r[m] = t[a] /\ r[l] = t[b]
       \/ \E a \in DOMAIN s, b \in DOMAIN t : r[m] = s[a] /\ r[l] = t[b]
       \/ \E a \in DOMAIN t, b \in DOMAIN s : r[m] = t[a] /\ r[l] = s[b]

\* To insert a sequence mixes it with the other one.
LEMMA InsertedMixed ==
  ASSUME NEW r, NEW s, NEW t, NEW i, IsInserted(r, s, t, i), i \in 0..Len(s),
         Len(s) \in Nat, Len(t) \in Nat, DOMAIN s = 1..Len(s), DOMAIN t = 1..Len(t)
  PROVE  IsMixed(r, s, t)
<1> DEFINE FromS(m, a) == /\ a \in DOMAIN s /\ r[m] = s[a] /\ m \in Int
                          /\ (a <= i => m = a) /\ (a > i => m = a + Len(t))
           FromT(m, b) == b \in DOMAIN t /\ r[m] = t[b] /\ m = i + b
<1>1. ASSUME NEW m \in DOMAIN r PROVE (\E a : FromS(m, a)) \/ (\E b : FromT(m, b))
  <2>1. CASE m \in 1..i
    <3>1. m \in DOMAIN s /\ m \in Int /\ m <= i /\ ~(m > i)
      BY <2>1
    <3>2. r[m] = s[m]
      BY <2>1 DEF IsInserted
    <3>3. FromS(m, m)
      BY <3>1, <3>2
    <3> QED BY <3>3
  <2>2. CASE \E n \in DOMAIN t : m = i + n
    <3>1. PICK n \in DOMAIN t : m = i + n
      BY <2>2
    <3>2. r[i + n] = t[n]
      BY DEF IsInserted
    <3> QED BY <3>1, <3>2
  <2>3. CASE \E n \in i + 1..Len(s) : m = n + Len(t)
    <3>1. PICK n \in i + 1..Len(s) : m = n + Len(t)
      BY <2>3
    <3>2. n \in DOMAIN s /\ ~(n <= i) /\ m \in Int
      BY <3>1
    <3>3. r[n + Len(t)] = s[n]
      BY DEF IsInserted
    <3>4. FromS(m, n)
      BY <3>1, <3>2, <3>3
    <3> QED BY <3>4
  <2> QED BY <2>1, <2>2, <2>3 DEF IsInserted
<1>2. \A m, l, a : FromS(m, a) /\ FromS(l, a) => m = l
  OBVIOUS
<1>3. \A m, l, b : FromT(m, b) /\ FromT(l, b) => m = l
  OBVIOUS
<1>4. \A m, a : FromS(m, a) => a \in DOMAIN s /\ r[m] = s[a]
  OBVIOUS
<1>5. \A m, b : FromT(m, b) => b \in DOMAIN t /\ r[m] = t[b]
  OBVIOUS
<1>6. \A a \in DOMAIN s : \E m \in DOMAIN r : r[m] = s[a]
  <2> TAKE a \in DOMAIN s
  <2>1. CASE a <= i
    BY <2>1 DEF IsInserted
  <2>2. CASE a > i
    BY <2>2 DEF IsInserted
  <2> QED BY <2>1, <2>2
<1>7. \A b \in DOMAIN t : \E m \in DOMAIN r : r[m] = t[b]
  BY DEF IsInserted
<1> HIDE DEF FromS, FromT
<1>8. ASSUME NEW m \in DOMAIN r, NEW l \in DOMAIN r, m # l
      PROVE  \/ \E a, b \in DOMAIN s : a # b /\ r[m] = s[a] /\ r[l] = s[b]
             \/ \E a, b \in DOMAIN t : a # b /\ r[m] = t[a] /\ r[l] = t[b]
             \/ \E a \in DOMAIN s, b \in DOMAIN t : r[m] = s[a] /\ r[l] = t[b]
             \/ \E a \in DOMAIN t, b \in DOMAIN s : r[m] = t[a] /\ r[l] = s[b]
  <2>1. \/ \E a, b : FromS(m, a) /\ FromS(l, b)
        \/ \E a, b : FromT(m, a) /\ FromT(l, b)
        \/ \E a, b : FromS(m, a) /\ FromT(l, b)
        \/ \E a, b : FromT(m, a) /\ FromS(l, b)
    BY <1>1
  <2> QED BY <1>2, <1>3, <1>4, <1>5, <1>8, <2>1
<1>9. \A m \in DOMAIN r : (\E a \in DOMAIN s : r[m] = s[a]) \/ (\E b \in DOMAIN t : r[m] = t[b])
  BY <1>1, <1>4, <1>5
<1> QED BY <1>6, <1>7, <1>8, <1>9 DEF IsMixed

\* To concatenate mixes.
LEMMA JoinedMixed ==
  ASSUME NEW S, NEW s \in Seq(S), NEW t \in Seq(S), NEW r, r = s \o t
  PROVE  r \in Seq(S) /\ IsMixed(r, s, t)
<1>1. r \in Seq(S) /\ IsJoined(r, s, t)
  BY Joined
<1>2. Len(s) \in Nat /\ Len(t) \in Nat /\ DOMAIN s = 1..Len(s) /\ DOMAIN t = 1..Len(t)
  BY SeqFacts
<1>3. IsInserted(r, s, t, Len(s))
  <2>1. /\ \A n \in 1..Len(s) : n \in DOMAIN r
        /\ \A n \in DOMAIN t : Len(s) + n = n + Len(s) /\ n + Len(s) \in DOMAIN r
        /\ \A n \in Len(s) + 1..Len(s) : FALSE
    BY <1>1, <1>2 DEF IsJoined
  <2>2. \A m \in DOMAIN r : m \in 1..Len(s) \/ \E n \in DOMAIN t : m = Len(s) + n
    <3> SUFFICES ASSUME NEW m \in DOMAIN r, m \notin 1..Len(s)
                 PROVE  \E n \in DOMAIN t : m = Len(s) + n
      OBVIOUS
    <3>1. m - Len(s) \in DOMAIN t /\ m = Len(s) + (m - Len(s))
      BY <1>1, <1>2 DEF IsJoined
    <3> QED BY <3>1
  <2>3. /\ \A n \in 1..Len(s) : r[n] = s[n]
        /\ \A n \in DOMAIN t : r[Len(s) + n] = t[n]
    BY <1>1, <1>2, <2>1 DEF IsJoined
  <2> QED BY <2>1, <2>2, <2>3 DEF IsInserted
<1>4. Len(s) \in 0..Len(s)
  BY <1>2
<1> QED BY <1>1, <1>2, <1>3, <1>4, InsertedMixed

-----------------------------------------------------------------------------
(* States that are put into a parser *)

\* The states have different names and no common result.
ApartStates(s) ==
  \A i, k \in DOMAIN s :
    s[i].name = s[k].name \/ Results(s[i].ops) \cap Results(s[k].ops) # {} => i = k

\* Values and names of the states of two sequences differ.
Disjoint(s, t) ==
  \A i \in DOMAIN s, k \in DOMAIN t :
    s[i].name # t[k].name /\ Results(s[i].ops) \cap Results(t[k].ops) = {}

\* States that are apart in two disjoint sequences are apart in their mixture.
LEMMA MixedApart ==
  ASSUME NEW r, NEW s, NEW t, IsMixed(r, s, t), ApartStates(s), ApartStates(t), Disjoint(s, t)
  PROVE  ApartStates(r)
<1> SUFFICES ASSUME NEW m \in DOMAIN r, NEW l \in DOMAIN r, m # l
             PROVE  r[m].name # r[l].name /\ Results(r[m].ops) \cap Results(r[l].ops) = {}
  BY DEF ApartStates
<1>1. \/ \E a, b \in DOMAIN s : a # b /\ r[m] = s[a] /\ r[l] = s[b]
      \/ \E a, b \in DOMAIN t : a # b /\ r[m] = t[a] /\ r[l] = t[b]
      \/ \E a \in DOMAIN s, b \in DOMAIN t : r[m] = s[a] /\ r[l] = t[b]
      \/ \E a \in DOMAIN t, b \in DOMAIN s : r[m] = t[a] /\ r[l] = s[b]
  BY DEF IsMixed
<1>2. CASE \E a, b \in DOMAIN s : a # b /\ r[m] = s[a] /\ r[l] = s[b]
  BY <1>2 DEF ApartStates
<1>3. CASE \E a, b \in DOMAIN t : a # b /\ r[m] = t[a] /\ r[l] = t[b]
  BY <1>3 DEF ApartStates
<1>4. CASE \E a \in DOMAIN s, b \in DOMAIN t : r[m] = s[a] /\ r[l] = t[b]
  BY <1>4 DEF Disjoint
<1>5. CASE \E a \in DOMAIN t, b \in DOMAIN s : r[m] = t[a] /\ r[l] = s[b]
  BY <1>5 DEF Disjoint
<1> QED BY <1>1, <1>2, <1>3, <1>4, <1>5

\* What IsSSA says of the operations of states, given the values from outside.
OwnResults(states, outer) ==
  \A i \in DOMAIN states : DefinedOnce(states[i].ops) /\ Results(states[i].ops) \cap outer = {}

OuterValues(P) == ToSet(P.params) \cup Results(P.top)

\* IsSSA, by the states that are apart.
LEMMA SSAFacts ==
  ASSUME NEW P
  PROVE  /\ IsSSA(P) =>
              /\ IsInjective(P.params) /\ ToSet(P.params) \cap Results(P.top) = {}
              /\ DefinedOnce(P.top) /\ OwnResults(P.states, OuterValues(P))
              /\ UniqueStates(P) => ApartStates(P.states)
         /\ /\ IsInjective(P.params) /\ ToSet(P.params) \cap Results(P.top) = {}
            /\ DefinedOnce(P.top) /\ OwnResults(P.states, OuterValues(P))
            /\ ApartStates(P.states)
            => IsSSA(P) /\ UniqueStates(P)
BY DEF IsSSA, OwnResults, OuterValues, ApartStates, UniqueStates

\* InsertStates puts the new states behind the state B.
LEMMA InsertStatesFacts ==
  ASSUME NEW P \in ParserType, UniqueStates(P), NEW B \in DOMAIN P.states,
         NEW new \in Seq(StateType), NEW Q, Q = InsertStates(P, P.states[B].name, new)
  PROVE  /\ Q \in ParserType /\ Q.params = P.params /\ Q.top = P.top /\ Q.insts = P.insts
         /\ Q.start = P.start
         /\ Q.states = InsertAfter(P.states, B, new)
         /\ IsInserted(Q.states, P.states, new, B) /\ IsMixed(Q.states, P.states, new)
<1>1. StateAt(P, P.states[B].name) = B
  <2>1. P.states[B].name \in StateNames(P)
    BY DEF StateNames
  <2> QED BY <2>1, StateAtFacts
<1> DEFINE r == InsertAfter(P.states, B, new)
<1>2. Q = [P EXCEPT !.states = r]
  BY <1>1 DEF InsertStates
<1>3. /\ P.states \in Seq(StateType) /\ Len(P.states) \in Nat /\ DOMAIN P.states = 1..Len(P.states)
      /\ Len(new) \in Nat /\ DOMAIN new = 1..Len(new) /\ B \in 0..Len(P.states)
  BY ParserFacts, SeqFacts
<1>4. r \in Seq(StateType) /\ IsInserted(r, P.states, new, B)
  BY <1>3, Inserted
<1> HIDE DEF r
<1>5. /\ Q \in ParserType /\ Q.params = P.params /\ Q.top = P.top /\ Q.insts = P.insts
      /\ Q.start = P.start /\ Q.states = r
  BY <1>2, <1>4 DEF ParserType
<1>6. IsMixed(r, P.states, new)
  BY <1>3, <1>4, InsertedMixed
<1> QED BY <1>4, <1>5, <1>6 DEF r

-----------------------------------------------------------------------------
(* Values and their uses *)

\* The operation yields the value; what a call yields is no value.
Produces(o, v) == o.op # "apply" /\ o.res = v /\ v # NoValue

\* The value is there before the j-th operation, or anywhere in the code.
Above(ops, j, v) == \E n \in DOMAIN ops : n < j /\ Produces(ops[n], v)
\* Some operation yields the value.
InCode(ops, v) == \E n \in DOMAIN ops : Produces(ops[n], v)

\* Every use is of a value in O, or of one that is computed before it.
Given(ops, j, O, v) == v \in O \/ Above(ops, j, v)
\* Every operation may use its operands.
CodeFed(ops, O) == \A j \in DOMAIN ops : \A a \in DOMAIN ops[j].args : Given(ops, j, O, ops[j].args[a])
\* The transition may use its value.
NextFed(s, O) == s.next.kind = "select" => s.next.sel \in O \/ InCode(s.ops, s.next.sel)
\* Every use in the state has its value from O or from the code before it.
Fed(s, O) == CodeFed(s.ops, O) /\ NextFed(s, O)

\* What is above an operation is in the code.
LEMMA AboveInCode ==
  ASSUME NEW ops, NEW j, NEW v, Above(ops, j, v)
  PROVE  InCode(ops, v)
BY DEF Above, InCode

\* The values in code without calls are its results.
LEMMA InCodeResults ==
  ASSUME NEW ops, NEW v
  PROVE  /\ InCode(ops, v) => v \in Results(ops) /\ v # NoValue
         /\ (\A j \in DOMAIN ops : ops[j].op # "apply") => (InCode(ops, v) <=> v \in Results(ops))
BY DEF InCode, Produces, Results

\* The uses of a state are the arguments of its operations and the value its transition selects on.
LEMMA UsesFacts ==
  ASSUME NEW s \in StateType
  PROVE  /\ \A v : v \in UsesIn(s) <=>
              \/ \E j \in DOMAIN s.ops : \E a \in DOMAIN s.ops[j].args : s.ops[j].args[a] = v
              \/ s.next.kind = "select" /\ s.next.sel = v
         /\ \A j \in DOMAIN s.ops : \A a \in DOMAIN s.ops[j].args : s.ops[j].args[a] \in UsesIn(s)
         /\ s.next.kind = "select" => s.next.sel \in UsesIn(s)
<1> DEFINE A == UNION {ToSet(s.ops[j].args) : j \in DOMAIN s.ops}
           B == IF s.next.kind = "select" THEN {s.next.sel} ELSE {}
<1>4. UsesIn(s) = A \cup B
  BY DEF UsesIn
<1>5. \A v : v \in A <=> \E j \in DOMAIN s.ops : \E a \in DOMAIN s.ops[j].args : s.ops[j].args[a] = v
  BY DEF ToSet
<1>6. \A v : v \in B <=> s.next.kind = "select" /\ s.next.sel = v
  OBVIOUS
<1> HIDE DEF A, B
<1> QED BY <1>4, <1>5, <1>6

\* Every use of a state that is fed has its value from outside or from the code of the state.
LEMMA FedUses ==
  ASSUME NEW s \in StateType, NEW O, Fed(s, O), NEW v \in UsesIn(s)
  PROVE  v \in O \/ InCode(s.ops, v)
<1>1. CASE s.next.kind = "select" /\ s.next.sel = v
  BY <1>1 DEF Fed, NextFed
<1>2. CASE \E j \in DOMAIN s.ops : \E a \in DOMAIN s.ops[j].args : s.ops[j].args[a] = v
  <2>1. PICK j \in DOMAIN s.ops : \E a \in DOMAIN s.ops[j].args : s.ops[j].args[a] = v
    BY <1>2
  <2>2. Given(s.ops, j, O, v)
    BY <2>1 DEF Fed, CodeFed
  <2> QED BY <2>2, AboveInCode DEF Given
<1> QED BY <1>1, <1>2, UsesFacts

\* What is not used need not be there.
LEMMA FedFrom ==
  ASSUME NEW s \in StateType, NEW O, Fed(s, O), NEW N, \A v \in UsesIn(s) : v \in O => v \in N
  PROVE  Fed(s, N)
<1>1. CodeFed(s.ops, N)
  BY UsesFacts DEF Fed, CodeFed, Given
<1>2. NextFed(s, N)
  BY UsesFacts DEF Fed, NextFed
<1> QED BY <1>1, <1>2 DEF Fed

\* More values from outside do no harm.
LEMMA CodeFedMore ==
  ASSUME NEW ops, NEW O, CodeFed(ops, O), NEW N, O \subseteq N
  PROVE  CodeFed(ops, N)
BY DEF CodeFed, Given

\* More values from outside do no harm.
LEMMA FedMore ==
  ASSUME NEW s, NEW O, Fed(s, O), NEW N, O \subseteq N
  PROVE  Fed(s, N)
BY CodeFedMore DEF Fed, NextFed

-----------------------------------------------------------------------------
(* Code that has moved *)

\* The operations at the positions "at" are found again, in their order; the
\* values of the others are in O.
IsShifted(ops, new, f, at, O) ==
  /\ at \subseteq DOMAIN ops
  /\ \A n \in at : f[n] \in DOMAIN new /\ new[f[n]].op = ops[n].op /\ new[f[n]].res = ops[n].res
  /\ \A n, m \in at : n < m => f[n] < f[m]
  /\ \A n \in DOMAIN ops : n \notin at => \A v : Produces(ops[n], v) => v \in O

\* Code that was shifted still has the values that it had, but for those in O.
LEMMA ShiftedFacts ==
  ASSUME NEW ops, NEW new, NEW f, NEW at, NEW O, IsShifted(ops, new, f, at, O)
  PROVE  /\ \A j \in at : \A v : Above(ops, j, v) => v \in O \/ Above(new, f[j], v)
         /\ \A v : InCode(ops, v) => v \in O \/ InCode(new, v)
<1>1. \A n \in at : \A v : Produces(ops[n], v) => Produces(new[f[n]], v)
  BY DEF IsShifted, Produces
<1>2. ASSUME NEW j \in at, NEW v, Above(ops, j, v) PROVE v \in O \/ Above(new, f[j], v)
  <2>1. PICK n \in DOMAIN ops : n < j /\ Produces(ops[n], v)
    BY <1>2 DEF Above
  <2>2. CASE n \in at
    <3>1. f[n] \in DOMAIN new /\ f[n] < f[j] /\ Produces(new[f[n]], v)
      BY <1>1, <2>1, <2>2 DEF IsShifted
    <3> QED BY <3>1 DEF Above
  <2> QED BY <2>1, <2>2 DEF IsShifted
<1>3. ASSUME NEW v, InCode(ops, v) PROVE v \in O \/ InCode(new, v)
  <2>1. PICK n \in DOMAIN ops : Produces(ops[n], v)
    BY <1>3 DEF InCode
  <2>2. CASE n \in at
    <3>1. f[n] \in DOMAIN new /\ Produces(new[f[n]], v)
      BY <1>1, <2>1, <2>2 DEF IsShifted
    <3> QED BY <3>1 DEF InCode
  <2> QED BY <2>1, <2>2 DEF IsShifted
<1> QED BY <1>2, <1>3

\* What is computed before a call, and in a state, is still there or has come to O.
AheadIn(s, id, v) == \E j \in DOMAIN s.ops : s.ops[j].op = "apply" /\ s.ops[j].res = id /\ Above(s.ops, j, v)
\* Values before calls and in the code of s are in t too, or come from O.
Holds(s, t, O) ==
  /\ \A id, v : AheadIn(s, id, v) => v \in O \/ AheadIn(t, id, v)
  /\ \A v : InCode(s.ops, v) => v \in O \/ InCode(t.ops, v)

\* A state with shifted code holds what it held.
LEMMA ShiftedHolds ==
  ASSUME NEW s, NEW t, NEW f, NEW at, NEW O, IsShifted(s.ops, t.ops, f, at, O),
         \A n \in DOMAIN s.ops : s.ops[n].op = "apply" => n \in at
  PROVE  Holds(s, t, O)
<1>1. ASSUME NEW id, NEW v, AheadIn(s, id, v) PROVE v \in O \/ AheadIn(t, id, v)
  <2>1. PICK j \in DOMAIN s.ops : s.ops[j].op = "apply" /\ s.ops[j].res = id /\ Above(s.ops, j, v)
    BY <1>1 DEF AheadIn
  <2>2. j \in at /\ f[j] \in DOMAIN t.ops /\ t.ops[f[j]].op = "apply" /\ t.ops[f[j]].res = id
    BY <2>1 DEF IsShifted
  <2>3. v \in O \/ Above(t.ops, f[j], v)
    BY <2>1, <2>2, ShiftedFacts
  <2> QED BY <2>2, <2>3 DEF AheadIn
<1>2. \A v : InCode(s.ops, v) => v \in O \/ InCode(t.ops, v)
  BY ShiftedFacts
<1> QED BY <1>1, <1>2 DEF Holds

\* A state holds what it holds.
LEMMA HoldsSelf ==
  ASSUME NEW s, NEW O
  PROVE  Holds(s, s, O)
BY DEF Holds

\* What is held twice over is held.
LEMMA HoldsTrans ==
  ASSUME NEW s, NEW t, NEW u, NEW O, NEW N, Holds(s, t, O), Holds(t, u, N), O \subseteq N
  PROVE  Holds(s, u, N)
BY DEF Holds

-----------------------------------------------------------------------------
(* What moving, copying and promoting do to uses *)

\* A state that recomputes a value before its code is fed without that value from outside.
LEMMA ReplacedFed ==
  ASSUME NEW s \in StateType, NEW t \in StateType, NEW old, NEW new, NEW m,
         IsReplaced(s, t, old, new, m), m.res = new, new # NoValue, m.op # "apply",
         NEW O, Fed(s, O), NEW N, \A v \in O : v # old => v \in N,
         \A a \in DOMAIN m.args : m.args[a] \in N
  PROVE  Fed(t, N) /\ Holds(s, t, N)
<1>1. /\ Len(s.ops) \in Nat /\ DOMAIN s.ops = 1..Len(s.ops) /\ DOMAIN t.ops = 1..Len(s.ops) + 1
      /\ t.ops[1] = m
      /\ \A j \in DOMAIN s.ops : j + 1 \in DOMAIN t.ops /\ IsSwapped(s.ops[j], t.ops[j + 1], old, new)
      /\ t.next.kind = s.next.kind
      /\ t.next.sel = IF s.next.sel = old THEN new ELSE s.next.sel
  BY StateFacts DEF IsReplaced
<1>2. \A j \in DOMAIN t.ops : j = 1 \/ \E i \in DOMAIN s.ops : j = i + 1
  BY <1>1, IndexPlusOne
<1>3. PICK f : f = [n \in DOMAIN s.ops |-> n + 1]
  OBVIOUS
<1>4. IsShifted(s.ops, t.ops, f, DOMAIN s.ops, N)
  BY <1>1, <1>3 DEF IsShifted, IsSwapped
<1>5. /\ \A j \in DOMAIN s.ops : \A v : Above(s.ops, j, v) => v \in N \/ Above(t.ops, f[j], v)
      /\ \A v : InCode(s.ops, v) => v \in N \/ InCode(t.ops, v)
  BY <1>4, ShiftedFacts
<1>6. Holds(s, t, N)
  BY <1>4, ShiftedHolds
<1>7. 1 \in DOMAIN t.ops /\ Produces(t.ops[1], new)
  BY <1>1 DEF Produces
<1>8. ASSUME NEW j \in DOMAIN t.ops, NEW a \in DOMAIN t.ops[j].args
      PROVE  Given(t.ops, j, N, t.ops[j].args[a])
  <2>1. CASE j = 1
    BY <1>1, <2>1 DEF Given
  <2>2. CASE \E i \in DOMAIN s.ops : j = i + 1
    <3>1. PICK i \in DOMAIN s.ops : j = i + 1
      BY <2>2
    <3>2. /\ a \in DOMAIN s.ops[i].args
          /\ t.ops[j].args[a] = IF s.ops[i].args[a] = old THEN new ELSE s.ops[i].args[a]
      BY <1>1, <3>1 DEF IsSwapped
    <3>3. CASE s.ops[i].args[a] = old
      <4>1. 1 < j
        BY <1>1, <3>1
      <4> QED BY <1>7, <3>2, <3>3, <4>1 DEF Given, Above
    <3>4. CASE s.ops[i].args[a] # old
      <4>1. Given(s.ops, i, O, s.ops[i].args[a])
        BY <3>2 DEF Fed, CodeFed
      <4>2. f[i] = j
        BY <1>3, <3>1
      <4> QED BY <1>5, <3>2, <3>4, <4>1, <4>2 DEF Given
    <3> QED BY <3>3, <3>4
  <2> QED BY <1>2, <2>1, <2>2
<1>9. NextFed(t, N)
  <2> SUFFICES ASSUME t.next.kind = "select" PROVE t.next.sel \in N \/ InCode(t.ops, t.next.sel)
    BY DEF NextFed
  <2>1. CASE s.next.sel = old
    BY <1>1, <1>7, <2>1 DEF InCode
  <2>2. CASE s.next.sel # old
    <3>1. s.next.sel \in O \/ InCode(s.ops, s.next.sel)
      BY <1>1 DEF Fed, NextFed
    <3> QED BY <1>1, <1>5, <2>2, <3>1
  <2> QED BY <2>1, <2>2
<1> QED BY <1>6, <1>8, <1>9 DEF Fed, CodeFed

\* From s to t only the code has changed, and its uses.
LEMMA MovedFed ==
  ASSUME NEW s \in StateType, NEW t \in StateType, SameState(s, t),
         NEW f, NEW at, NEW N, IsShifted(s.ops, t.ops, f, at, N),
         NEW O, Fed(s, O), O \subseteq N,
         \A m \in DOMAIN t.ops :
           \/ \A a \in DOMAIN t.ops[m].args : Given(t.ops, m, N, t.ops[m].args[a])
           \/ \E n \in at : m = f[n] /\ t.ops[m] = s.ops[n]
  PROVE  Fed(t, N)
<1>1. /\ \A j \in at : \A v : Above(s.ops, j, v) => v \in N \/ Above(t.ops, f[j], v)
      /\ \A v : InCode(s.ops, v) => v \in N \/ InCode(t.ops, v)
  BY ShiftedFacts
<1>2. ASSUME NEW m \in DOMAIN t.ops, NEW a \in DOMAIN t.ops[m].args
      PROVE  Given(t.ops, m, N, t.ops[m].args[a])
  <2>1. CASE \E n \in at : m = f[n] /\ t.ops[m] = s.ops[n]
    <3>1. PICK n \in at : m = f[n] /\ t.ops[m] = s.ops[n]
      BY <2>1
    <3>2. n \in DOMAIN s.ops
      BY DEF IsShifted
    <3>3. Given(s.ops, n, O, t.ops[m].args[a])
      BY <3>1, <3>2 DEF Fed, CodeFed
    <3> QED BY <1>1, <3>1, <3>3 DEF Given
  <2> QED BY <2>1
<1>3. NextFed(t, N)
  BY <1>1 DEF SameState, Fed, NextFed
<1> QED BY <1>2, <1>3 DEF Fed, CodeFed

\* A state without one of its operations is fed if the value of that one comes from outside.
LEMMA RemovedFed ==
  ASSUME NEW s \in StateType, NEW t \in StateType, SameState(s, t), NEW n \in DOMAIN s.ops,
         s.ops[n].op # "apply", t.ops = RemoveAt(s.ops, n),
         NEW O, Fed(s, O), NEW N, O \subseteq N, s.ops[n].res \in N
  PROVE  Fed(t, N) /\ Holds(s, t, N)
<1>1. /\ s.ops \in Seq(Operation) /\ Len(s.ops) \in Nat /\ DOMAIN s.ops = 1..Len(s.ops)
  BY StateFacts
<1>2. IsRemoved(t.ops, s.ops, n)
  BY <1>1, Removed
<1>3. PICK at, f : at = DOMAIN s.ops \ {n} /\ f = [m \in DOMAIN s.ops |-> IF m < n THEN m ELSE m - 1]
  OBVIOUS
<1>4. \A m \in at : f[m] \in DOMAIN t.ops /\ t.ops[f[m]] = s.ops[m]
  <2> TAKE m \in at
  <2>1. CASE m < n
    <3>1. m \in 1..n - 1 /\ f[m] = m
      BY <1>1, <1>3, <2>1
    <3> QED BY <1>2, <3>1 DEF IsRemoved
  <2>2. CASE ~(m < n)
    <3>1. m \in n + 1..Len(s.ops) /\ f[m] = m - 1
      BY <1>1, <1>3, <2>2
    <3> QED BY <1>2, <3>1 DEF IsRemoved
  <2> QED BY <2>1, <2>2
<1>5. IsShifted(s.ops, t.ops, f, at, N)
  <2>1. \A m, l \in at : m < l => f[m] < f[l]
    BY <1>1, <1>3
  <2>2. \A m \in DOMAIN s.ops : m \notin at => \A v : Produces(s.ops[m], v) => v \in N
    BY <1>3 DEF Produces
  <2> QED BY <1>3, <1>4, <2>1, <2>2 DEF IsShifted
<1>6. \A m \in DOMAIN t.ops : \E l \in at : m = f[l] /\ t.ops[m] = s.ops[l]
  <2> TAKE m \in DOMAIN t.ops
  <2>0. m \in Int
    BY <1>1, StateFacts
  <2>1. CASE m \in 1..n - 1
    <3>1. m \in at /\ f[m] = m
      BY <1>1, <1>3, <2>1
    <3> QED BY <1>4, <3>1
  <2>2. CASE m + 1 \in n + 1..Len(s.ops)
    <3>1. m + 1 \in at /\ f[m + 1] = m
      BY <1>1, <1>3, <2>0, <2>2
    <3> QED BY <1>4, <3>1
  <2> QED BY <1>2, <2>1, <2>2 DEF IsRemoved
<1>7. Fed(t, N)
  BY <1>5, <1>6, MovedFed
<1>8. Holds(s, t, N)
  <2>1. \A m \in DOMAIN s.ops : s.ops[m].op = "apply" => m \in at
    BY <1>3
  <2> QED BY <1>5, <2>1, ShiftedHolds
<1> QED BY <1>7, <1>8

\* A state with one more operation is fed if the operands of that one are there.
LEMMA InsertedFed ==
  ASSUME NEW s \in StateType, NEW t \in StateType, SameState(s, t), NEW n \in DOMAIN s.ops,
         NEW a \in Operation, t.ops = InsertAfter(s.ops, n, <<a>>),
         NEW O, Fed(s, O), NEW N, O \subseteq N,
         \A b \in DOMAIN a.args : a.args[b] \in N \/ Produces(s.ops[n], a.args[b])
  PROVE  Fed(t, N) /\ Holds(s, t, N)
<1> DEFINE e == <<a>>
<1>1. /\ s.ops \in Seq(Operation) /\ Len(s.ops) \in Nat /\ DOMAIN s.ops = 1..Len(s.ops)
  BY StateFacts
<1>0. e \in Seq(Operation) /\ Len(e) = 1 /\ DOMAIN e = {1} /\ e[1] = a
  OBVIOUS
<1>2. IsInserted(t.ops, s.ops, e, n)
  <2>1. n \in 0..Len(s.ops)
    BY <1>1
  <2> HIDE DEF e
  <2>2. t.ops = InsertAfter(s.ops, n, e)
    BY DEF e
  <2> QED BY <1>0, <1>1, <2>1, <2>2, Inserted
<1> HIDE DEF e
<1>3. PICK f : f = [m \in DOMAIN s.ops |-> IF m <= n THEN m ELSE m + 1]
  OBVIOUS
<1>4. \A m \in DOMAIN s.ops : f[m] \in DOMAIN t.ops /\ t.ops[f[m]] = s.ops[m]
  <2> TAKE m \in DOMAIN s.ops
  <2>1. CASE m <= n
    <3>1. m \in 1..n /\ f[m] = m
      BY <1>1, <1>3, <2>1
    <3> QED BY <1>2, <3>1 DEF IsInserted
  <2>2. CASE ~(m <= n)
    <3>1. m \in n + 1..Len(s.ops) /\ f[m] = m + Len(e)
      BY <1>0, <1>1, <1>3, <2>2
    <3> QED BY <1>2, <3>1 DEF IsInserted
  <2> QED BY <2>1, <2>2
<1>5. IsShifted(s.ops, t.ops, f, DOMAIN s.ops, N)
  <2>1. \A m, l \in DOMAIN s.ops : m < l => f[m] < f[l]
    BY <1>1, <1>3
  <2> QED BY <1>4, <2>1 DEF IsShifted
<1>6. n + 1 \in DOMAIN t.ops /\ t.ops[n + 1] = a
  BY <1>0, <1>2 DEF IsInserted
<1>7. \A b \in DOMAIN a.args : Given(t.ops, n + 1, N, a.args[b])
  <2>1. n \in DOMAIN t.ops /\ t.ops[n] = s.ops[n] /\ n < n + 1
    <3>1. f[n] = n /\ n < n + 1
      BY <1>1, <1>3
    <3> QED BY <1>4, <3>1
  <2> QED BY <2>1 DEF Given, Above
<1>8. \A m \in DOMAIN t.ops : m = n + 1 \/ \E l \in DOMAIN s.ops : m = f[l] /\ t.ops[m] = s.ops[l]
  <2> TAKE m \in DOMAIN t.ops
  <2>1. CASE m \in 1..n
    <3>1. m \in DOMAIN s.ops /\ f[m] = m
      BY <1>1, <1>3, <2>1
    <3> QED BY <1>4, <3>1
  <2>2. CASE \E l \in DOMAIN e : m = n + l
    BY <1>0, <2>2
  <2>3. CASE \E l \in n + 1..Len(s.ops) : m = l + Len(e)
    <3>1. PICK l \in n + 1..Len(s.ops) : m = l + 1
      BY <1>0, <2>3
    <3>2. l \in DOMAIN s.ops /\ f[l] = m
      BY <1>1, <1>3, <3>1
    <3> QED BY <1>4, <3>2
  <2> QED BY <1>2, <2>1, <2>2, <2>3 DEF IsInserted
<1>9. Fed(t, N)
  <2>1. \A m \in DOMAIN t.ops :
           \/ \A b \in DOMAIN t.ops[m].args : Given(t.ops, m, N, t.ops[m].args[b])
           \/ \E l \in DOMAIN s.ops : m = f[l] /\ t.ops[m] = s.ops[l]
    BY <1>6, <1>7, <1>8
  <2> QED BY <1>5, <2>1, MovedFed
<1>10. Holds(s, t, N)
  BY <1>5, ShiftedHolds
<1> QED BY <1>9, <1>10

-----------------------------------------------------------------------------
(* Adjusting feeds the other states *)

\* What the first n operations yield.
Firsts(ops, n) == {v \in Name : Above(ops, n + 1, v)}

\* Besides the values around it and those that are promised to it in D, a state
\* may still use what the first n operations of the block yield.
Allowed(R, B, n, D, i) == OuterValues(R) \cup Firsts(R.states[B].ops, n) \cup D[i]
\* Every use in the parser has its value while the block B is adjusted.
Supplied(R, B, n, D) ==
  /\ CodeFed(R.top, ToSet(R.params))
  /\ Fed(R.states[B], OuterValues(R))
  /\ \A i \in DOMAIN R.states : i # B => Fed(R.states[i], Allowed(R, B, n, D, i))
\* No result of a call is owed.
NoCallIn(R, D) == \A a \in DOMAIN R.states : \A c \in Calls(R.states[a]) : \A i \in DOMAIN R.states : c.res \notin D[i]
\* Nothing is lost from P to Q.
HoldsAll(P, Q) ==
  /\ OuterValues(P) \subseteq OuterValues(Q)
  /\ \A i \in DOMAIN P.states : Holds(P.states[i], Q.states[i], OuterValues(Q))

\* The first values of a block depend on its first operations only.
LEMMA FirstsSame ==
  ASSUME NEW ops \in Seq(Operation), NEW new \in Seq(Operation), NEW n \in Nat,
         \A m \in 1..n : m \in DOMAIN ops /\ m \in DOMAIN new /\ new[m] = ops[m]
  PROVE  Firsts(new, n) = Firsts(ops, n)
<1>1. /\ Len(ops) \in Nat /\ Len(new) \in Nat /\ DOMAIN ops = 1..Len(ops) /\ DOMAIN new = 1..Len(new)
  BY SeqFacts
<1>2. /\ \A m \in DOMAIN ops : m < n + 1 => m \in 1..n
      /\ \A m \in DOMAIN new : m < n + 1 => m \in 1..n
  BY <1>1
<1>3. \A v : Above(new, n + 1, v) <=> Above(ops, n + 1, v)
  BY <1>2 DEF Above
<1> QED BY <1>3 DEF Firsts

\* One more operation yields at most one more value.
LEMMA FirstsMore ==
  ASSUME NEW ops \in Seq(Operation), NEW n \in Nat, n + 1 \in DOMAIN ops, NEW v \in Firsts(ops, n + 1)
  PROVE  v \in Firsts(ops, n) \/ Produces(ops[n + 1], v)
<1>1. DOMAIN ops = 1..Len(ops) /\ Len(ops) \in Nat
  BY SeqFacts
<1>2. v \in Name /\ Above(ops, n + 1 + 1, v)
  BY DEF Firsts
<1>3. PICK m \in DOMAIN ops : m < n + 1 + 1 /\ Produces(ops[m], v)
  BY <1>2 DEF Above
<1>4. m < n + 1 \/ m = n + 1
  BY <1>1, <1>3
<1> QED BY <1>2, <1>3, <1>4 DEF Firsts, Above

\* What the outer values are.
LEMMA OuterFacts ==
  ASSUME NEW P \in ParserType
  PROVE  /\ OuterValues(P) \subseteq Name
         /\ \A v \in Results(P.top) : v \in OuterValues(P)
         /\ \A v \in ToSet(P.params) : v \in OuterValues(P)
BY ParserFacts, ResultsFacts, SeqFacts DEF OuterValues

\* An operation at the end of the parser's body adds its value to the outer ones.
LEMMA OuterAppended ==
  ASSUME NEW P \in ParserType, NEW Q \in ParserType, Q.params = P.params, NEW o \in Operation,
         Q.top = Append(P.top, o)
  PROVE  /\ OuterValues(P) \subseteq OuterValues(Q)
         /\ o.res # NoValue => o.res \in OuterValues(Q)
<1>1. IsAppended(Q.top, P.top, o)
  BY ParserFacts, AppendFacts
<1> QED BY <1>1 DEF IsAppended, OuterValues

\* An operation without operands may follow any code.
LEMMA AppendedFed ==
  ASSUME NEW ops \in Seq(Operation), NEW o \in Operation, o.args = <<>>, NEW new, new = Append(ops, o),
         NEW O, CodeFed(ops, O)
  PROVE  CodeFed(new, O)
<1>1. /\ Len(ops) \in Nat /\ DOMAIN new = 1..Len(ops) + 1 /\ DOMAIN ops = 1..Len(ops)
      /\ new[Len(ops) + 1] = o /\ \A i \in DOMAIN ops : new[i] = ops[i]
  OBVIOUS
<1>2. \A j \in DOMAIN new : j \in DOMAIN ops \/ j = Len(ops) + 1
  BY <1>1
<1>3. \A j \in DOMAIN ops : j \in DOMAIN new
  BY <1>1
<1>4. ASSUME NEW j \in DOMAIN new, NEW a \in DOMAIN new[j].args PROVE Given(new, j, O, new[j].args[a])
  <2>1. CASE j \in DOMAIN ops
    <3>1. Given(ops, j, O, ops[j].args[a])
      BY <1>1, <2>1 DEF CodeFed
    <3> QED BY <1>1, <1>3, <2>1, <3>1 DEF Given, Above
  <2>2. CASE j = Len(ops) + 1
    <3>1. new[j].args = <<>>
      BY <1>1, <2>2
    <3>2. DOMAIN <<>> = {}
      OBVIOUS
    <3> QED BY <3>1, <3>2
  <2> QED BY <1>2, <2>1, <2>2
<1> QED BY <1>4 DEF CodeFed

\* A state that does not use the value of the last operation.
LEMMA Unneeded ==
  ASSUME NEW P \in ParserType, NEW Q, NEW B \in DOMAIN P.states, NEW n \in Nat,
         n + 1 \in DOMAIN P.states[B].ops,
         OuterValues(P) \subseteq OuterValues(Q),
         Firsts(Q.states[B].ops, n) = Firsts(P.states[B].ops, n),
         NEW D, NEW i \in DOMAIN P.states, Fed(P.states[i], Allowed(P, B, n + 1, D, i)),
         \A v \in UsesIn(P.states[i]) : Produces(P.states[B].ops[n + 1], v) => v \in OuterValues(Q)
  PROVE  Fed(P.states[i], Allowed(Q, B, n, D, i))
<1>1. P.states[i] \in StateType /\ P.states[B].ops \in Seq(Operation)
  BY ParserFacts
<1>2. ASSUME NEW v \in UsesIn(P.states[i]), v \in Allowed(P, B, n + 1, D, i)
      PROVE  v \in Allowed(Q, B, n, D, i)
  <2>1. CASE v \in Firsts(P.states[B].ops, n + 1)
    BY <1>1, <2>1, FirstsMore DEF Allowed
  <2> QED BY <1>2, <2>1 DEF Allowed
<1> QED BY <1>1, <1>2, FedFrom

\* A call yields no value that is used elsewhere.
LEMMA CallsDoNotEscape ==
  ASSUME NEW P \in ParserType, UniqueStates(P), IsSSA(P), NEW B \in DOMAIN P.states,
         NEW n \in Nat, n + 1 \in DOMAIN P.states[B].ops, NEW o, o = P.states[B].ops[n + 1],
         o.op = "apply", o.res # NoValue,
         NEW D, NoCallIn(P, D), Supplied(P, B, n + 1, D)
  PROVE  EscapingStates(P, P.states[B].name, o.res) = {}
<1> SUFFICES ASSUME NEW i \in EscapingStates(P, P.states[B].name, o.res) PROVE FALSE
  OBVIOUS
<1>1. i \in DOMAIN P.states /\ P.states[i].name # P.states[B].name /\ o.res \in UsesIn(P.states[i])
  BY DEF EscapingStates
<1>2. i # B /\ P.states[i] \in StateType /\ P.states[B].ops \in Seq(Operation)
  BY <1>1, ParserFacts
<1>3. o.res \in Results(P.states[B].ops)
  BY DEF Results
<1>4. /\ OwnResults(P.states, OuterValues(P)) /\ ApartStates(P.states)
  BY SSAFacts
<1>5. o.res \notin OuterValues(P)
  BY <1>3, <1>4 DEF OwnResults
<1>6. ~InCode(P.states[B].ops, o.res)
  <2> SUFFICES ASSUME NEW m \in DOMAIN P.states[B].ops, Produces(P.states[B].ops[m], o.res) PROVE FALSE
    BY DEF InCode
  <2>1. m = n + 1
    BY <1>4 DEF OwnResults, DefinedOnce, Produces
  <2> QED BY <2>1 DEF Produces
<1>7. o.res \notin Firsts(P.states[B].ops, n + 1)
  BY <1>6, AboveInCode DEF Firsts
<1>8. ~InCode(P.states[i].ops, o.res)
  <2>1. o.res \notin Results(P.states[i].ops)
    BY <1>1, <1>2, <1>3, <1>4 DEF ApartStates
  <2> QED BY <2>1, InCodeResults
<1>9. o.res \notin D[i]
  <2>1. CallOf(o) \in Calls(P.states[B]) /\ CallOf(o).res = o.res
    BY CallsFacts, CallOfFacts
  <2> QED BY <1>1, <2>1 DEF NoCallIn
<1>10. Fed(P.states[i], Allowed(P, B, n + 1, D, i))
  BY <1>1, <1>2 DEF Supplied
<1>11. o.res \in Allowed(P, B, n + 1, D, i) \/ InCode(P.states[i].ops, o.res)
  BY <1>1, <1>2, <1>10, FedUses
<1> QED BY <1>5, <1>7, <1>8, <1>9, <1>11 DEF Allowed

\* Only the escaping states use the value.
LEMMA UnusedElsewhere ==
  ASSUME NEW P, NEW b, NEW v, NEW i \in DOMAIN P.states, P.states[i].name # b,
         i \notin EscapingStates(P, b, v)
  PROVE  v \notin UsesIn(P.states[i])
BY DEF EscapingStates

\* The block itself has enough.
LEMMA FirstsFeed ==
  ASSUME NEW P \in ParserType, NEW B \in DOMAIN P.states,
         NEW n \in Nat, n + 1 \in DOMAIN P.states[B].ops, NEW o, o = P.states[B].ops[n + 1],
         Fed(P.states[B], OuterValues(P)), NEW a \in DOMAIN o.args
  PROVE  o.args[a] \in OuterValues(P) \cup Firsts(P.states[B].ops, n)
<1>1. P.states[B].ops \in Seq(Operation) /\ o \in Operation
  BY ParserFacts, SeqFacts
<1>2. o.args[a] \in Name
  BY <1>1, OpFacts, SeqFacts
<1>3. Given(P.states[B].ops, n + 1, OuterValues(P), o.args[a])
  BY DEF Fed, CodeFed
<1> QED BY <1>2, <1>3 DEF Given, Firsts

\* Nothing is used elsewhere.
LEMMA SameSupplied ==
  ASSUME NEW P \in ParserType, UniqueStates(P), NEW B \in DOMAIN P.states,
         NEW n \in Nat, n + 1 \in DOMAIN P.states[B].ops, NEW o, o = P.states[B].ops[n + 1],
         NEW D, Supplied(P, B, n + 1, D),
         o.res = NoValue \/ EscapingStates(P, P.states[B].name, o.res) = {}
  PROVE  Supplied(P, B, n, D) /\ HoldsAll(P, P)
<1>1. ASSUME NEW i \in DOMAIN P.states, i # B PROVE Fed(P.states[i], Allowed(P, B, n, D, i))
  <2>1. P.states[i].name # P.states[B].name
    BY <1>1 DEF UniqueStates
  <2>2. \A v \in UsesIn(P.states[i]) : ~Produces(o, v)
    BY <2>1, UnusedElsewhere DEF Produces
  <2>3. Fed(P.states[i], Allowed(P, B, n + 1, D, i))
    BY <1>1 DEF Supplied
  <2> QED BY <2>2, <2>3, Unneeded
<1>2. HoldsAll(P, P)
  BY HoldsSelf DEF HoldsAll
<1> QED BY <1>1, <1>2 DEF Supplied

\* moveToTop keeps the code supplied with one operation of the block less.
LEMMA MovedSupplied ==
  ASSUME NEW P \in ParserType, IsSSA(P), HasKinds(P), NEW B \in DOMAIN P.states,
         NEW n \in Nat, n + 1 \in DOMAIN P.states[B].ops, NEW o, o = P.states[B].ops[n + 1],
         o.res # NoValue, NEW D, Supplied(P, B, n + 1, D),
         NEW Q, SameRest(P, Q), IsMoved(P, Q, B, n + 1, o)
  PROVE  Supplied(Q, B, n, D) /\ HoldsAll(P, Q)
<1>1. /\ Q \in ParserType /\ Q.params = P.params /\ DOMAIN Q.states = DOMAIN P.states
      /\ P.states[B] \in StateType /\ Q.states[B] \in StateType
      /\ P.states[B].ops \in Seq(Operation) /\ Q.states[B].ops \in Seq(Operation) /\ o \in Operation
      /\ P.top \in Seq(Operation)
  BY ParserFacts, SeqFacts DEF SameRest
<1>2. /\ o.op = "var" /\ Q.top = Append(P.top, o)
      /\ \A i \in DOMAIN P.states : i # B => Q.states[i] = P.states[i]
      /\ SameState(P.states[B], Q.states[B])
      /\ Q.states[B].ops = RemoveAt(P.states[B].ops, n + 1)
  BY DEF IsMoved
<1>3. o.args = <<>>
  BY <1>2, KindsFacts DEF KindsFit, KindFits
<1>4. OuterValues(P) \subseteq OuterValues(Q) /\ o.res \in OuterValues(Q)
  BY <1>1, <1>2, OuterAppended
<1>5. CodeFed(Q.top, ToSet(Q.params))
  BY <1>1, <1>2, <1>3, AppendedFed DEF Supplied
<1>6. Fed(Q.states[B], OuterValues(Q)) /\ Holds(P.states[B], Q.states[B], OuterValues(Q))
  <2>1. Fed(P.states[B], OuterValues(P))
    BY DEF Supplied
  <2> QED BY <1>1, <1>2, <1>4, <2>1, RemovedFed
<1>7. Firsts(Q.states[B].ops, n) = Firsts(P.states[B].ops, n)
  <2>1. KeepsUpTo(P, Q, B, n + 1)
    BY MovedKeeps
  <2>2. \A m \in 1..n : m \in DOMAIN Q.states[B].ops /\ Q.states[B].ops[m] = P.states[B].ops[m]
    BY <2>1 DEF KeepsUpTo
  <2>3. \A m \in 1..n : m \in DOMAIN P.states[B].ops
    BY <1>1, SeqFacts
  <2> QED BY <1>1, <2>2, <2>3, FirstsSame
<1>8. ASSUME NEW i \in DOMAIN Q.states, i # B PROVE Fed(Q.states[i], Allowed(Q, B, n, D, i))
  <2>1. Fed(P.states[i], Allowed(P, B, n + 1, D, i))
    BY <1>1, <1>8 DEF Supplied
  <2>2. \A v : Produces(o, v) => v \in OuterValues(Q)
    BY <1>4 DEF Produces
  <2>3. Fed(P.states[i], Allowed(Q, B, n, D, i))
    BY <1>1, <1>4, <1>7, <2>1, <2>2, Unneeded
  <2> QED BY <1>1, <1>2, <1>8, <2>3
<1>9. HoldsAll(P, Q)
  BY <1>2, <1>4, <1>6, HoldsSelf DEF HoldsAll
<1> QED BY <1>5, <1>6, <1>8, <1>9 DEF Supplied

\* Each state of E begins with an operation of its own, the others but B are as they were.
IsRefreshed(P, Q, B, n, E, o, m) ==
  \A i \in DOMAIN P.states :
    /\ i \in E => /\ IsReplaced(P.states[i], Q.states[i], o.res, NewValue(P, o, i), m[i])
                  /\ m[i].res = NewValue(P, o, i) /\ m[i].op # "apply"
                  /\ \A a \in DOMAIN m[i].args :
                       m[i].args[a] \in OuterValues(Q) \cup Firsts(P.states[B].ops, n)
    /\ i \notin E /\ i # B => Q.states[i] = P.states[i]

\* Recomputing a value in the escaping states keeps the code supplied with one
\* operation of the block less.
LEMMA RenewedSupplied ==
  ASSUME NEW P \in ParserType, UniqueStates(P), NEW B \in DOMAIN P.states,
         NEW n \in Nat, n + 1 \in DOMAIN P.states[B].ops, NEW o, o = P.states[B].ops[n + 1],
         o.res # NoValue, NEW D, Supplied(P, B, n + 1, D),
         NEW E, E = EscapingStates(P, P.states[B].name, o.res),
         NEW Q, SameRest(P, Q), OuterValues(P) \subseteq OuterValues(Q),
         Firsts(Q.states[B].ops, n) = Firsts(P.states[B].ops, n),
         CodeFed(Q.top, ToSet(Q.params)),
         Fed(Q.states[B], OuterValues(Q)), Holds(P.states[B], Q.states[B], OuterValues(Q)),
         NEW m, IsRefreshed(P, Q, B, n, E, o, m)
  PROVE  Supplied(Q, B, n, D) /\ HoldsAll(P, Q)
<1>1. /\ Q \in ParserType /\ DOMAIN Q.states = DOMAIN P.states
      /\ P.states[B].ops \in Seq(Operation) /\ o \in Operation
  BY ParserFacts, SeqFacts DEF SameRest
<1>2. ASSUME NEW i \in DOMAIN P.states, i # B
      PROVE  /\ Fed(Q.states[i], Allowed(Q, B, n, D, i))
             /\ Holds(P.states[i], Q.states[i], OuterValues(Q))
  <2>1. Fed(P.states[i], Allowed(P, B, n + 1, D, i))
    BY <1>2 DEF Supplied
  <2>2. CASE i \in E
    <3>1. PICK s, t, old, new, op, O, N :
            /\ s = P.states[i] /\ t = Q.states[i] /\ old = o.res /\ new = NewValue(P, o, i) /\ op = m[i]
            /\ O = Allowed(P, B, n + 1, D, i) /\ N = Allowed(Q, B, n, D, i)
      OBVIOUS
    <3>2. s \in StateType /\ t \in StateType /\ Fed(s, O)
      BY <1>1, <2>1, <3>1, ParserFacts
    <3>3. IsReplaced(s, t, old, new, op) /\ op.res = new /\ op.op # "apply" /\ new # NoValue
      BY <1>1, <2>2, <3>1, NewValueFacts DEF IsRefreshed
    <3>4. \A v \in O : v # old => v \in N
      <4> TAKE v \in O
      <4>1. CASE v \in Firsts(P.states[B].ops, n + 1)
        BY <1>1, <3>1, <4>1, FirstsMore DEF Allowed, Produces
      <4> QED BY <3>1, <4>1 DEF Allowed
    <3>5. \A a \in DOMAIN op.args : op.args[a] \in N
      BY <2>2, <3>1 DEF Allowed, IsRefreshed
    <3>6. Fed(t, N) /\ Holds(s, t, N)
      BY ONLY <3>2, <3>3, <3>4, <3>5, ReplacedFed
    <3>7. Holds(s, t, OuterValues(Q))
      <4>1. Len(s.ops) \in Nat /\ DOMAIN s.ops = 1..Len(s.ops)
        BY <3>2, StateFacts
      <4>2. PICK f : f = [j \in DOMAIN s.ops |-> j + 1]
        OBVIOUS
      <4>3. \A j \in DOMAIN s.ops : /\ f[j] \in DOMAIN t.ops /\ f[j] = j + 1
                                    /\ t.ops[f[j]].op = s.ops[j].op /\ t.ops[f[j]].res = s.ops[j].res
        <5>1. \A j \in DOMAIN s.ops : f[j] = j + 1 /\ j + 1 \in 1..Len(s.ops) + 1
          BY ONLY <4>1, <4>2
        <5>2. \A j \in DOMAIN s.ops : /\ j + 1 \in DOMAIN t.ops
                                      /\ t.ops[j + 1].op = s.ops[j].op /\ t.ops[j + 1].res = s.ops[j].res
          BY ONLY <3>3, <4>1 DEF IsReplaced, IsSwapped
        <5> QED BY ONLY <5>1, <5>2
      <4>4. \A j, l \in DOMAIN s.ops : j < l => f[j] < f[l]
        BY ONLY <4>1, <4>3
      <4>5. IsShifted(s.ops, t.ops, f, DOMAIN s.ops, OuterValues(Q))
        BY ONLY <4>3, <4>4 DEF IsShifted
      <4> QED BY <4>5, ShiftedHolds
    <3> QED BY <3>1, <3>6, <3>7
  <2>3. CASE i \notin E
    <3>1. Q.states[i] = P.states[i]
      BY <1>2, <2>3 DEF IsRefreshed
    <3>2. \A v \in UsesIn(P.states[i]) : ~Produces(o, v)
      <4>1. P.states[i].name # P.states[B].name
        BY <1>2 DEF UniqueStates
      <4> QED BY <2>3, <4>1, UnusedElsewhere DEF Produces
    <3>3. Fed(P.states[i], Allowed(Q, B, n, D, i))
      BY <2>1, <3>2, Unneeded
    <3> QED BY <3>1, <3>3, HoldsSelf
  <2> QED BY <2>2, <2>3
<1>3. HoldsAll(P, Q)
  BY <1>2 DEF HoldsAll
<1> QED BY <1>1, <1>2, <1>3 DEF Supplied

\* copyOp keeps the code supplied with one operation of the block less.
LEMMA CopiedSupplied ==
  ASSUME NEW P \in ParserType, UniqueStates(P), IsSSA(P), HasKinds(P), NEW B \in DOMAIN P.states,
         NEW n \in Nat, n + 1 \in DOMAIN P.states[B].ops, NEW o, o = P.states[B].ops[n + 1],
         o.res # NoValue, NEW D, Supplied(P, B, n + 1, D),
         NEW E, E = EscapingStates(P, P.states[B].name, o.res),
         NEW Q, SameRest(P, Q), IsCopiedTo(P, Q, E, o)
  PROVE  Supplied(Q, B, n, D) /\ HoldsAll(P, Q)
<1>1. /\ Q \in ParserType /\ Q.params = P.params /\ DOMAIN Q.states = DOMAIN P.states
      /\ o \in Operation
  BY ParserFacts, SeqFacts DEF SameRest
<1>2. B \notin E
  BY DEF EscapingStates
<1>3. Q.top = P.top /\ Q.states[B] = P.states[B] /\ IsCopied(o)
  BY <1>2 DEF IsCopiedTo
<1>4. OuterValues(Q) = OuterValues(P)
  BY <1>1, <1>3 DEF OuterValues
<1>5. /\ CodeFed(Q.top, ToSet(Q.params)) /\ Fed(Q.states[B], OuterValues(Q))
      /\ Holds(P.states[B], Q.states[B], OuterValues(Q))
  BY <1>1, <1>3, <1>4, HoldsSelf DEF Supplied
<1>6. PICK m : m = [i \in DOMAIN P.states |-> [o EXCEPT !.res = NewValue(P, o, i)]]
  OBVIOUS
<1>7. ASSUME NEW i \in DOMAIN P.states
      PROVE  /\ i \in E => /\ IsReplaced(P.states[i], Q.states[i], o.res, NewValue(P, o, i), m[i])
                           /\ m[i].res = NewValue(P, o, i) /\ m[i].op # "apply"
                           /\ \A a \in DOMAIN m[i].args :
                                m[i].args[a] \in OuterValues(Q) \cup Firsts(P.states[B].ops, n)
             /\ i \notin E /\ i # B => Q.states[i] = P.states[i]
  <2>1. m[i].res = NewValue(P, o, i) /\ m[i].op = o.op /\ m[i].args = o.args
    BY <1>1, <1>6 DEF Operation
  <2>2. o.op # "apply"
    BY <1>3 DEF IsCopied
  <2>3. \A a \in DOMAIN o.args : o.args[a] \in OuterValues(Q) \cup Firsts(P.states[B].ops, n)
    BY <1>4, FirstsFeed DEF Supplied
  <2>4. i \in E => IsReplaced(P.states[i], Q.states[i], o.res, NewValue(P, o, i), m[i])
    BY <1>6 DEF IsCopiedTo
  <2>5. i \notin E => Q.states[i] = P.states[i]
    BY DEF IsCopiedTo
  <2> QED BY <2>1, <2>2, <2>3, <2>4, <2>5
<1>8. OuterValues(P) \subseteq OuterValues(Q) /\ Firsts(Q.states[B].ops, n) = Firsts(P.states[B].ops, n)
  BY <1>3, <1>4
<1>9. IsRefreshed(P, Q, B, n, E, o, m)
  BY <1>7 DEF IsRefreshed
<1> QED BY ONLY <1>5, <1>8, <1>9, RenewedSupplied, P \in ParserType, UniqueStates(P), B \in DOMAIN P.states,
          n \in Nat, n + 1 \in DOMAIN P.states[B].ops, o = P.states[B].ops[n + 1], o.res # NoValue,
          Supplied(P, B, n + 1, D), E = EscapingStates(P, P.states[B].name, o.res), SameRest(P, Q)

\* promoteValToVar keeps the code supplied with one operation of the block less.
LEMMA PromotedSupplied ==
  ASSUME NEW P \in ParserType, UniqueStates(P), IsSSA(P), HasKinds(P), NEW B \in DOMAIN P.states,
         \A i \in DOMAIN P.states : P.states[i].name # <<>>,
         NEW n \in Nat, n + 1 \in DOMAIN P.states[B].ops, NEW o, o = P.states[B].ops[n + 1],
         o.res # NoValue, o.op # "apply", NEW D, Supplied(P, B, n + 1, D),
         NEW E, E = EscapingStates(P, P.states[B].name, o.res),
         NEW Q, SameRest(P, Q), IsPromoted(P, Q, B, n + 1, E, o)
  PROVE  Supplied(Q, B, n, D) /\ HoldsAll(P, Q)
<1>1. /\ Q \in ParserType /\ Q.params = P.params /\ DOMAIN Q.states = DOMAIN P.states
      /\ P.states[B] \in StateType /\ Q.states[B] \in StateType
      /\ P.states[B].ops \in Seq(Operation) /\ Q.states[B].ops \in Seq(Operation) /\ o \in Operation
      /\ P.top \in Seq(Operation)
  BY ParserFacts, SeqFacts DEF SameRest
<1>2. B \notin E /\ E \subseteq DOMAIN P.states /\ \A i \in E : ~IsUnfinished(P.states[i])
  <2>1. B \notin E /\ E \subseteq DOMAIN P.states /\ \A i \in E : UsesIn(P.states[i]) # {}
    BY DEF EscapingStates
  <2> QED BY <2>1, UnfinishedUses
<1>3. PICK l, var, assign : /\ l = Local(P, o) /\ var = Op("var", l, <<>>, 0)
                            /\ assign = Op("assign", NoValue, <<l, o.res>>, 0)
  OBVIOUS
<1>4. l \in Name /\ l # NoValue /\ o.res \in Name
  BY <1>1, <1>3, NewValueFacts, OpFacts
<1>5. /\ var \in Operation /\ var.res = l /\ var.args = <<>>
      /\ assign \in Operation /\ assign.args = <<l, o.res>>
  <2>1. {"var", "assign"} \subseteq OpKinds
    BY DEF OpKinds
  <2>2. <<l, o.res>> \in Seq(Name) /\ <<>> \in Seq(Name)
    BY <1>4
  <2>3. var \in Operation /\ assign \in Operation
    BY <1>3, <1>4, <2>1, <2>2, NoValueName, OpTyped
  <2>4. var.res = l /\ var.args = <<>> /\ assign.args = <<l, o.res>>
    BY <1>3 DEF Op
  <2> QED BY <2>3, <2>4
<1>6. Q.top = Append(P.top, var)
  BY <1>3 DEF IsPromoted
<1>7. OuterValues(P) \subseteq OuterValues(Q) /\ l \in OuterValues(Q)
  BY <1>1, <1>4, <1>5, <1>6, OuterAppended
<1>8. CodeFed(Q.top, ToSet(Q.params))
  BY <1>1, <1>5, <1>6, AppendedFed DEF Supplied
<1>9. Fed(Q.states[B], OuterValues(Q)) /\ Holds(P.states[B], Q.states[B], OuterValues(Q))
  <2>1. SameState(P.states[B], Q.states[B]) /\ Q.states[B].ops = InsertAfter(P.states[B].ops, n + 1, <<assign>>)
    BY <1>3 DEF IsPromoted, Assign
  <2>2. \A b \in DOMAIN assign.args :
          assign.args[b] \in OuterValues(Q) \/ Produces(P.states[B].ops[n + 1], assign.args[b])
    <3> TAKE b \in DOMAIN assign.args
    <3>1. b \in {1, 2}
      BY <1>5
    <3>2. assign.args[1] = l /\ assign.args[2] = o.res
      BY <1>5
    <3> QED BY <1>7, <3>1, <3>2 DEF Produces
  <2>3. Fed(P.states[B], OuterValues(P))
    BY DEF Supplied
  <2> QED BY <1>1, <1>5, <1>7, <2>1, <2>2, <2>3, InsertedFed
<1>10. Firsts(Q.states[B].ops, n) = Firsts(P.states[B].ops, n)
  <2>1. KeepsUpTo(P, Q, B, n + 1)
    <3>1. o.res \in ValuesOf(P)
      <4>1. o.res \in Results(P.states[B].ops)
        BY DEF Results
      <4> QED BY <4>1, ValuesFacts
    <3> QED BY <1>1, <1>2, <3>1, PromotedKeeps
  <2>2. \A m \in 1..n : m \in DOMAIN Q.states[B].ops /\ Q.states[B].ops[m] = P.states[B].ops[m]
    BY <2>1 DEF KeepsUpTo
  <2>3. \A m \in 1..n : m \in DOMAIN P.states[B].ops
    BY <1>1, SeqFacts
  <2> QED BY <1>1, <2>2, <2>3, FirstsSame
<1>11. PICK read, m : /\ read = Op("read", NoValue, <<l>>, 0)
                      /\ m = [i \in DOMAIN P.states |-> [read EXCEPT !.res = NewValue(P, o, i)]]
  OBVIOUS
<1>12. ASSUME NEW i \in DOMAIN P.states
       PROVE  /\ i \in E => /\ IsReplaced(P.states[i], Q.states[i], o.res, NewValue(P, o, i), m[i])
                            /\ m[i].res = NewValue(P, o, i) /\ m[i].op # "apply"
                            /\ \A a \in DOMAIN m[i].args :
                                 m[i].args[a] \in OuterValues(Q) \cup Firsts(P.states[B].ops, n)
              /\ i \notin E /\ i # B => Q.states[i] = P.states[i]
  <2>1. m[i].res = NewValue(P, o, i) /\ m[i].op = "read" /\ m[i].args = <<l>>
    BY <1>11 DEF Op
  <2>2. \A a \in DOMAIN m[i].args : m[i].args[a] \in OuterValues(Q)
    BY <1>7, <2>1
  <2>3. i \in E => IsReplaced(P.states[i], Q.states[i], o.res, NewValue(P, o, i), m[i])
    BY <1>3, <1>11 DEF IsPromoted
  <2>4. i \notin E /\ i # B => Q.states[i] = P.states[i]
    BY DEF IsPromoted
  <2> QED BY <2>1, <2>2, <2>3, <2>4
<1>13. IsRefreshed(P, Q, B, n, E, o, m)
  BY <1>12 DEF IsRefreshed
<1> QED BY ONLY <1>7, <1>8, <1>9, <1>10, <1>13, RenewedSupplied, P \in ParserType, UniqueStates(P), B \in DOMAIN P.states,
          n \in Nat, n + 1 \in DOMAIN P.states[B].ops, o = P.states[B].ops[n + 1], o.res # NoValue,
          Supplied(P, B, n + 1, D), E = EscapingStates(P, P.states[B].name, o.res), SameRest(P, Q)

\* One operation of the block.
LEMMA AdjustSupplied ==
  ASSUME NEW P \in ParserType, UniqueStates(P), IsSSA(P), HasKinds(P), NEW B \in DOMAIN P.states,
         \A i \in DOMAIN P.states : P.states[i].name # <<>>,
         NEW n \in Nat, n + 1 \in DOMAIN P.states[B].ops, NEW o, o = P.states[B].ops[n + 1],
         NEW D, NoCallIn(P, D), Supplied(P, B, n + 1, D),
         NEW Q, Q = AdjustUsesOf(P, P.states[B].name, o)
  PROVE  Supplied(Q, B, n, D) /\ HoldsAll(P, Q)
<1>1. PICK E : E = EscapingStates(P, P.states[B].name, o.res)
  OBVIOUS
<1>2. CASE o.res = NoValue \/ E = {}
  <2>1. Q = P
    BY <1>1, <1>2, AdjustUses
  <2>2. o.res = NoValue \/ EscapingStates(P, P.states[B].name, o.res) = {}
    BY <1>1, <1>2
  <2> QED BY <2>1, <2>2, SameSupplied
<1>3. CASE ~(o.res = NoValue \/ E = {})
  <2>1. o.op # "apply"
    BY <1>1, <1>3, CallsDoNotEscape
  <2>2. \/ o.res # NoValue /\ SameRest(P, Q) /\ IsMoved(P, Q, B, n + 1, o)
        \/ o.res # NoValue /\ SameRest(P, Q) /\ IsCopiedTo(P, Q, E, o)
        \/ o.res # NoValue /\ SameRest(P, Q) /\ IsPromoted(P, Q, B, n + 1, E, o)
    BY <1>1, <1>3, AdjustCases
  <2>3. CASE o.res # NoValue /\ SameRest(P, Q) /\ IsMoved(P, Q, B, n + 1, o)
    BY <2>3, MovedSupplied
  <2>4. CASE o.res # NoValue /\ SameRest(P, Q) /\ IsCopiedTo(P, Q, E, o)
    BY <1>1, <2>4, CopiedSupplied
  <2>5. CASE o.res # NoValue /\ SameRest(P, Q) /\ IsPromoted(P, Q, B, n + 1, E, o)
    BY <1>1, <2>1, <2>5, PromotedSupplied
  <2> QED BY <2>2, <2>3, <2>4, <2>5
<1> QED BY <1>2, <1>3

\* Once only the first n operations are left.
SuppliedTo(P, R, B, n, D) == AdjustedTo(P, R, B, n) /\ Supplied(R, B, n, D) /\ HoldsAll(P, R)

\* So does each turn of the loop of adjustBlockUses.
LEMMA AdjustSuppliedOn ==
  ASSUME NEW P \in ParserType, UniqueStates(P), NEW B \in DOMAIN P.states,
         \A i \in DOMAIN P.states : P.states[i].name # <<>>,
         NEW D, NoCallIn(P, D),
         NEW n \in Nat, NEW R, SuppliedTo(P, R, B, n + 1, D),
         NEW Q, Q = AdjustUsesOf(R, P.states[B].name, P.states[B].ops[n + 1])
  PROVE  SuppliedTo(P, Q, B, n, D)
<1>1. AdjustedTo(P, R, B, n + 1) /\ Supplied(R, B, n + 1, D) /\ HoldsAll(P, R)
  BY DEF SuppliedTo
<1>2. AdjustedTo(P, Q, B, n)
  BY <1>1, AdjustKeepsOn
<1>3. /\ R \in ParserType /\ IsSSA(R) /\ HasKinds(R) /\ DOMAIN R.states = DOMAIN P.states
      /\ \A i \in DOMAIN P.states : R.states[i].name = P.states[i].name /\ Calls(R.states[i]) = Calls(P.states[i])
  BY <1>1 DEF AdjustedTo, Keeps, SameRest
<1>4. UniqueStates(R)
  BY <1>3 DEF UniqueStates
<1>5. NoCallIn(R, D)
  BY <1>3 DEF NoCallIn
<1>6. n + 1 \in DOMAIN R.states[B].ops /\ R.states[B].ops[n + 1] = P.states[B].ops[n + 1]
  <2>1. n + 1 \in 1..n + 1
    OBVIOUS
  <2> QED BY <1>1, <2>1 DEF AdjustedTo
<1>7. Supplied(Q, B, n, D) /\ HoldsAll(R, Q)
  <2>1. Q = AdjustUsesOf(R, R.states[B].name, R.states[B].ops[n + 1])
    BY <1>3, <1>6
  <2>2. B \in DOMAIN R.states /\ \A i \in DOMAIN R.states : R.states[i].name # <<>>
    BY <1>3
  <2> QED BY <1>1, <1>3, <1>4, <1>5, <1>6, <2>1, <2>2, AdjustSupplied
<1>8. HoldsAll(P, Q)
  <2>1. OuterValues(P) \subseteq OuterValues(R) /\ OuterValues(R) \subseteq OuterValues(Q)
    BY <1>1, <1>7 DEF HoldsAll
  <2>2. ASSUME NEW i \in DOMAIN P.states
        PROVE  Holds(P.states[i], Q.states[i], OuterValues(Q))
    <3>1. Holds(P.states[i], R.states[i], OuterValues(R)) /\ Holds(R.states[i], Q.states[i], OuterValues(Q))
      BY <1>1, <1>3, <1>7 DEF HoldsAll
    <3> QED BY <2>1, <3>1, HoldsTrans
  <2> QED BY <2>1, <2>2 DEF HoldsAll
<1> QED BY <1>2, <1>7, <1>8 DEF SuppliedTo

\* All operations of the block.
LEMMA BlockSupplied ==
  ASSUME NEW P \in ParserType, UniqueStates(P), IsSSA(P), HasKinds(P), NEW B \in DOMAIN P.states,
         \A i \in DOMAIN P.states : P.states[i].name # <<>>,
         NEW D, NoCallIn(P, D), Supplied(P, B, Len(P.states[B].ops), D),
         NEW Q, Q = AdjustBlockUses(P, P.states[B].name)
  PROVE  Supplied(Q, B, 0, D) /\ HoldsAll(P, Q)
<1> DEFINE b == P.states[B].name
           ops == P.states[B].ops
           L == Len(ops)
<1>1. /\ b \in StateNames(P) /\ StateNamed(P, b).ops = ops /\ L \in Nat /\ DOMAIN ops = 1..L
  <2>1. b \in StateNames(P)
    BY DEF StateNames
  <2>2. StateNamed(P, b) = P.states[B]
    BY <2>1, StateAtFacts
  <2>3. P.states[B] \in StateType
    BY ParserFacts
  <2> QED BY <2>1, <2>2, <2>3, StateFacts
<1>2. PICK f : Q = f[0] /\ IsAdjusting(f, P, b, ops)
  BY <1>1, AdjustSteps
<1> DEFINE T == {m \in Nat : m <= L => SuppliedTo(P, f[L - m], B, L - m, D)}
<1>3. 0 \in T
  <2>1. f[L] = P /\ L - 0 = L /\ \A m \in 1..L : m \in DOMAIN ops
    BY <1>1, <1>2 DEF IsAdjusting
  <2>2. AdjustedTo(P, P, B, L)
    BY <2>1, KeepsSelf DEF AdjustedTo
  <2>3. HoldsAll(P, P)
    BY HoldsSelf DEF HoldsAll
  <2> QED BY <2>1, <2>2, <2>3 DEF SuppliedTo
<1>4. ASSUME NEW m \in Nat, m \in T PROVE m + 1 \in T
  <2> SUFFICES ASSUME m + 1 <= L PROVE SuppliedTo(P, f[L - (m + 1)], B, L - (m + 1), D)
    BY <1>4
  <2> DEFINE n == L - (m + 1)
  <2>1. n \in Nat /\ n + 1 = L - m /\ n \in 0..L - 1 /\ m <= L
    BY <1>1
  <2>2. SuppliedTo(P, f[n + 1], B, n + 1, D)
    BY <1>4, <2>1
  <2> HIDE DEF n
  <2>3. f[n] = AdjustUsesOf(f[n + 1], P.states[B].name, P.states[B].ops[n + 1])
    BY <1>2, <2>1 DEF IsAdjusting
  <2>4. SuppliedTo(P, f[n], B, n, D)
    BY <2>1, <2>2, <2>3, AdjustSuppliedOn
  <2> QED BY <2>4 DEF n
<1>5. L \in T
  <2> HIDE DEF T, L
  <2> QED BY <1>1, <1>3, <1>4, Induction
<1>6. SuppliedTo(P, f[0], B, 0, D)
  <2>1. L - L = 0 /\ L <= L
    BY <1>1
  <2> QED BY <1>5, <2>1
<1> QED BY <1>2, <1>6 DEF SuppliedTo

-----------------------------------------------------------------------------
(* Well-formed code *)

\* Names are not marks; nothing else in the parser is named like an instance in
\* J or has a name that begins with its name.
HasNames(P, J) ==
  /\ \A x \in StateNames(P) \cup InstanceNames(P) \cup ValuesOf(P) : IsStem(x)
  /\ UniqueStates(P) /\ UniqueInsts(P)
  /\ \A a \in J : \A n \in StateNames(P) \cup ValuesOf(P) : Apart(a, n)
  /\ \A a, b \in J : a # b => Apart(a, b)

\* Every call names an instance that is there.
CallsKnown(P) == \A i \in DOMAIN P.states : \A c \in Calls(P.states[i]) : c.inst \in InstanceNames(P)

\* The code of a parser in a module.
CodeFits(M, P, J) ==
  /\ IsSSA(P) /\ HasKinds(P) /\ IsLinked(M, P)
  /\ HasNames(P, J)
  /\ CallsKnown(P)

\* The types of the job.
SplitType == [pre : Name, post : Name]

JobType(parsers) ==
  [parser : parsers \cup {""}, inst : Name, calls : Seq(Name), splits : Seq(SplitType), at : Nat]

\* Parsers are not recursive.
IsRanked(M) == \E rank \in [DOMAIN M -> 0..Cardinality(DOMAIN M)] : Ranked(M, rank)

\* The instance and its calls in the parser P.
JobFits(M, P, inst, calls, pending) ==
  /\ \E x \in ToSet(P.insts) : x.name = inst /\ x.callee \in DOMAIN M
  /\ \A k, l \in DOMAIN calls : calls[k] = calls[l] => k = l
  /\ \A k \in pending : \E i \in DOMAIN P.states : \E c \in Calls(P.states[i]) :
       c.inst = inst /\ c.res = calls[k]
  /\ \A i \in DOMAIN P.states : \A c \in Calls(P.states[i]) :
       c.inst = inst => \E k \in pending : c.res = calls[k]

\* The states that were created for splits exist and differ from each other.
SplitNames(P, inst, splits) ==
  /\ \A k \in DOMAIN splits :
       /\ splits[k].pre \in StateNames(P) /\ splits[k].post \in StateNames(P)
       /\ Apart(inst, splits[k].pre) /\ Apart(inst, splits[k].post)
  /\ \A k, l \in DOMAIN splits :
       /\ splits[k].pre # splits[l].post
       /\ splits[k].pre = splits[l].pre \/ splits[k].post = splits[l].post => k = l

\* A state without code waits as such for its code.
SplitStates(P, splits, waiting, bare) ==
  \A k \in DOMAIN splits : \A i \in DOMAIN P.states :
    /\ P.states[i].name = splits[k].post /\ k \in waiting => IsUnfinished(P.states[i])
    /\ P.states[i].name = splits[k].pre /\ k \in bare => IsUnfinished(P.states[i])
    /\ P.states[i].name = splits[k].pre /\ k \in waiting => Calls(P.states[i]) = {}

\* The copied states do not call the instance.
CopiesCallOthers(P, inst) ==
  \A i \in DOMAIN P.states :
    Begins(P.states[i].name, inst) => \A c \in Calls(P.states[i]) : c.inst # inst

\* SharedOps, CallPrefix and StateName by the parts of the job they depend on.
SharedIn(C) == Chosen(C.top, {j \in DOMAIN C.top : IsShared(C.top[j])})

CopyPrefix(inst, k) == inst \o Marks("#", k)
CopyName(inst, many, k, n) == (IF many THEN CopyPrefix(inst, k) ELSE inst) \o n

\* While the states of C are copied to P: what the copies refer to is there, and
\* only the copies made so far (before the at-th one) have names that begin with
\* the name of the instance.
FreshIn(P, C, inst, many, at, J) ==
  /\ \A w \in Results(SharedIn(C)) : inst \o w \in Results(P.top)
  /\ \A x \in ToSet(C.insts) : \E y \in ToSet(P.insts) : y.name = inst \o x.name /\ y.callee = x.callee
  /\ \A a \in J : Apart(a, inst) \/ \E b \in InstanceNames(C) : a = inst \o b
  /\ \A n \in StateNames(P) :
       /\ ~Begins(inst, n)
       /\ Begins(n, inst) => \E k \in 1..at - 1 : \E s \in StateNames(C) : n = CopyName(inst, many, k, s)
  /\ \A v \in ValuesOf(P) :
       /\ ~Begins(inst, v)
       /\ Begins(v, inst) =>
            \/ \E w \in Results(SharedIn(C)) : v = inst \o w
            \/ \E k \in 1..at - 1 : \E w \in ValuesOf(C) : v = CopyPrefix(inst, k) \o w

\* An instance has a call in a conditional.
HasDeep(P, inst) == \E i \in DOMAIN P.states : \E c \in Calls(P.states[i]) : c.inst = inst /\ c.deep

-----------------------------------------------------------------------------
(* The parts of a module *)

\* An instance fits in its parser and to its callee.
InstFits(M, P, x) ==
  /\ \A a \in DOMAIN x.args : \E c \in ToSet(P.top) : c.res = x.args[a] /\ c.op \in {"const", "ctor"}
  /\ x.callee \in DOMAIN M =>
       /\ \A o \in ToSet(M[x.callee].top) : o.op = "ctor" => o.lit \in DOMAIN x.args
       /\ \A i \in DOMAIN P.states : \A c \in Calls(P.states[i]) :
            c.inst = x.name => c.arity = Len(M[x.callee].params)

\* IsLinked, instance by instance.
LEMMA LinkedFacts ==
  ASSUME NEW M, NEW P
  PROVE  IsLinked(M, P) <=> \A x \in ToSet(P.insts) : InstFits(M, P, x)
<1>1. ASSUME NEW i \in DOMAIN P.states, NEW x
      PROVE  (\A c \in Calls(P.states[i]) : c.inst = x.name => c.arity = Len(M[x.callee].params))
             <=> \A o \in ToSet(P.states[i].ops) :
                   o.op = "apply" /\ o.inst = x.name => Len(o.args) = Len(M[x.callee].params)
  <2> DEFINE s == P.states[i]
  <2>1. /\ \A o \in ToSet(s.ops) : \E j \in DOMAIN s.ops : s.ops[j] = o
        /\ \A j \in DOMAIN s.ops : s.ops[j] \in ToSet(s.ops)
    BY DEF ToSet
  <2> HIDE DEF s
  <2>2. \A j \in DOMAIN s.ops : CallOf(s.ops[j]).inst = s.ops[j].inst
                               /\ CallOf(s.ops[j]).arity = Len(s.ops[j].args)
    BY CallOfFacts
  <2> QED BY <2>1, <2>2, CallsFacts DEF s
<1> QED BY <1>1 DEF IsLinked, InstFits

\* What a module sees of a parser that changes.
SameSignature(P, Q) ==
  /\ Q.params = P.params
  /\ \A o \in ToSet(Q.top) : o.op = "ctor" => \E p \in ToSet(P.top) : p.op = "ctor" /\ p.lit = o.lit

\* Linking does not depend on the states of callees.
LEMMA LinkedStill ==
  ASSUME NEW M, NEW P, IsLinked(M, P), NEW N, DOMAIN N = DOMAIN M,
         \A p \in DOMAIN M : SameSignature(M[p], N[p])
  PROVE  IsLinked(N, P)
BY LinkedFacts DEF InstFits, SameSignature

\* A parser is not disturbed by a change of another one.
LEMMA FrameCode ==
  ASSUME NEW M, NEW q \in DOMAIN M, NEW Q, NEW N, N = [M EXCEPT ![q] = Q],
         SameSignature(M[q], Q), NEW p \in DOMAIN M, p # q, NEW J, CodeFits(M, M[p], J)
  PROVE  CodeFits(N, N[p], J)
<1>1. DOMAIN N = DOMAIN M /\ N[p] = M[p] /\ \A x \in DOMAIN M : SameSignature(M[x], N[x])
  BY DEF SameSignature
<1> QED BY <1>1, LinkedStill DEF CodeFits

\* The instance with a name.
InstOf(P, inst) == P.insts[CHOOSE i \in DOMAIN P.insts : P.insts[i].name = inst]

\* There is one instance with the name.
LEMMA InstOfFacts ==
  ASSUME NEW P, UniqueInsts(P), NEW x \in ToSet(P.insts)
  PROVE  InstOf(P, x.name) = x
<1>1. PICK i \in DOMAIN P.insts : P.insts[i] = x
  BY DEF ToSet
<1>2. \A k \in DOMAIN P.insts : P.insts[k].name = x.name => k = i
  BY <1>1 DEF UniqueInsts
<1>3. (CHOOSE k \in DOMAIN P.insts : P.insts[k].name = x.name) = i
  BY <1>1, <1>2
<1> QED BY <1>1, <1>3 DEF InstOf

\* The names of instances.
LEMMA InstanceNamesFacts ==
  ASSUME NEW P
  PROVE  \A a : a \in InstanceNames(P) <=> \E x \in ToSet(P.insts) : x.name = a
BY DEF InstanceNames, ToSet

\* The callee of an instance of P is another parser.
LEMMA CalleeDiffers ==
  ASSUME NEW M, IsRanked(M), IsFiniteSet(DOMAIN M), NEW p \in DOMAIN M, NEW x \in ToSet(M[p].insts),
         x.callee \in DOMAIN M
  PROVE  x.callee # p
<1>1. PICK rank \in [DOMAIN M -> 0..Cardinality(DOMAIN M)] : Ranked(M, rank)
  BY DEF IsRanked
<1>2. rank[x.callee] < rank[p] /\ rank[p] \in Nat
  BY <1>1, FS_CardinalityType DEF Ranked
<1> QED BY <1>2

-----------------------------------------------------------------------------
(* The source, and the instances to visit *)

\* Different identifiers are apart.
LEMMA IdentifiersApart ==
  ASSUME NEW x \in Name, NEW y \in Name, IsIdentifier(x), IsIdentifier(y)
  PROVE  IsStem(x) /\ (x # y => Apart(x, y))
<1>1. Len(x) = 1 /\ Len(y) = 1 /\ x[1] # "#"
  BY DEF IsIdentifier
<1>2. IsStem(x)
  BY <1>1, NameEmpty DEF IsStem
<1>3. ASSUME x # y PROVE Apart(x, y)
  <2>1. x[1] # y[1]
    <3>1. x[1] = y[1] => x = y
      BY <1>1, NameEqual
    <3> QED BY <1>3, <3>1
  <2> QED BY <1>1, <2>1 DEF Apart, Begins
<1> QED BY <1>2, <1>3

\* Code as the translation makes it is well formed.
LEMMA SourceFits ==
  ASSUME NEW M, IsModule(M), NEW p \in DOMAIN M
  PROVE  CodeFits(M, M[p], InstanceNames(M[p]))
<1> DEFINE P == M[p]
<1>1. /\ P \in ParserType /\ HasIdentifiers(P) /\ IsSSA(P) /\ HasKinds(P) /\ IsLinked(M, P)
      /\ IsValid(P)
  BY DEF IsModule
<1> HIDE DEF P
<1>2. /\ StateNames(P) \subseteq Name /\ InstanceNames(P) \subseteq Name /\ ValuesOf(P) \subseteq Name
  BY <1>1, ParserFacts, ValuesFacts DEF StateNames, InstanceNames
<1>3. \A x \in StateNames(P) \cup InstanceNames(P) \cup ValuesOf(P) : IsIdentifier(x)
  BY <1>1 DEF HasIdentifiers
<1>4. HasNames(P, InstanceNames(P))
  <2>1. \A x \in StateNames(P) \cup InstanceNames(P) \cup ValuesOf(P) : IsStem(x)
    BY <1>2, <1>3, IdentifiersApart
  <2>2. \A a \in InstanceNames(P) : \A n \in StateNames(P) \cup ValuesOf(P) : Apart(a, n)
    BY <1>1, <1>2, <1>3, IdentifiersApart DEF HasIdentifiers
  <2>3. \A a, b \in InstanceNames(P) : a # b => Apart(a, b)
    BY <1>2, <1>3, IdentifiersApart
  <2> QED BY <1>1, <2>1, <2>2, <2>3 DEF HasNames, HasIdentifiers, UniqueStates, UniqueInsts
<1>5. CallsKnown(P)
  <2> SUFFICES ASSUME NEW i \in DOMAIN P.states, NEW c \in Calls(P.states[i])
               PROVE  c.inst \in InstanceNames(P)
    BY DEF CallsKnown
  <2>1. PICK j \in DOMAIN P.states[i].ops :
          P.states[i].ops[j].op = "apply" /\ c = CallOf(P.states[i].ops[j])
    BY CallsFacts
  <2>2. P.states[i].ops[j] \in ToSet(P.states[i].ops)
    BY DEF ToSet
  <2> QED BY <1>1, <2>1, <2>2, CallOfFacts DEF IsValid
<1> QED BY <1>1, <1>4, <1>5 DEF CodeFits, P

\* No job is a job.
LEMMA NoJobType == \A S : NoJob \in JobType(S)
<1>2. <<>> \in Seq(Name) /\ <<>> \in Seq(SplitType) /\ 0 \in Nat
  OBVIOUS
<1> QED BY <1>2, NoValueName DEF NoJob, JobType

\* No job has no calls.
LEMMA NoJobFacts == /\ NoJob.calls = <<>> /\ NoJob.splits = <<>> /\ NoJob.at = 0
                    /\ Len(<<>>) = 0 /\ DOMAIN <<>> = {}
BY DEF NoJob

\* The elements of a sequence are its head and those of its tail.
LEMMA HeadTail ==
  ASSUME NEW S, NEW s \in Seq(S), s # <<>>
  PROVE  /\ Head(s) \in S /\ Tail(s) \in Seq(S)
         /\ ToSet(s) = ToSet(Tail(s)) \cup {Head(s)}
<1>1. /\ Len(s) \in Nat /\ Len(s) # 0 /\ DOMAIN s = 1..Len(s) /\ Head(s) = s[1]
      /\ Tail(s) \in Seq(S) /\ Len(Tail(s)) = Len(s) - 1 /\ DOMAIN Tail(s) = 1..Len(s) - 1
      /\ \A i \in 1..Len(s) - 1 : Tail(s)[i] = s[i + 1]
  OBVIOUS
<1>2. \A i \in DOMAIN s : i = 1 \/ \E k \in DOMAIN Tail(s) : i = k + 1
  <2> TAKE i \in DOMAIN s
  <2>1. CASE i # 1
    <3>1. i - 1 \in DOMAIN Tail(s) /\ i = (i - 1) + 1
      BY <1>1, <2>1
    <3> QED BY <3>1
  <2> QED BY <2>1
<1>3. 1 \in DOMAIN s /\ \A k \in DOMAIN Tail(s) : k + 1 \in DOMAIN s
  BY <1>1
<1>4. Head(s) \in S
  BY <1>1, <1>3
<1>5. ToSet(s) \subseteq ToSet(Tail(s)) \cup {Head(s)}
  BY <1>1, <1>2 DEF ToSet
<1>6. ToSet(Tail(s)) \cup {Head(s)} \subseteq ToSet(s)
  BY <1>1, <1>3 DEF ToSet
<1> QED BY <1>1, <1>4, <1>5, <1>6

\* Pairs, by their parts.
LEMMA PairFacts ==
  \A S, T : \A x \in S \X T : x[1] \in S /\ x[2] \in T /\ x = <<x[1], x[2]>>
OBVIOUS

\* The calls of an instance, when its job begins.
LEMMA VisitFits ==
  ASSUME NEW M, NEW P \in ParserType, IsSSA(P), HasKinds(P), NEW x \in ToSet(P.insts),
         x.callee \in DOMAIN M, NEW calls,
         calls = [k \in DOMAIN CallsOf(P, x.name) |-> CallsOf(P, x.name)[k].res]
  PROVE  calls \in Seq(Name) /\ JobFits(M, P, x.name, calls, DOMAIN calls)
<1> DEFINE inst == x.name
           C == CallsOf(P, inst)
<1>1. /\ C \in Seq(Operation) /\ OneEach(C)
      /\ \A o : o \in ToSet(C) <=>
              \E i \in DOMAIN P.states : \E j \in DOMAIN P.states[i].ops :
                o = P.states[i].ops[j] /\ IsCallOf(o, inst)
  BY CallsOfFacts
<1> HIDE DEF C, inst
<1>2. calls = [k \in DOMAIN C |-> C[k].res]
  BY DEF C, inst
<1>3. /\ Len(C) \in Nat /\ DOMAIN C = 1..Len(C) /\ \A k \in DOMAIN C : C[k] \in Operation
      /\ \A k \in DOMAIN C : C[k] \in ToSet(C)
      /\ \A o \in ToSet(C) : \E k \in DOMAIN C : C[k] = o
  BY <1>1, SeqFacts
<1>4. \A k \in DOMAIN C : C[k].res \in Name
  BY <1>3, OpFacts
<1>5. calls \in Seq(Name) /\ DOMAIN calls = DOMAIN C
  <2>1. calls \in [1..Len(C) -> Name]
    BY <1>2, <1>3, <1>4
  <2> QED BY <1>3, <2>1, AsSeq
<1>6. \A k, l \in DOMAIN calls : calls[k] = calls[l] => k = l
  BY <1>1, <1>2, <1>5 DEF OneEach
<1>7. ASSUME NEW k \in DOMAIN calls
      PROVE  \E i \in DOMAIN P.states : \E c \in Calls(P.states[i]) : c.inst = inst /\ c.res = calls[k]
  <2>1. PICK i \in DOMAIN P.states : \E j \in DOMAIN P.states[i].ops :
          C[k] = P.states[i].ops[j] /\ IsCallOf(C[k], inst)
    BY <1>1, <1>3, <1>5
  <2>2. CallOf(C[k]) \in Calls(P.states[i])
    BY <2>1, CallsFacts DEF IsCallOf
  <2>3. CallOf(C[k]).inst = inst /\ CallOf(C[k]).res = calls[k]
    BY <1>2, <1>5, <2>1, CallOfFacts DEF IsCallOf
  <2> QED BY <2>2, <2>3
<1>8. ASSUME NEW i \in DOMAIN P.states, NEW c \in Calls(P.states[i]), c.inst = inst
      PROVE  \E k \in DOMAIN calls : c.res = calls[k]
  <2>1. PICK j \in DOMAIN P.states[i].ops :
          P.states[i].ops[j].op = "apply" /\ c = CallOf(P.states[i].ops[j])
    BY CallsFacts
  <2> DEFINE o == P.states[i].ops[j]
  <2>2. IsCallOf(o, inst) /\ c.res = o.res
    BY <1>8, <2>1, CallOfFacts DEF IsCallOf
  <2>3. o \in ToSet(C)
    BY <1>1, <2>2
  <2>4. PICK k \in DOMAIN C : C[k] = o
    BY <1>3, <2>3
  <2> QED BY <1>2, <1>5, <2>2, <2>4
<1>9. \E y \in ToSet(P.insts) : y.name = inst /\ y.callee \in DOMAIN M
  BY DEF inst
<1> QED BY <1>5, <1>6, <1>7, <1>8, <1>9 DEF JobFits, inst

-----------------------------------------------------------------------------
(* A parser that changes in its module *)

\* The instances of Q are of parsers that rank below q.
KeepsRank(M, q, Q) ==
  \A rank \in [DOMAIN M -> Int] : Ranked(M, rank) =>
    \A x \in ToSet(Q.insts) : x.callee \in DOMAIN M => rank[x.callee] < rank[q]

\* With such a change the parsers stay without recursion.
LEMMA RankFrame ==
  ASSUME NEW M, IsRanked(M), NEW q \in DOMAIN M, NEW Q, KeepsRank(M, q, Q),
         NEW N, N = [M EXCEPT ![q] = Q]
  PROVE  IsRanked(N)
<1>1. DOMAIN N = DOMAIN M /\ N[q] = Q /\ \A p \in DOMAIN M : p # q => N[p] = M[p]
  OBVIOUS
<1>2. PICK rank \in [DOMAIN M -> 0..Cardinality(DOMAIN M)] : Ranked(M, rank)
  BY DEF IsRanked
<1>3. Ranked(N, rank)
  <2> SUFFICES ASSUME NEW p \in DOMAIN M, NEW x \in ToSet(N[p].insts), x.callee \in DOMAIN M
               PROVE  rank[x.callee] < rank[p]
    BY <1>1 DEF Ranked
  <2>1. CASE p = q
    <3>1. rank \in [DOMAIN M -> Int]
      BY <1>2
    <3> QED BY <1>1, <1>2, <2>1, <3>1 DEF KeepsRank
  <2>2. CASE p # q
    BY <1>1, <1>2, <2>2 DEF Ranked
  <2> QED BY <2>1, <2>2
<1> QED BY <1>1, <1>2, <1>3 DEF IsRanked

\* No new instance, no new rank.
LEMMA SameInstsRank ==
  ASSUME NEW M, NEW q \in DOMAIN M, NEW Q, ToSet(Q.insts) \subseteq ToSet(M[q].insts)
  PROVE  KeepsRank(M, q, Q)
BY DEF KeepsRank, Ranked

\* Other instances, and nothing else.
LEMMA InstsOnly ==
  ASSUME NEW P, NEW Q, Q.params = P.params, Q.top = P.top, Q.states = P.states
  PROVE  /\ IsSSA(P) => IsSSA(Q)
         /\ HasKinds(P) => HasKinds(Q)
         /\ StateNames(Q) = StateNames(P) /\ ValuesOf(Q) = ValuesOf(P)
         /\ UniqueStates(P) => UniqueStates(Q)
         /\ SameSignature(P, Q)
BY DEF IsSSA, HasKinds, StateNames, ValuesOf, UniqueStates, SameSignature

\* Q is P without the instance, and well formed.
IsErased(M, P, Q, J) ==
  /\ Q \in ParserType /\ CodeFits(M, Q, J) /\ SameSignature(P, Q)
  /\ ToSet(Q.insts) \subseteq ToSet(P.insts) /\ InstanceNames(Q) = J

\* To erase an instance that is not called keeps the code well formed.
LEMMA EraseFits ==
  ASSUME NEW M, NEW P \in ParserType, NEW inst, NEW J, J = InstanceNames(P) \ {inst},
         CodeFits(M, P, J),
         \A i \in DOMAIN P.states : \A c \in Calls(P.states[i]) : c.inst # inst,
         NEW Q, Q = [P EXCEPT !.insts = Chosen(@, {i \in DOMAIN @ : @[i].name # inst})]
  PROVE  IsErased(M, P, Q, J)
<1> DEFINE at == {i \in DOMAIN P.insts : P.insts[i].name # inst}
           I == Chosen(P.insts, at)
<1>1. P.insts \in Seq(InstanceType) /\ at \subseteq DOMAIN P.insts
  BY ParserFacts
<1>2. PICK K : IsChosen(I, P.insts, at, K)
  <2> HIDE DEF at
  <2> QED BY <1>1, ChosenFacts
<1>3. I \in Seq(InstanceType) /\ ToSet(I) = {P.insts[n] : n \in at}
  <2> HIDE DEF at
  <2> QED BY <1>1, ChosenSet
<1>4. Q = [P EXCEPT !.insts = I]
  OBVIOUS
<1> HIDE DEF I
<1>5. /\ Q \in ParserType /\ Q.insts = I /\ Q.params = P.params /\ Q.top = P.top
      /\ Q.states = P.states
  BY <1>3, <1>4 DEF ParserType
<1>6. ToSet(I) \subseteq ToSet(P.insts) /\ \A x \in ToSet(P.insts) : x.name # inst => x \in ToSet(I)
  BY <1>3 DEF ToSet
<1>7. \A x \in ToSet(I) : x.name # inst
  BY <1>3
<1>8. InstanceNames(Q) = J
  <2>1. \A a : a \in InstanceNames(Q) <=> \E x \in ToSet(I) : x.name = a
    BY <1>5, InstanceNamesFacts
  <2>2. \A a : a \in InstanceNames(P) <=> \E x \in ToSet(P.insts) : x.name = a
    BY InstanceNamesFacts
  <2>3. \A a : a \in InstanceNames(Q) <=> a \in J
    BY <1>6, <1>7, <2>1, <2>2
  <2> QED BY <2>3
<1>9. UniqueInsts(Q)
  <2> SUFFICES ASSUME NEW a \in DOMAIN I, NEW b \in DOMAIN I, I[a].name = I[b].name
               PROVE  a = b
    BY <1>5 DEF UniqueInsts
  <2>1. /\ K[a] \in at /\ K[b] \in at /\ I[a] = P.insts[K[a]] /\ I[b] = P.insts[K[b]]
        /\ (a < b <=> K[a] < K[b]) /\ (b < a <=> K[b] < K[a])
    BY <1>2 DEF IsChosen
  <2>2. K[a] = K[b]
    <3>1. UniqueInsts(P)
      BY DEF CodeFits, HasNames
    <3>2. K[a] \in DOMAIN P.insts /\ K[b] \in DOMAIN P.insts
      BY <2>1
    <3>3. P.insts[K[a]].name = P.insts[K[b]].name
      BY <2>1
    <3> QED BY ONLY <3>1, <3>2, <3>3 DEF UniqueInsts
  <2>3. K[a] \in Nat /\ a \in Nat /\ b \in Nat
    <3>1. DOMAIN P.insts \subseteq Nat
      <4>1. DOMAIN P.insts = 1..Len(P.insts) /\ Len(P.insts) \in Nat
        BY ONLY <1>1, SeqFacts
      <4> QED BY ONLY <4>1
    <3>2. DOMAIN I \subseteq Nat
      <4>1. DOMAIN I = 1..Len(I) /\ Len(I) \in Nat
        BY ONLY <1>3, SeqFacts
      <4> QED BY ONLY <4>1
    <3> QED BY <2>1, <3>1, <3>2
  <2> QED BY <2>1, <2>2, <2>3
<1>10. HasNames(Q, J)
  BY <1>5, <1>8, <1>9, InstsOnly DEF CodeFits, HasNames
<1>11. CallsKnown(Q)
  BY <1>5, <1>8 DEF CodeFits, CallsKnown
<1>12. IsLinked(M, Q)
  <2>1. \A x \in ToSet(P.insts) : InstFits(M, P, x)
    BY LinkedFacts DEF CodeFits
  <2>2. \A x \in ToSet(I) : InstFits(M, Q, x)
    BY <1>5, <1>6, <2>1 DEF InstFits
  <2> QED BY <1>5, <2>2, LinkedFacts
<1>13. IsSSA(Q) /\ HasKinds(Q) /\ SameSignature(P, Q)
  BY <1>5, InstsOnly DEF CodeFits
<1> QED BY <1>5, <1>6, <1>8, <1>10, <1>11, <1>12, <1>13 DEF CodeFits, IsErased

-----------------------------------------------------------------------------
(* States that come to a parser *)

\* P has got states, Q is it afterwards.
IsExtendedBy(P, Q, new) ==
  /\ Q \in ParserType /\ Q.params = P.params /\ Q.top = P.top /\ Q.insts = P.insts
  /\ Q.start = P.start
  /\ IsMixed(Q.states, P.states, new)

\* A state that fits into P.
StateFits(M, P, J, s) ==
  /\ KindsFit(s) /\ DefinedOnce(s.ops) /\ Results(s.ops) \cap OuterValues(P) = {}
  /\ \A c \in Calls(s) :
       /\ c.inst \in InstanceNames(P)
       /\ \A x \in ToSet(P.insts) : x.name = c.inst /\ x.callee \in DOMAIN M =>
            c.arity = Len(M[x.callee].params)
  /\ \A v \in {s.name} \cup Results(s.ops) : IsStem(v) /\ \A a \in J : Apart(a, v)

\* A parser with the same body and declarations, the states of which fit.
LEMMA StatesFit ==
  ASSUME NEW M, NEW P \in ParserType, NEW J, CodeFits(M, P, J),
         NEW Q \in ParserType, Q.params = P.params, Q.top = P.top, Q.insts = P.insts,
         \A m \in DOMAIN Q.states : \/ \E a \in DOMAIN P.states : Q.states[m] = P.states[a]
                                    \/ StateFits(M, P, J, Q.states[m]),
         ApartStates(Q.states)
  PROVE  CodeFits(M, Q, J)
<1>3. IsSSA(P) /\ HasKinds(P) /\ IsLinked(M, P) /\ HasNames(P, J) /\ CallsKnown(P)
  BY DEF CodeFits
<1>4. IsSSA(Q) /\ UniqueStates(Q)
  <2>1. /\ IsInjective(P.params) /\ ToSet(P.params) \cap Results(P.top) = {}
        /\ DefinedOnce(P.top) /\ OwnResults(P.states, OuterValues(P))
    BY <1>3, SSAFacts
  <2>3. OuterValues(Q) = OuterValues(P)
    BY DEF OuterValues
  <2>4. OwnResults(Q.states, OuterValues(Q))
    BY <2>1, <2>3 DEF OwnResults, StateFits
  <2>5. IsInjective(Q.params) /\ ToSet(Q.params) \cap Results(Q.top) = {} /\ DefinedOnce(Q.top)
    BY <2>1
  <2> QED BY <2>4, <2>5, SSAFacts
<1>5. HasKinds(Q)
  <2>1. \A m \in DOMAIN Q.states : KindsFit(Q.states[m])
    <3>1. \A a \in DOMAIN P.states : KindsFit(P.states[a])
      BY <1>3, KindsFacts
    <3> QED BY <3>1 DEF StateFits
  <2>2. \A q \in ToSet(P.top) :
          q.op # "apply" /\ (q.op \in {"const", "ctor", "var"} => q.args = <<>> /\ q.res # NoValue)
    BY <1>3, KindsFacts
  <2> QED BY <2>1, <2>2, KindsFacts
<1>6. InstanceNames(Q) = InstanceNames(P)
  BY DEF InstanceNames
<1>7. CallsKnown(Q)
  <2> SUFFICES ASSUME NEW m \in DOMAIN Q.states, NEW c \in Calls(Q.states[m])
               PROVE  c.inst \in InstanceNames(P)
    BY <1>6 DEF CallsKnown
  <2>1. CASE \E a \in DOMAIN P.states : Q.states[m] = P.states[a]
    BY <1>3, <2>1 DEF CallsKnown
  <2>2. CASE StateFits(M, P, J, Q.states[m])
    BY <2>2 DEF StateFits
  <2> QED BY <2>1, <2>2
<1>8. IsLinked(M, Q)
  <2> SUFFICES ASSUME NEW x \in ToSet(P.insts) PROVE InstFits(M, Q, x)
    BY LinkedFacts
  <2>1. InstFits(M, P, x)
    BY <1>3, LinkedFacts
  <2>2. ASSUME x.callee \in DOMAIN M, NEW m \in DOMAIN Q.states, NEW c \in Calls(Q.states[m]),
               c.inst = x.name
        PROVE  c.arity = Len(M[x.callee].params)
    <3>1. CASE \E a \in DOMAIN P.states : Q.states[m] = P.states[a]
      BY <2>1, <2>2, <3>1 DEF InstFits
    <3>2. CASE StateFits(M, P, J, Q.states[m])
      BY <2>2, <3>2 DEF StateFits
    <3> QED BY <3>1, <3>2
  <2>3. \A a \in DOMAIN x.args : \E c \in ToSet(Q.top) : c.res = x.args[a] /\ c.op \in {"const", "ctor"}
    BY <2>1 DEF InstFits
  <2>4. x.callee \in DOMAIN M => \A o \in ToSet(M[x.callee].top) : o.op = "ctor" => o.lit \in DOMAIN x.args
    BY <2>1 DEF InstFits
  <2> QED BY <2>2, <2>3, <2>4 DEF InstFits
<1>9. \A m \in DOMAIN Q.states : \A v \in {Q.states[m].name} \cup Results(Q.states[m].ops) :
        \/ v \in StateNames(P) \cup ValuesOf(P)
        \/ IsStem(v) /\ \A a \in J : Apart(a, v)
  <2> TAKE m \in DOMAIN Q.states
  <2>1. CASE \E a \in DOMAIN P.states : Q.states[m] = P.states[a]
    BY <2>1, ValuesFacts DEF StateNames
  <2>2. CASE StateFits(M, P, J, Q.states[m])
    BY <2>2 DEF StateFits
  <2> QED BY <2>1, <2>2
<1>10. \A v \in ValuesOf(Q) : v \in ValuesOf(P) \/ \E m \in DOMAIN Q.states : v \in Results(Q.states[m].ops)
  BY ValuesFacts
<1>11. HasNames(Q, J)
  <2>1. \A n \in StateNames(Q) \cup ValuesOf(Q) :
          \/ n \in StateNames(P) \cup ValuesOf(P)
          \/ IsStem(n) /\ \A a \in J : Apart(a, n)
    BY <1>9, <1>10 DEF StateNames
  <2>2. UniqueInsts(Q)
    BY <1>3 DEF HasNames, UniqueInsts
  <2> QED BY <1>3, <1>4, <1>6, <2>1, <2>2 DEF HasNames
<1> QED BY <1>4, <1>5, <1>7, <1>8, <1>11 DEF CodeFits

\* A parser with more states that fit is well formed.
LEMMA ExtendedFits ==
  ASSUME NEW M, NEW P \in ParserType, NEW J, CodeFits(M, P, J),
         NEW new, ApartStates(new), Disjoint(P.states, new),
         \A b \in DOMAIN new : StateFits(M, P, J, new[b]),
         NEW Q, IsExtendedBy(P, Q, new)
  PROVE  CodeFits(M, Q, J)
<1>1. /\ Q \in ParserType /\ Q.params = P.params /\ Q.top = P.top /\ Q.insts = P.insts
      /\ IsMixed(Q.states, P.states, new)
  BY DEF IsExtendedBy
<1>2. \A m \in DOMAIN Q.states : \/ \E a \in DOMAIN P.states : Q.states[m] = P.states[a]
                                 \/ StateFits(M, P, J, Q.states[m])
  BY <1>1 DEF IsMixed
<1>3. ApartStates(Q.states)
  <2>1. ApartStates(P.states)
    BY SSAFacts DEF CodeFits, HasNames
  <2> QED BY <1>1, <2>1, MixedApart
<1> QED BY <1>1, <1>2, <1>3, StatesFit

\* Calls of the code before are calls of the code after.
CallsStay(P, Q) ==
  \A i \in DOMAIN P.states : \A c \in Calls(P.states[i]) :
    \E m \in DOMAIN Q.states : c \in Calls(Q.states[m])

\* More states do not take calls away.
LEMMA ExtendedCalls ==
  ASSUME NEW P, NEW Q, NEW new, IsMixed(Q.states, P.states, new)
  PROVE  CallsStay(P, Q)
BY DEF IsMixed, CallsStay

-----------------------------------------------------------------------------
(* Splitting a state *)

\* A name that can be given to a state of P.
NewName(P, J, n) ==
  n \in Name /\ n \notin StateNames(P) /\ IsStem(n) /\ \A a \in J : Apart(a, n)

\* UniqueName finds such names for the two states of a split.
LEMMA SplitName ==
  ASSUME NEW P \in ParserType, NEW J \in SUBSET Name, HasNames(P, J), NEW B \in DOMAIN P.states,
         NEW word \in {"pre", "post"}
  PROVE  /\ NewName(P, J, UniqueName(P, P.states[B].name \o <<word>>))
         /\ Begins(UniqueName(P, P.states[B].name \o <<word>>), P.states[B].name \o <<word>>)
<1> DEFINE s == P.states[B].name
           base == s \o <<word>>
           n == UniqueName(P, base)
<1>1. s \in Name /\ s \in StateNames(P)
  BY ParserFacts DEF StateNames
<1>2. <<word>> \in Name
  BY Words DEF Name
<1> HIDE DEF s
<1>3. base \in Name /\ Begins(base, s)
  BY <1>1, <1>2, BeginsConcat
<1> HIDE DEF base
<1>4. n \in Name /\ n \notin StateNames(P) /\ Begins(n, base)
  BY <1>3, UniqueNameFacts
<1> HIDE DEF n
<1>5. Begins(n, s)
  BY <1>1, <1>3, <1>4, BeginsTrans
<1>6. IsStem(n)
  BY <1>1, <1>4, <1>5, StemLonger DEF HasNames
<1>7. \A a \in J : Apart(a, n)
  BY <1>1, <1>4, <1>5, ApartLonger DEF HasNames
<1> QED BY <1>4, <1>6, <1>7 DEF NewName, n, base, s

\* The two names differ.
LEMMA SplitNamesDiffer ==
  ASSUME NEW s \in Name, NEW x, NEW y, Begins(x, s \o <<"pre">>), Begins(y, s \o <<"post">>)
  PROVE  x # y
<1>1. <<"pre">> \in Name /\ <<"post">> \in Name
  BY Words DEF Name
<1>2. /\ Len(s) \in Nat /\ Len(s \o <<"pre">>) = Len(s) + 1 /\ Len(s \o <<"post">>) = Len(s) + 1
      /\ (s \o <<"pre">>)[Len(s) + 1] = "pre" /\ (s \o <<"post">>)[Len(s) + 1] = "post"
  <2>1. Len(<<"pre">>) = 1 /\ Len(<<"post">>) = 1 /\ <<"pre">>[1] = "pre" /\ <<"post">>[1] = "post"
    OBVIOUS
  <2>2. 1 \in 1..1
    OBVIOUS
  <2> QED BY <1>1, <2>1, <2>2, NameConcat
<1>3. x[Len(s) + 1] = "pre" /\ y[Len(s) + 1] = "post"
  BY <1>2 DEF Begins
<1> QED BY <1>3

\* Two empty states for the code around a call.
IsSplitInto(P, Q, B, pre, post) ==
  IsExtendedBy(P, Q, <<ParserState(pre, <<>>, Missing), ParserState(post, <<>>, Missing)>>)

\* The missing terminator is a transition for the time being.
LEMMA MissingType == Missing \in Transition
BY NoValueName DEF Missing, NextTo, Transition

\* The states created for a split are unfinished.
LEMMA EmptyState ==
  ASSUME NEW n \in Name
  PROVE  /\ ParserState(n, <<>>, Missing) \in StateType
         /\ ParserState(n, <<>>, Missing).name = n
         /\ IsUnfinished(ParserState(n, <<>>, Missing))
BY MissingType DEF ParserState, StateType, IsUnfinished

\* The two new states leave the code well formed.
LEMMA SplitFits ==
  ASSUME NEW M, NEW P \in ParserType, NEW J \in SUBSET Name, CodeFits(M, P, J),
         NEW B \in DOMAIN P.states, NEW pre, NEW post, pre # post,
         NewName(P, J, pre), NewName(P, J, post), NEW Q,
         Q = InsertStates(P, P.states[B].name, <<ParserState(pre, <<>>, Missing),
                                                 ParserState(post, <<>>, Missing)>>)
  PROVE  IsSplitInto(P, Q, B, pre, post) /\ CodeFits(M, Q, J)
<1> DEFINE s1 == ParserState(pre, <<>>, Missing)
           s2 == ParserState(post, <<>>, Missing)
           new == <<s1, s2>>
<1>1. /\ s1 \in StateType /\ s2 \in StateType /\ s1.name = pre /\ s2.name = post
      /\ IsUnfinished(s1) /\ IsUnfinished(s2)
  BY EmptyState DEF NewName
<1> HIDE DEF s1, s2
<1>2. new \in Seq(StateType) /\ DOMAIN new = {1, 2} /\ new[1] = s1 /\ new[2] = s2
  BY <1>1
<1> HIDE DEF new
<1>3. IsExtendedBy(P, Q, new)
  <2>1. Q = InsertStates(P, P.states[B].name, new) /\ UniqueStates(P)
    BY DEF new, s1, s2, CodeFits, HasNames
  <2> QED BY <1>2, <2>1, InsertStatesFacts DEF IsExtendedBy
<1>4. \A b \in DOMAIN new : /\ Calls(new[b]) = {} /\ Results(new[b].ops) = {} /\ new[b].ops = <<>>
                            /\ NewName(P, J, new[b].name)
  BY <1>1, <1>2, UnfinishedUses DEF IsUnfinished
<1>5. ApartStates(new)
  BY <1>1, <1>2, <1>4 DEF ApartStates
<1>6. Disjoint(P.states, new)
  BY <1>4 DEF Disjoint, NewName, StateNames
<1>7. \A b \in DOMAIN new : StateFits(M, P, J, new[b])
  BY <1>4 DEF StateFits, NewName, KindsFit, DefinedOnce
<1>8. CodeFits(M, Q, J)
  BY <1>3, <1>5, <1>6, <1>7, ExtendedFits
<1> QED BY <1>3, <1>8 DEF IsSplitInto, new, s1, s2

\* The states of the code after the split.
HasSplit(P, Q, pre, post) ==
  /\ \A m \in DOMAIN Q.states :
       \/ \E i \in DOMAIN P.states : Q.states[m] = P.states[i]
       \/ Q.states[m].name \in {pre, post} /\ IsUnfinished(Q.states[m])
  /\ StateNames(Q) = StateNames(P) \cup {pre, post}
  /\ CallsStay(P, Q) /\ CallsStay(Q, P)

\* The two states are there, with no code, and all others are as before.
LEMMA SplitStatesAre ==
  ASSUME NEW P, NEW Q, NEW B, NEW pre \in Name, NEW post \in Name, IsSplitInto(P, Q, B, pre, post)
  PROVE  HasSplit(P, Q, pre, post)
<1> DEFINE s1 == ParserState(pre, <<>>, Missing)
           s2 == ParserState(post, <<>>, Missing)
           new == <<s1, s2>>
<1>1. s1.name = pre /\ s2.name = post /\ IsUnfinished(s1) /\ IsUnfinished(s2)
  BY EmptyState
<1>2. IsMixed(Q.states, P.states, new)
  BY DEF IsSplitInto, IsExtendedBy
<1> HIDE DEF s1, s2
<1>3. DOMAIN new = {1, 2} /\ new[1] = s1 /\ new[2] = s2
  OBVIOUS
<1> HIDE DEF new
<1>4. \A m \in DOMAIN Q.states :
        \/ \E i \in DOMAIN P.states : Q.states[m] = P.states[i]
        \/ Q.states[m].name \in {pre, post} /\ IsUnfinished(Q.states[m])
  BY <1>1, <1>2, <1>3 DEF IsMixed
<1>5. \A i \in DOMAIN P.states : \E m \in DOMAIN Q.states : Q.states[m] = P.states[i]
  BY <1>2 DEF IsMixed
<1>6. \E m, l \in DOMAIN Q.states : Q.states[m] = s1 /\ Q.states[l] = s2
  BY <1>2, <1>3 DEF IsMixed
<1>7. StateNames(Q) = StateNames(P) \cup {pre, post}
  BY <1>1, <1>4, <1>5, <1>6 DEF StateNames
<1>8. CallsStay(P, Q)
  BY <1>5 DEF CallsStay
<1>9. CallsStay(Q, P)
  BY <1>4, UnfinishedUses DEF CallsStay
<1> QED BY <1>4, <1>7, <1>8, <1>9 DEF HasSplit

\* A job stays valid when no call of the parser comes or goes.
LEMMA JobStays ==
  ASSUME NEW M, NEW P, NEW inst, NEW calls, NEW pending, JobFits(M, P, inst, calls, pending),
         NEW Q, CallsStay(P, Q), CallsStay(Q, P),
         ToSet(P.insts) \subseteq ToSet(Q.insts), NEW N, DOMAIN N = DOMAIN M
  PROVE  JobFits(N, Q, inst, calls, pending)
<1>1. ASSUME NEW k \in pending
      PROVE  \E i \in DOMAIN Q.states : \E c \in Calls(Q.states[i]) : c.inst = inst /\ c.res = calls[k]
  BY DEF JobFits, CallsStay
<1>2. ASSUME NEW i \in DOMAIN Q.states, NEW c \in Calls(Q.states[i]), c.inst = inst
      PROVE  \E k \in pending : c.res = calls[k]
  BY <1>2 DEF JobFits, CallsStay
<1> QED BY <1>1, <1>2 DEF JobFits

\* A deep call that stays stays deep.
LEMMA DeepStays ==
  ASSUME NEW P, NEW Q, CallsStay(P, Q)
  PROVE  \A inst : HasDeep(P, inst) => HasDeep(Q, inst)
BY DEF CallsStay, HasDeep

-----------------------------------------------------------------------------
(* The code after splitting and after giving up *)

\* The splits with one more still wait for their code.
OneMore(Q, inst, splits, more) ==
  /\ more \in Seq(SplitType) /\ Len(more) = Len(splits) + 1
  /\ DOMAIN more = DOMAIN splits \cup {Len(splits) + 1}
  /\ SplitNames(Q, inst, more) /\ SplitStates(Q, more, DOMAIN more, DOMAIN more)

\* SplitState makes one more split.
LEMMA SplitsGrow ==
  ASSUME NEW P, NEW inst, NEW splits \in Seq(SplitType), SplitNames(P, inst, splits),
         SplitStates(P, splits, DOMAIN splits, DOMAIN splits),
         NEW pre \in Name, NEW post \in Name, pre # post,
         pre \notin StateNames(P), post \notin StateNames(P), Apart(inst, pre), Apart(inst, post),
         NEW B, NEW Q, IsSplitInto(P, Q, B, pre, post),
         NEW more, more = Append(splits, [pre |-> pre, post |-> post])
  PROVE  OneMore(Q, inst, splits, more)
<1> DEFINE new == [pre |-> pre, post |-> post]
<1>1. new \in SplitType /\ new.pre = pre /\ new.post = post
  BY DEF SplitType
<1>2. PICK n : n = Len(splits) + 1
  OBVIOUS
<1> HIDE DEF new
<1>3. /\ more \in Seq(SplitType) /\ Len(more) = n
      /\ Len(splits) \in Nat /\ DOMAIN splits = 1..Len(splits) /\ DOMAIN more = 1..n
      /\ more[n] = new /\ \A k \in DOMAIN splits : more[k] = splits[k]
  BY <1>1, <1>2 DEF new
<1>4. DOMAIN more = DOMAIN splits \cup {n} /\ n \notin DOMAIN splits
  BY <1>2, <1>3
<1>5. /\ \A m \in DOMAIN Q.states :
           \/ \E i \in DOMAIN P.states : Q.states[m] = P.states[i]
           \/ Q.states[m].name \in {pre, post} /\ IsUnfinished(Q.states[m])
      /\ StateNames(Q) = StateNames(P) \cup {pre, post}
  <2>1. IsSplitInto(P, Q, B, pre, post) /\ pre \in Name /\ post \in Name
    OBVIOUS
  <2>2. HasSplit(P, Q, pre, post)
    BY <2>1, SplitStatesAre
  <2> QED BY <2>2 DEF HasSplit
<1>6. \A i \in DOMAIN P.states : P.states[i].name \in StateNames(P)
  BY DEF StateNames
<1>7. \A k \in DOMAIN more :
        \/ k \in DOMAIN splits /\ more[k].pre = splits[k].pre /\ more[k].post = splits[k].post
        \/ k = n /\ more[k].pre = pre /\ more[k].post = post
  BY <1>1, <1>3, <1>4
<1>8. \A k \in DOMAIN splits : splits[k].pre \in StateNames(P) /\ splits[k].post \in StateNames(P)
  BY DEF SplitNames
<1>9. SplitNames(Q, inst, more)
  <2>1. \A k \in DOMAIN more :
           /\ more[k].pre \in StateNames(Q) /\ more[k].post \in StateNames(Q)
           /\ Apart(inst, more[k].pre) /\ Apart(inst, more[k].post)
    BY <1>5, <1>7 DEF SplitNames
  <2>2. \A k, l \in DOMAIN more :
         /\ more[k].pre # more[l].post
         /\ more[k].pre = more[l].pre \/ more[k].post = more[l].post => k = l
    BY <1>7, <1>8 DEF SplitNames
  <2> QED BY <2>1, <2>2 DEF SplitNames
<1>10. SplitStates(Q, more, DOMAIN more, DOMAIN more)
  <2> SUFFICES ASSUME NEW k \in DOMAIN more, NEW m \in DOMAIN Q.states,
                      Q.states[m].name \in {more[k].pre, more[k].post}
               PROVE  IsUnfinished(Q.states[m])
    <3>1. \A s : IsUnfinished(s) => Calls(s) = {}
      BY UnfinishedUses
    <3> QED BY <3>1 DEF SplitStates
  <2>1. CASE \E i \in DOMAIN P.states : Q.states[m] = P.states[i]
    <3>1. PICK i \in DOMAIN P.states : Q.states[m] = P.states[i]
      BY <2>1
    <3>2. k \in DOMAIN splits /\ Q.states[m].name \in {splits[k].pre, splits[k].post}
      BY <1>6, <1>7, <3>1
    <3> QED BY <3>1, <3>2 DEF SplitStates
  <2> QED BY <1>5, <2>1
<1> QED BY <1>2, <1>3, <1>4, <1>9, <1>10 DEF OneMore

\* What CanSplitAt accepts is no deep call.
LEMMA ShallowSite ==
  ASSUME NEW P \in ParserType, IsSSA(P), NEW id, id # NoValue, CanSplitAt(SiteOf(P, id), id),
         NEW i \in DOMAIN P.states, NEW c \in Calls(P.states[i]), c.res = id
  PROVE  ~c.deep
<1>1. PICK j \in DOMAIN P.states[i].ops :
        P.states[i].ops[j].op = "apply" /\ c = CallOf(P.states[i].ops[j])
  BY CallsFacts
<1>2. P.states[i].ops[j].res = id /\ P.states[i].ops[j].deep = c.deep
  BY <1>1, CallOfFacts
<1>3. SiteOf(P, id) = P.states[i] /\ CallIn(P.states[i], id) = j
  BY <1>2, SiteFacts
<1> QED BY <1>2, <1>3 DEF CanSplitAt

\* P without some states without code.
IsReduced(M, P, Q, J) ==
  /\ Q \in ParserType /\ Q.params = P.params /\ Q.top = P.top /\ Q.insts = P.insts
  /\ CallsStay(P, Q) /\ CallsStay(Q, P)
  /\ CodeFits(M, Q, J)

\* To remove states without code leaves the code well formed.
LEMMA ReducedFits ==
  ASSUME NEW M, NEW P \in ParserType, NEW J, CodeFits(M, P, J), NEW gone,
         \A i \in DOMAIN P.states : P.states[i].name \in gone => IsUnfinished(P.states[i]),
         NEW Q, Q = [P EXCEPT !.states = Chosen(@, {i \in DOMAIN @ : @[i].name \notin gone})]
  PROVE  IsReduced(M, P, Q, J)
<1> DEFINE at == {i \in DOMAIN P.states : P.states[i].name \notin gone}
           S == Chosen(P.states, at)
<1>1. P.states \in Seq(StateType) /\ at \subseteq DOMAIN P.states
  BY ParserFacts
<1>2. /\ S \in Seq(StateType) /\ ToSet(S) = {P.states[n] : n \in at}
      /\ \E K : IsChosen(S, P.states, at, K)
  <2> HIDE DEF at
  <2> QED BY <1>1, ChosenFacts, ChosenSet
<1>3. PICK K : IsChosen(S, P.states, at, K)
  BY <1>2
<1>4. Q = [P EXCEPT !.states = S]
  OBVIOUS
<1> HIDE DEF S
<1>5. /\ Q \in ParserType /\ Q.states = S /\ Q.params = P.params /\ Q.top = P.top
      /\ Q.insts = P.insts
  BY <1>2, <1>4 DEF ParserType
<1>6. /\ \A m \in DOMAIN S : K[m] \in DOMAIN P.states /\ S[m] = P.states[K[m]]
      /\ \A n \in DOMAIN P.states : IsUnfinished(P.states[n]) \/ \E m \in DOMAIN S : S[m] = P.states[n]
      /\ \A m, l \in DOMAIN S : K[m] = K[l] => m = l
  <2>1. /\ \A m \in DOMAIN S : K[m] \in at /\ S[m] = P.states[K[m]]
        /\ \A m, l \in DOMAIN S : m < l <=> K[m] < K[l]
        /\ \A n \in at : \E m \in DOMAIN S : K[m] = n
    BY <1>3 DEF IsChosen
  <2>2. \A m \in DOMAIN S : m \in Nat /\ K[m] \in Nat
    <3>1. DOMAIN S = 1..Len(S) /\ DOMAIN P.states = 1..Len(P.states) /\ Len(S) \in Nat /\ Len(P.states) \in Nat
      BY <1>1, <1>2, SeqFacts
    <3> QED BY <1>1, <2>1, <3>1
  <2>3. \A m, l \in DOMAIN S : K[m] = K[l] => m = l
    BY <2>1, <2>2
  <2>4. \A n \in DOMAIN P.states : n \in at \/ IsUnfinished(P.states[n])
    OBVIOUS
  <2> QED BY <1>1, <2>1, <2>3, <2>4
<1>12. \A m \in DOMAIN Q.states : \E n \in DOMAIN P.states : Q.states[m] = P.states[n]
  <2> SUFFICES ASSUME NEW m \in DOMAIN S PROVE \E n \in DOMAIN P.states : S[m] = P.states[n]
    BY <1>5
  <2> QED BY <1>6
<1>7. \A s : IsUnfinished(s) => Calls(s) = {}
  BY UnfinishedUses
<1>8. CallsStay(P, Q)
  BY <1>5, <1>6, <1>7 DEF CallsStay
<1>9. CallsStay(Q, P)
  BY <1>5, <1>6 DEF CallsStay
<1>10. ApartStates(Q.states)
  <2>1. ApartStates(P.states)
    BY SSAFacts DEF CodeFits, HasNames
  <2> SUFFICES ASSUME NEW m \in DOMAIN S, NEW l \in DOMAIN S,
                      S[m].name = S[l].name \/ Results(S[m].ops) \cap Results(S[l].ops) # {}
               PROVE  m = l
    BY <1>5 DEF ApartStates
  <2>2. /\ K[m] \in DOMAIN P.states /\ S[m] = P.states[K[m]]
        /\ K[l] \in DOMAIN P.states /\ S[l] = P.states[K[l]]
    BY <1>6
  <2>3. K[m] = K[l]
    BY <2>1, <2>2 DEF ApartStates
  <2> QED BY <1>6, <2>3
<1>11. CodeFits(M, Q, J)
  BY <1>5, <1>10, <1>12, StatesFit
<1> QED BY <1>5, <1>8, <1>9, <1>11 DEF IsReduced

-----------------------------------------------------------------------------
(* The locals and the instances of the callee *)

\* A name made longer.
LEMMA NameJoin ==
  ASSUME NEW x \in Name, NEW y \in Name, y # NoValue
  PROVE  x \o y \in Name /\ x \o y # NoValue /\ x \o y # x /\ Begins(x \o y, x) /\ ~Begins(x, x \o y)
<1>1. PICK z : z = x \o y
  OBVIOUS
<1>2. z \in Name /\ Begins(z, x) /\ Len(z) = Len(x) + Len(y)
  BY <1>1, NameConcat, BeginsConcat
<1>3. Len(y) # 0 /\ Len(y) \in Nat /\ Len(x) \in Nat /\ Len(z) \in Nat /\ (z = <<>> <=> Len(z) = 0)
  BY <1>2, NameEmpty DEF NoValue
<1>4. Len(z) # 0 /\ ~(Len(z) <= Len(x))
  BY <1>2, <1>3
<1>5. z # NoValue /\ z # x /\ ~Begins(x, z)
  BY <1>2, <1>3, <1>4 DEF Begins, NoValue
<1> QED BY <1>1, <1>2, <1>5

\* The shared operations are the declarations of the callee.
LEMMA SharedFacts ==
  ASSUME NEW C \in ParserType, HasKinds(C)
  PROVE  /\ SharedIn(C) \in Seq(Operation)
         /\ \A o : o \in ToSet(SharedIn(C)) <=> o \in ToSet(C.top) /\ IsShared(o)
         /\ \A o \in ToSet(SharedIn(C)) : o \in Operation /\ o.res # NoValue /\ o.args = <<>>
         /\ DefinedOnce(C.top) => DefinedOnce(SharedIn(C))
         /\ Results(SharedIn(C)) \subseteq Results(C.top)
         /\ Results(SharedIn(C)) \subseteq ValuesOf(C)
<1> DEFINE at == {j \in DOMAIN C.top : IsShared(C.top[j])}
           S == Chosen(C.top, at)
<1>1. C.top \in Seq(Operation) /\ at \subseteq DOMAIN C.top /\ SharedIn(C) = S
  BY ParserFacts DEF SharedIn
<1>2. /\ S \in Seq(Operation) /\ ToSet(S) = {C.top[n] : n \in at}
      /\ \E K : IsChosen(S, C.top, at, K)
  <2> HIDE DEF at
  <2> QED BY <1>1, ChosenFacts, ChosenSet
<1>3. PICK K : IsChosen(S, C.top, at, K)
  BY <1>2
<1> HIDE DEF S
<1>4. \A o : o \in ToSet(S) <=> o \in ToSet(C.top) /\ IsShared(o)
  <2> TAKE o
  <2>1. o \in ToSet(S) => o \in ToSet(C.top) /\ IsShared(o)
    BY <1>2 DEF ToSet
  <2>2. o \in ToSet(C.top) /\ IsShared(o) => o \in ToSet(S)
    BY <1>2 DEF ToSet
  <2> QED BY <2>1, <2>2
<1>5. \A o \in ToSet(S) : o \in Operation /\ o.res # NoValue /\ o.args = <<>>
  <2>1. \A o \in ToSet(S) : o \in Operation
    BY <1>2, SeqFacts
  <2> QED BY <1>4, <2>1 DEF HasKinds, IsShared
<1>6. ASSUME DefinedOnce(C.top) PROVE DefinedOnce(S)
  <2> SUFFICES ASSUME NEW a \in DOMAIN S, NEW b \in DOMAIN S, S[a].res = S[b].res,
                      S[a].res # NoValue
               PROVE  a = b
    BY DEF DefinedOnce
  <2>1. /\ K[a] \in at /\ K[b] \in at /\ S[a] = C.top[K[a]] /\ S[b] = C.top[K[b]]
        /\ (a < b <=> K[a] < K[b]) /\ (b < a <=> K[b] < K[a])
    BY <1>3 DEF IsChosen
  <2>2. K[a] = K[b]
    BY <1>6, <2>1 DEF DefinedOnce
  <2>3. K[a] \in Nat /\ a \in Nat /\ b \in Nat
    <3>1. K[a] \in DOMAIN C.top
      BY <1>1, <2>1
    <3>2. DOMAIN C.top = 1..Len(C.top) /\ DOMAIN S = 1..Len(S)
      BY <1>1, <1>2, SeqFacts
    <3> QED BY <3>1, <3>2
  <2> QED BY <2>1, <2>2, <2>3
<1>7. Results(S) \subseteq Results(C.top)
  <2>1. \A j \in DOMAIN S : \E k \in DOMAIN C.top : S[j] = C.top[k]
    BY <1>3 DEF IsChosen
  <2> QED BY <2>1 DEF Results
<1> QED BY <1>1, <1>2, <1>4, <1>5, <1>6, <1>7, ValuesFacts

\* What CloneShared yields for the instance x in P.
SharedCopy(P, x, o) ==
  IF o.op = "ctor"
  THEN [(CHOOSE c \in ToSet(P.top) : c.res = x.args[o.lit]) EXCEPT !.res = x.name \o o.res]
  ELSE [o EXCEPT !.res = x.name \o o.res]

\* The copy is a declaration with a name of its own.
IsSharedCopy(P, x, o, p) ==
  /\ p \in Operation /\ p.res = x.name \o o.res /\ p.args = <<>> /\ IsShared(p)
  /\ o.op \in {"const", "ctor"} => p.op \in {"const", "ctor"}
  /\ p.op = "ctor" => \E c \in ToSet(P.top) : c.op = "ctor" /\ c.lit = p.lit

\* An operation with another result.
LEMMA OpWithRes ==
  ASSUME NEW o \in Operation, NEW res \in Name, NEW p, p = [o EXCEPT !.res = res]
  PROVE  /\ p \in Operation /\ p.res = res /\ p.op = o.op /\ p.args = o.args /\ p.lit = o.lit
         /\ p.inst = o.inst /\ p.deep = o.deep
BY DEF Operation

\* SharedCopy makes such copies.
LEMMA SharedCopied ==
  ASSUME NEW P \in ParserType, HasKinds(P), NEW x, x.name \in Name,
         NEW o \in Operation, IsShared(o), o.args = <<>>,
         o.op = "ctor" => /\ o.lit \in DOMAIN x.args
                          /\ \E c \in ToSet(P.top) : c.res = x.args[o.lit] /\ c.op \in {"const", "ctor"},
         DefinedOnce(P.top), NEW p, p = SharedCopy(P, x, o)
  PROVE  IsSharedCopy(P, x, o, p)
<1>1. PICK res : res = x.name \o o.res
  OBVIOUS
<1>2. res \in Name
  BY <1>1, OpFacts, NameConcat
<1>3. CASE o.op = "ctor"
  <2>1. PICK c \in ToSet(P.top) : c.res = x.args[o.lit] /\ c.op \in {"const", "ctor"}
    BY <1>3
  <2>2. PICK d : d = CHOOSE c1 \in ToSet(P.top) : c1.res = x.args[o.lit]
    OBVIOUS
  <2>3. d \in ToSet(P.top) /\ d.res = c.res
    BY <2>1, <2>2
  <2>4. c.res # NoValue /\ c.args = <<>>
    BY <2>1 DEF HasKinds
  <2>5. d = c
    <3>1. PICK i \in DOMAIN P.top : P.top[i] = c
      BY DEF ToSet
    <3>2. PICK k \in DOMAIN P.top : P.top[k] = d
      BY <2>3 DEF ToSet
    <3>3. i = k
      BY <2>3, <2>4, <3>1, <3>2 DEF DefinedOnce
    <3> QED BY <3>1, <3>2, <3>3
  <2>6. c \in Operation
    BY ParserFacts, SeqFacts
  <2>7. p = [c EXCEPT !.res = res]
    BY <1>1, <1>3, <2>2, <2>5 DEF SharedCopy
  <2>8. p \in Operation /\ p.res = res /\ p.op = c.op /\ p.args = c.args /\ p.lit = c.lit
    BY <1>2, <2>6, <2>7, OpWithRes
  <2> QED BY <1>1, <2>1, <2>4, <2>8 DEF IsSharedCopy, IsShared
<1>4. CASE o.op # "ctor"
  <2>1. p = [o EXCEPT !.res = res]
    BY <1>1, <1>4 DEF SharedCopy
  <2>2. p \in Operation /\ p.res = res /\ p.op = o.op /\ p.args = o.args
    BY <1>2, <2>1, OpWithRes
  <2> QED BY <1>1, <1>4, <2>2 DEF IsSharedCopy, IsShared
<1> QED BY <1>3, <1>4

\* The copies of all shared operations.
LocalsOf(P, C, x) == [n \in DOMAIN SharedIn(C) |-> SharedCopy(P, x, SharedIn(C)[n])]

\* The copies of the shared operations fit into P.
LocalsFit(P, C, inst, L) ==
  /\ L \in Seq(Operation)
  /\ \A p \in ToSet(L) :
       /\ IsShared(p) /\ p.args = <<>> /\ p.res # NoValue
       /\ p.op = "ctor" => \E c \in ToSet(P.top) : c.op = "ctor" /\ c.lit = p.lit
  /\ \A o \in ToSet(SharedIn(C)) :
       \E p \in ToSet(L) : p.res = inst \o o.res /\ (o.op \in {"const", "ctor"} => p.op \in {"const", "ctor"})
  /\ DefinedOnce(L)
  /\ Results(L) = {inst \o w : w \in Results(SharedIn(C))}

\* They fit into P.
LEMMA LocalsFacts ==
  ASSUME NEW P \in ParserType, NEW C \in ParserType, HasKinds(P), DefinedOnce(P.top),
         HasKinds(C), DefinedOnce(C.top), NEW M, NEW x, x.name \in Name, InstFits(M, P, x),
         x.callee \in DOMAIN M, C = M[x.callee], NEW L, L = LocalsOf(P, C, x)
  PROVE  LocalsFit(P, C, x.name, L)
<1> DEFINE S == SharedIn(C)
<1>1. /\ S \in Seq(Operation) /\ \A o \in ToSet(S) : o \in ToSet(C.top) /\ IsShared(o)
      /\ \A o \in ToSet(S) : o \in Operation /\ o.res # NoValue /\ o.args = <<>>
      /\ DefinedOnce(S)
  BY SharedFacts
<1>2. L = [n \in DOMAIN S |-> SharedCopy(P, x, S[n])]
  BY DEF LocalsOf
<1> HIDE DEF S
<1>3. Len(S) \in Nat /\ DOMAIN S = 1..Len(S) /\ \A n \in DOMAIN S : S[n] \in ToSet(S)
  BY <1>1, SeqFacts
<1>4. ASSUME NEW n \in DOMAIN S PROVE IsSharedCopy(P, x, S[n], L[n])
  <2>1. S[n] \in Operation /\ IsShared(S[n]) /\ S[n].args = <<>> /\ S[n] \in ToSet(C.top)
    BY <1>1, <1>3
  <2>2. S[n].op = "ctor" => /\ S[n].lit \in DOMAIN x.args
                            /\ \E c \in ToSet(P.top) : c.res = x.args[S[n].lit] /\ c.op \in {"const", "ctor"}
    BY <2>1 DEF InstFits
  <2>3. L[n] = SharedCopy(P, x, S[n])
    BY <1>2
  <2> QED BY <2>1, <2>2, <2>3, SharedCopied
<1>5. L \in Seq(Operation) /\ DOMAIN L = DOMAIN S
  <2>1. \A n \in DOMAIN S : L[n] \in Operation
    BY <1>4 DEF IsSharedCopy
  <2>2. L \in [1..Len(S) -> Operation]
    BY <1>2, <1>3, <2>1
  <2> QED BY <1>3, <2>2, AsSeq
<1>6. ASSUME NEW n \in DOMAIN S
      PROVE  /\ S[n].res \in Name /\ S[n].res # NoValue /\ L[n].res = x.name \o S[n].res
             /\ L[n].res # NoValue
  <2>1. S[n].res \in Name /\ S[n].res # NoValue
    BY <1>1, <1>3, OpFacts
  <2>2. L[n].res = x.name \o S[n].res
    BY <1>4 DEF IsSharedCopy
  <2>3. x.name \o S[n].res # NoValue
    BY <2>1, NameJoin
  <2> QED BY <2>1, <2>2, <2>3
<1>7. \A p \in ToSet(L) :
       /\ IsShared(p) /\ p.args = <<>> /\ p.res # NoValue
       /\ p.op = "ctor" => \E c \in ToSet(P.top) : c.op = "ctor" /\ c.lit = p.lit
  <2> SUFFICES ASSUME NEW n \in DOMAIN S
               PROVE  /\ IsShared(L[n]) /\ L[n].args = <<>> /\ L[n].res # NoValue
                      /\ L[n].op = "ctor" => \E c \in ToSet(P.top) : c.op = "ctor" /\ c.lit = L[n].lit
    BY <1>5 DEF ToSet
  <2> QED BY <1>4, <1>6 DEF IsSharedCopy
<1>8. \A o \in ToSet(S) :
       \E p \in ToSet(L) : p.res = x.name \o o.res /\ (o.op \in {"const", "ctor"} => p.op \in {"const", "ctor"})
  <2> TAKE o \in ToSet(S)
  <2>1. PICK n \in DOMAIN S : S[n] = o
    BY DEF ToSet
  <2>2. L[n] \in ToSet(L)
    BY <1>5 DEF ToSet
  <2> QED BY <1>4, <2>1, <2>2 DEF IsSharedCopy
<1>9. DefinedOnce(L)
  <2> SUFFICES ASSUME NEW a \in DOMAIN S, NEW b \in DOMAIN S, L[a].res = L[b].res PROVE a = b
    BY <1>5 DEF DefinedOnce
  <2>1. x.name \o S[a].res = x.name \o S[b].res /\ S[a].res \in Name /\ S[b].res \in Name
    BY <1>6
  <2>2. S[a].res = S[b].res
    BY <2>1, SamePrefix
  <2> QED BY <1>1, <1>6, <2>2 DEF DefinedOnce
<1>10. Results(L) = {x.name \o w : w \in Results(S)}
  <2>1. \A v : v \in Results(L) <=> v # NoValue /\ \E n \in DOMAIN S : L[n].res = v
    BY <1>5, ResultsFacts
  <2>2. \A w : w \in Results(S) <=> w # NoValue /\ \E n \in DOMAIN S : S[n].res = w
    BY <1>1, ResultsFacts
  <2>3. ASSUME NEW v \in Results(L) PROVE v \in {x.name \o w : w \in Results(S)}
    <3>1. PICK n \in DOMAIN S : L[n].res = v
      BY <2>1
    <3>2. S[n].res \in Results(S) /\ v = x.name \o S[n].res
      BY <1>6, <2>2, <3>1
    <3> QED BY <3>2
  <2>4. ASSUME NEW w \in Results(S) PROVE x.name \o w \in Results(L)
    <3>1. PICK n \in DOMAIN S : S[n].res = w
      BY <2>2
    <3>2. L[n].res = x.name \o w /\ L[n].res # NoValue
      BY <1>6, <3>1
    <3> QED BY <2>1, <3>2
  <2> QED BY <2>3, <2>4
<1> QED BY <1>5, <1>7, <1>8, <1>9, <1>10 DEF LocalsFit, S

\* The instances of the callee, as CloneLocals copies them.
InstCopy(inst, y) ==
  [y EXCEPT !.name = inst \o @, !.args = [a \in DOMAIN @ |-> inst \o @[a]]]

InstsOf(C, inst) == [n \in DOMAIN C.insts |-> InstCopy(inst, C.insts[n])]

\* The copy of an instance, part by part.
IsInstCopy(inst, y, z) ==
  /\ z \in InstanceType /\ z.name = inst \o y.name /\ z.callee = y.callee
  /\ DOMAIN z.args = DOMAIN y.args
  /\ \A a \in DOMAIN y.args : z.args[a] = inst \o y.args[a]

\* InstCopy makes such copies.
LEMMA InstCopied ==
  ASSUME NEW inst \in Name, NEW y \in InstanceType, NEW z, z = InstCopy(inst, y)
  PROVE  IsInstCopy(inst, y, z)
<1> DEFINE args == [a \in DOMAIN y.args |-> inst \o y.args[a]]
<1>1. y.name \in Name /\ y.args \in Seq(Name) /\ y.callee \in STRING
  BY DEF InstanceType
<1>2. /\ Len(y.args) \in Nat /\ DOMAIN y.args = 1..Len(y.args)
      /\ \A a \in DOMAIN y.args : inst \o y.args[a] \in Name
  BY <1>1, SeqFacts, NameConcat
<1>3. args \in Seq(Name) /\ DOMAIN args = DOMAIN y.args
  <2>1. args \in [1..Len(y.args) -> Name]
    BY <1>2
  <2> HIDE DEF args
  <2> QED BY <1>2, <2>1, AsSeq
<1>4. \A a \in DOMAIN y.args : args[a] = inst \o y.args[a]
  OBVIOUS
<1>5. z = [y EXCEPT !.name = inst \o y.name, !.args = args]
  BY DEF InstCopy
<1> HIDE DEF args
<1>6. PICK name : name = inst \o y.name
  OBVIOUS
<1>7. name \in Name
  BY <1>1, <1>6, NameConcat
<1>8. z = [y EXCEPT !.name = name, !.args = args]
  BY <1>5, <1>6
<1>9. z \in InstanceType /\ z.name = name /\ z.callee = y.callee /\ z.args = args
  BY <1>3, <1>7, <1>8 DEF InstanceType
<1> QED BY <1>3, <1>4, <1>6, <1>9 DEF IsInstCopy

\* The copies of all instances.
AreInstCopies(C, inst, own) ==
  /\ own \in Seq(InstanceType) /\ DOMAIN own = DOMAIN C.insts
  /\ \A n \in DOMAIN C.insts : IsInstCopy(inst, C.insts[n], own[n])

\* InstsOf makes them.
LEMMA InstsCopied ==
  ASSUME NEW inst \in Name, NEW C \in ParserType, NEW own, own = InstsOf(C, inst)
  PROVE  AreInstCopies(C, inst, own)
<1>1. /\ Len(C.insts) \in Nat /\ DOMAIN C.insts = 1..Len(C.insts)
      /\ \A n \in DOMAIN C.insts : C.insts[n] \in InstanceType
  BY ParserFacts, SeqFacts
<1>2. \A n \in DOMAIN C.insts : IsInstCopy(inst, C.insts[n], own[n])
  <2> TAKE n \in DOMAIN C.insts
  <2>1. own[n] = InstCopy(inst, C.insts[n])
    BY DEF InstsOf
  <2> QED BY <1>1, <2>1, InstCopied
<1>3. own \in [1..Len(C.insts) -> InstanceType]
  <2>1. \A n \in 1..Len(C.insts) : own[n] \in InstanceType
    BY <1>1, <1>2 DEF IsInstCopy
  <2>2. own = [n \in 1..Len(C.insts) |-> own[n]]
    BY <1>1 DEF InstsOf
  <2> QED BY <2>1, <2>2
<1>4. own \in Seq(InstanceType) /\ DOMAIN own = DOMAIN C.insts
  BY <1>1, <1>3, AsSeq
<1> QED BY <1>2, <1>4 DEF AreInstCopies

\* P with the locals L and the instances "own".
IsWithLocals(P, Q, L, own) ==
  /\ Q \in ParserType /\ Q.params = P.params /\ Q.states = P.states /\ Q.start = P.start
  /\ ToSet(Q.top) = ToSet(L) \cup ToSet(P.top) /\ IsMixed(Q.top, L, P.top)
  /\ ToSet(Q.insts) = ToSet(P.insts) \cup ToSet(own) /\ IsMixed(Q.insts, P.insts, own)

\* What CloneLocals does to the parser.
LEMMA WithLocals ==
  ASSUME NEW P \in ParserType, NEW L \in Seq(Operation), NEW own \in Seq(InstanceType),
         NEW i \in DOMAIN P.insts, NEW Q,
         Q = [P EXCEPT !.top = L \o @, !.insts = InsertAfter(@, i - 1, own)]
  PROVE  IsWithLocals(P, Q, L, own)
<1>1. P.top \in Seq(Operation) /\ P.insts \in Seq(InstanceType)
  BY ParserFacts
<1>2. /\ Len(P.insts) \in Nat /\ DOMAIN P.insts = 1..Len(P.insts)
      /\ Len(own) \in Nat /\ DOMAIN own = 1..Len(own)
  BY <1>1, SeqFacts
<1>3. PICK k : k = i - 1 /\ k \in 0..Len(P.insts)
  BY <1>2
<1>4. PICK T, I : T = L \o P.top /\ I = InsertAfter(P.insts, k, own)
  OBVIOUS
<1>5. T \in Seq(Operation) /\ ToSet(T) = ToSet(L) \cup ToSet(P.top) /\ IsMixed(T, L, P.top)
  <2>1. T \in Seq(Operation) /\ IsMixed(T, L, P.top)
    BY <1>1, <1>4, JoinedMixed
  <2>2. ToSet(T) = ToSet(L) \cup ToSet(P.top)
    BY <1>1, <1>4, ConcatSet
  <2> QED BY <2>1, <2>2
<1>6. I \in Seq(InstanceType) /\ ToSet(I) = ToSet(P.insts) \cup ToSet(own)
  <2>1. I \in Seq(InstanceType)
    BY <1>1, <1>3, <1>4, Inserted
  <2>2. ToSet(I) = ToSet(P.insts) \cup ToSet(own)
    BY <1>1, <1>3, <1>4, InsertedSet
  <2> QED BY <2>1, <2>2
<1>7. IsMixed(I, P.insts, own)
  <2>1. IsInserted(I, P.insts, own, k)
    BY <1>1, <1>3, <1>4, Inserted
  <2> QED BY <1>2, <1>3, <2>1, InsertedMixed
<1>8. Q = [P EXCEPT !.top = T, !.insts = I]
  BY <1>3, <1>4
<1>9. /\ Q \in ParserType /\ Q.params = P.params /\ Q.states = P.states /\ Q.start = P.start
      /\ Q.top = T /\ Q.insts = I
  BY <1>5, <1>6, <1>8 DEF ParserType
<1> QED BY <1>5, <1>6, <1>7, <1>9 DEF IsWithLocals

\* The names that are in use once the instances of C are in P.
Renamed(C, inst) == {inst \o b : b \in InstanceNames(C)}

\* The names in Q are those of P and the copied ones.
NamesWith(P, C, inst, Q) ==
  /\ StateNames(Q) = StateNames(P)
  /\ InstanceNames(Q) = InstanceNames(P) \cup Renamed(C, inst)
  /\ \A v \in ValuesOf(Q) : v \in ValuesOf(P) \/ \E w \in Results(SharedIn(C)) : v = inst \o w
  /\ UniqueInsts(Q)
  /\ \A b \in InstanceNames(C) : b \in Name /\ inst \o b \in Name /\ inst \o b \notin InstanceNames(P)
  /\ \A w \in Results(SharedIn(C)) : w \in Name /\ inst \o w \in Name

\* These are the names after CloneLocals.
LEMMA NamesWithLocals ==
  ASSUME NEW P \in ParserType, NEW C \in ParserType, NEW inst \in InstanceNames(P),
         HasNames(P, InstanceNames(P)), HasNames(C, InstanceNames(C)), HasKinds(C),
         NEW L, LocalsFit(P, C, inst, L), NEW own, AreInstCopies(C, inst, own),
         NEW Q, IsWithLocals(P, Q, L, own)
  PROVE  NamesWith(P, C, inst, Q)
<1>1. /\ Q \in ParserType /\ Q.params = P.params /\ Q.states = P.states
      /\ ToSet(Q.top) = ToSet(L) \cup ToSet(P.top)
      /\ ToSet(Q.insts) = ToSet(P.insts) \cup ToSet(own) /\ IsMixed(Q.insts, P.insts, own)
  BY DEF IsWithLocals
<1>2. inst \in Name /\ InstanceNames(P) \subseteq Name /\ InstanceNames(C) \subseteq Name
  BY ParserFacts DEF InstanceNames
<1>3. StateNames(Q) = StateNames(P)
  BY <1>1 DEF StateNames
<1>4. ASSUME NEW b \in InstanceNames(C)
      PROVE  b \in Name /\ inst \o b \in Name /\ inst \o b \notin InstanceNames(P)
  <2>1. b \in Name /\ b # NoValue
    BY <1>2 DEF HasNames, IsStem, NoValue
  <2>2. inst \o b \in Name /\ inst \o b # inst /\ Begins(inst \o b, inst)
    BY <1>2, <2>1, NameJoin
  <2>3. \A a \in InstanceNames(P) : a # inst => ~Begins(a, inst)
    BY DEF HasNames, Apart
  <2> QED BY <2>1, <2>2, <2>3
<1>5. ASSUME NEW w \in Results(SharedIn(C)) PROVE w \in Name /\ inst \o w \in Name
  <2>1. w \in Name
    BY SharedFacts, ResultsFacts
  <2> QED BY <1>2, <2>1, NameConcat
<1>6. /\ \A z \in ToSet(own) : \E b \in InstanceNames(C) : z.name = inst \o b
      /\ \A b \in InstanceNames(C) : \E z \in ToSet(own) : z.name = inst \o b
  <2>1. \A n \in DOMAIN C.insts : own[n].name = inst \o C.insts[n].name
    BY DEF AreInstCopies, IsInstCopy
  <2>2. DOMAIN own = DOMAIN C.insts
    BY DEF AreInstCopies
  <2> QED BY <2>1, <2>2 DEF ToSet, InstanceNames
<1>7. InstanceNames(Q) = InstanceNames(P) \cup Renamed(C, inst)
  <2>1. \A a : a \in InstanceNames(Q) <=> \E x \in ToSet(P.insts) \cup ToSet(own) : x.name = a
    BY <1>1, InstanceNamesFacts
  <2>2. \A a : a \in InstanceNames(P) <=> \E x \in ToSet(P.insts) : x.name = a
    BY InstanceNamesFacts
  <2>4. \A a : a \in Renamed(C, inst) <=> \E z \in ToSet(own) : z.name = a
    <3> TAKE a
    <3>1. a \in Renamed(C, inst) => \E z \in ToSet(own) : z.name = a
      BY <1>6 DEF Renamed
    <3>2. (\E z \in ToSet(own) : z.name = a) => a \in Renamed(C, inst)
      BY <1>6 DEF Renamed
    <3> QED BY <3>1, <3>2
  <2>5. \A a : a \in InstanceNames(Q) <=> a \in InstanceNames(P) \cup Renamed(C, inst)
    BY <2>1, <2>2, <2>4
  <2> QED BY <2>5
<1>8. UniqueInsts(Q)
  <2> SUFFICES ASSUME NEW m \in DOMAIN Q.insts, NEW l \in DOMAIN Q.insts, m # l
               PROVE  Q.insts[m].name # Q.insts[l].name
    BY DEF UniqueInsts
  <2>1. \A a \in DOMAIN P.insts : P.insts[a].name \in InstanceNames(P)
    BY DEF InstanceNames
  <2>2. \A b \in DOMAIN own : /\ b \in DOMAIN C.insts /\ own[b].name = inst \o C.insts[b].name
                              /\ C.insts[b].name \in InstanceNames(C) /\ C.insts[b].name \in Name
    BY <1>2 DEF AreInstCopies, IsInstCopy, InstanceNames
  <2>3. \A a \in DOMAIN P.insts, b \in DOMAIN own : P.insts[a].name # own[b].name
    BY <1>4, <2>1, <2>2
  <2>4. \A a, b \in DOMAIN P.insts : a # b => P.insts[a].name # P.insts[b].name
    BY DEF HasNames, UniqueInsts
  <2>5. \A a, b \in DOMAIN own : a # b => own[a].name # own[b].name
    <3> SUFFICES ASSUME NEW a \in DOMAIN own, NEW b \in DOMAIN own, own[a].name = own[b].name
                 PROVE  a = b
      OBVIOUS
    <3>1. C.insts[a].name = C.insts[b].name
      BY <1>2, <2>2, SamePrefix
    <3> QED BY <2>2, <3>1 DEF HasNames, UniqueInsts
  <2>6. \/ \E a, b \in DOMAIN P.insts : a # b /\ Q.insts[m] = P.insts[a] /\ Q.insts[l] = P.insts[b]
        \/ \E a, b \in DOMAIN own : a # b /\ Q.insts[m] = own[a] /\ Q.insts[l] = own[b]
        \/ \E a \in DOMAIN P.insts, b \in DOMAIN own : Q.insts[m] = P.insts[a] /\ Q.insts[l] = own[b]
        \/ \E a \in DOMAIN own, b \in DOMAIN P.insts : Q.insts[m] = own[a] /\ Q.insts[l] = P.insts[b]
    BY <1>1 DEF IsMixed
  <2> QED BY <2>3, <2>4, <2>5, <2>6
<1>9. \A v \in ValuesOf(Q) : v \in ValuesOf(P) \/ \E w \in Results(SharedIn(C)) : v = inst \o w
  <2> TAKE v \in ValuesOf(Q)
  <2>1. v \in ToSet(P.params) \/ v \in Results(Q.top) \/ \E i \in DOMAIN P.states : v \in Results(P.states[i].ops)
    BY <1>1, ValuesFacts
  <2>2. Results(Q.top) \subseteq Results(L) \cup Results(P.top)
    <3>1. /\ \A j \in DOMAIN Q.top : Q.top[j] \in ToSet(Q.top)
          /\ \A o \in ToSet(L) : \E j \in DOMAIN L : L[j] = o
          /\ \A o \in ToSet(P.top) : \E j \in DOMAIN P.top : P.top[j] = o
      BY DEF ToSet
    <3> QED BY <1>1, <3>1 DEF Results
  <2>3. Results(L) = {inst \o w : w \in Results(SharedIn(C))}
    BY DEF LocalsFit
  <2> QED BY <2>1, <2>2, <2>3, ValuesFacts
<1> QED BY <1>3, <1>4, <1>5, <1>7, <1>8, <1>9 DEF NamesWith

\* The instances of P, with those of C in place of inst.
Instead(P, C, inst) == (InstanceNames(P) \ {inst}) \cup Renamed(C, inst)

\* The instances after CloneLocals have names that are apart from all others.
LEMMA LocalsHaveNames ==
  ASSUME NEW P \in ParserType, NEW C \in ParserType, NEW inst \in InstanceNames(P),
         HasNames(P, InstanceNames(P)), HasNames(C, InstanceNames(C)), HasKinds(C),
         NEW Q \in ParserType, UniqueStates(Q), NamesWith(P, C, inst, Q)
  PROVE  HasNames(Q, Instead(P, C, inst))
<1>1. /\ StateNames(Q) = StateNames(P)
      /\ InstanceNames(Q) = InstanceNames(P) \cup Renamed(C, inst)
      /\ \A v \in ValuesOf(Q) : v \in ValuesOf(P) \/ \E w \in Results(SharedIn(C)) : v = inst \o w
      /\ UniqueInsts(Q)
      /\ \A b \in InstanceNames(C) : b \in Name /\ inst \o b \in Name /\ inst \o b \notin InstanceNames(P)
      /\ \A w \in Results(SharedIn(C)) : w \in Name /\ inst \o w \in Name
  BY DEF NamesWith
<1>2. inst \in Name /\ InstanceNames(P) \subseteq Name /\ StateNames(P) \subseteq Name /\ ValuesOf(P) \subseteq Name
  BY ParserFacts, ValuesFacts DEF InstanceNames, StateNames
<1>3. IsStem(inst)
  BY DEF HasNames
<1>4. \A y \in Name : inst \o y \in Name => IsStem(inst \o y)
  <2> TAKE y \in Name
  <2> HAVE inst \o y \in Name
  <2>1. Begins(inst \o y, inst)
    BY <1>2, BeginsConcat
  <2> QED BY <1>2, <1>3, <2>1, StemLonger
<1>5. \A x \in StateNames(Q) \cup InstanceNames(Q) \cup ValuesOf(Q) : IsStem(x)
  <2>1. \A x \in Renamed(C, inst) : IsStem(x)
    BY <1>1, <1>4 DEF Renamed
  <2>2. \A x \in ValuesOf(Q) : IsStem(x)
    <3> TAKE x \in ValuesOf(Q)
    <3>1. CASE x \in ValuesOf(P)
      BY <3>1 DEF HasNames
    <3>2. CASE \E w \in Results(SharedIn(C)) : x = inst \o w
      BY <1>1, <1>4, <3>2
    <3> QED BY <1>1, <3>1, <3>2
  <2> QED BY <1>1, <2>1, <2>2 DEF HasNames
<1>6. ASSUME NEW n \in Name, Apart(inst, n), NEW y \in Name
      PROVE  Apart(inst \o y, n) /\ Apart(n, inst \o y)
  <2>1. inst \o y \in Name /\ Begins(inst \o y, inst)
    BY <1>2, BeginsConcat
  <2>2. Apart(n, inst)
    BY <1>6, ApartSym
  <2>3. Apart(n, inst \o y)
    BY <1>2, <2>1, <2>2, ApartLonger
  <2> QED BY <2>3, ApartSym
<1>7. \A a \in InstanceNames(P) : a # inst => Apart(inst, a) /\ Apart(a, inst)
  BY DEF HasNames
<1>8. ASSUME NEW a \in Instead(P, C, inst), NEW n \in StateNames(Q) \cup ValuesOf(Q)
      PROVE  Apart(a, n)
  <2>1. n \in StateNames(P) \cup ValuesOf(P) \/ \E w \in Results(SharedIn(C)) : n = inst \o w
    BY <1>1
  <2>2. a \in InstanceNames(P) \ {inst} \/ \E b \in InstanceNames(C) : a = inst \o b
    BY DEF Instead, Renamed
  <2>3. CASE a \in InstanceNames(P) \ {inst} /\ n \in StateNames(P) \cup ValuesOf(P)
    BY <2>3 DEF HasNames
  <2>4. CASE a \in InstanceNames(P) \ {inst} /\ \E w \in Results(SharedIn(C)) : n = inst \o w
    BY <1>1, <1>2, <1>6, <1>7, <2>4
  <2>5. CASE (\E b \in InstanceNames(C) : a = inst \o b) /\ n \in StateNames(P) \cup ValuesOf(P)
    <3>1. n \in Name /\ Apart(inst, n)
      BY <1>2, <2>5 DEF HasNames
    <3> QED BY <1>1, <1>6, <2>5, <3>1
  <2>6. ASSUME NEW b \in InstanceNames(C), a = inst \o b,
               NEW w \in Results(SharedIn(C)), n = inst \o w
        PROVE  Apart(a, n)
    <3>1. w \in ValuesOf(C)
      BY SharedFacts
    <3>2. Apart(b, w)
      BY <3>1 DEF HasNames
    <3> QED BY <1>1, <1>2, <2>6, <3>2, SamePrefix
  <2> QED BY <2>1, <2>2, <2>3, <2>4, <2>5, <2>6
<1>9. ASSUME NEW a \in Instead(P, C, inst), NEW b \in Instead(P, C, inst), a # b
      PROVE  Apart(a, b)
  <2>1. a \in InstanceNames(P) \ {inst} \/ \E y \in InstanceNames(C) : a = inst \o y
    BY DEF Instead, Renamed
  <2>2. b \in InstanceNames(P) \ {inst} \/ \E y \in InstanceNames(C) : b = inst \o y
    BY DEF Instead, Renamed
  <2>3. CASE a \in InstanceNames(P) \ {inst} /\ b \in InstanceNames(P) \ {inst}
    BY <1>9, <2>3 DEF HasNames
  <2>4. CASE a \in InstanceNames(P) \ {inst} /\ \E y \in InstanceNames(C) : b = inst \o y
    BY <1>1, <1>2, <1>6, <1>7, <2>4
  <2>5. CASE b \in InstanceNames(P) \ {inst} /\ \E y \in InstanceNames(C) : a = inst \o y
    BY <1>1, <1>2, <1>6, <1>7, <2>5
  <2>6. ASSUME NEW y \in InstanceNames(C), a = inst \o y, NEW z \in InstanceNames(C), b = inst \o z
        PROVE  Apart(a, b)
    <3>1. Apart(y, z)
      BY <1>9, <2>6 DEF HasNames
    <3> QED BY <1>1, <1>2, <2>6, <3>1, SamePrefix
  <2> QED BY <2>1, <2>2, <2>3, <2>4, <2>5, <2>6
<1> QED BY <1>1, <1>5, <1>8, <1>9 DEF HasNames

\* CloneLocals keeps every value defined once.
LEMMA LocalsSSA ==
  ASSUME NEW P \in ParserType, NEW C \in ParserType, NEW inst \in InstanceNames(P),
         HasNames(P, InstanceNames(P)), IsSSA(P), HasKinds(P), HasKinds(C),
         NEW L, LocalsFit(P, C, inst, L), NEW Q, NEW own, IsWithLocals(P, Q, L, own)
  PROVE  IsSSA(Q) /\ HasKinds(Q) /\ UniqueStates(Q) /\ SameSignature(P, Q)
<1>1. /\ Q \in ParserType /\ Q.params = P.params /\ Q.states = P.states
      /\ ToSet(Q.top) = ToSet(L) \cup ToSet(P.top) /\ IsMixed(Q.top, L, P.top)
  BY DEF IsWithLocals
<1>2. inst \in Name
  BY ParserFacts DEF InstanceNames
<1>3. \A v \in Results(L) : v \notin ValuesOf(P)
  <2> SUFFICES ASSUME NEW w \in Results(SharedIn(C)), inst \o w \in ValuesOf(P) PROVE FALSE
    BY DEF LocalsFit
  <2>1. w \in Name
    BY SharedFacts, ResultsFacts
  <2>2. Begins(inst \o w, inst)
    BY <1>2, <2>1, BeginsConcat
  <2> QED BY <2>2 DEF HasNames, Apart
<1>4. /\ IsInjective(P.params) /\ ToSet(P.params) \cap Results(P.top) = {}
      /\ DefinedOnce(P.top) /\ OwnResults(P.states, OuterValues(P)) /\ ApartStates(P.states)
  BY SSAFacts DEF HasNames
<1>5. Results(Q.top) \subseteq Results(L) \cup Results(P.top)
  <2>1. /\ \A j \in DOMAIN Q.top : Q.top[j] \in ToSet(Q.top)
        /\ \A o \in ToSet(L) : \E j \in DOMAIN L : L[j] = o
        /\ \A o \in ToSet(P.top) : \E j \in DOMAIN P.top : P.top[j] = o
    BY DEF ToSet
  <2> QED BY <1>1, <2>1 DEF Results
<1>6. DefinedOnce(Q.top)
  <2> SUFFICES ASSUME NEW m \in DOMAIN Q.top, NEW l \in DOMAIN Q.top, m # l,
                      Q.top[m].res = Q.top[l].res, Q.top[m].res # NoValue
               PROVE  FALSE
    BY DEF DefinedOnce
  <2>1. DefinedOnce(L)
    BY DEF LocalsFit
  <2>2. \A a \in DOMAIN L, b \in DOMAIN P.top : L[a].res = P.top[b].res => L[a].res = NoValue
    <3> SUFFICES ASSUME NEW a \in DOMAIN L, NEW b \in DOMAIN P.top, L[a].res = P.top[b].res,
                        L[a].res # NoValue
                 PROVE  FALSE
      OBVIOUS
    <3>1. L[a].res \in Results(L) /\ L[a].res \in Results(P.top)
      BY DEF Results
    <3> QED BY <1>3, <3>1, ValuesFacts
  <2>3. \/ \E a, b \in DOMAIN L : a # b /\ Q.top[m] = L[a] /\ Q.top[l] = L[b]
        \/ \E a, b \in DOMAIN P.top : a # b /\ Q.top[m] = P.top[a] /\ Q.top[l] = P.top[b]
        \/ \E a \in DOMAIN L, b \in DOMAIN P.top : Q.top[m] = L[a] /\ Q.top[l] = P.top[b]
        \/ \E a \in DOMAIN P.top, b \in DOMAIN L : Q.top[m] = P.top[a] /\ Q.top[l] = L[b]
    BY <1>1 DEF IsMixed
  <2> QED BY <1>4, <2>1, <2>2, <2>3 DEF DefinedOnce
<1>7. ToSet(Q.params) \cap Results(Q.top) = {}
  BY <1>1, <1>3, <1>4, <1>5, ValuesFacts
<1>8. OwnResults(Q.states, OuterValues(Q))
  <2>1. OuterValues(Q) \subseteq OuterValues(P) \cup Results(L)
    BY <1>1, <1>5 DEF OuterValues
  <2> QED BY <1>1, <1>3, <1>4, <2>1, ValuesFacts DEF OwnResults
<1>9. IsSSA(Q) /\ UniqueStates(Q)
  <2>1. IsInjective(Q.params) /\ ApartStates(Q.states)
    BY <1>1, <1>4
  <2> QED BY <1>6, <1>7, <1>8, <2>1, SSAFacts
<1>10. HasKinds(Q)
  <2>1. \A i \in DOMAIN Q.states : KindsFit(Q.states[i])
    BY <1>1, KindsFacts
  <2>2. \A o \in ToSet(Q.top) :
          o.op # "apply" /\ (o.op \in {"const", "ctor", "var"} => o.args = <<>> /\ o.res # NoValue)
    <3> TAKE o \in ToSet(Q.top)
    <3>1. CASE o \in ToSet(L)
      BY <3>1 DEF LocalsFit, IsShared
    <3>2. CASE o \in ToSet(P.top)
      BY <3>2, KindsFacts
    <3> QED BY <1>1, <3>1, <3>2
  <2> QED BY <2>1, <2>2, KindsFacts
<1>11. SameSignature(P, Q)
  BY <1>1 DEF SameSignature, LocalsFit
<1> QED BY <1>9, <1>10, <1>11

\* CloneLocals keeps the instances linked.
LEMMA LocalsLinked ==
  ASSUME NEW M, NEW P \in ParserType, NEW C \in ParserType, NEW inst \in InstanceNames(P),
         HasKinds(C), IsLinked(M, P), IsLinked(M, C), CallsKnown(P),
         NEW L, LocalsFit(P, C, inst, L), NEW own, AreInstCopies(C, inst, own),
         NEW Q, IsWithLocals(P, Q, L, own), NamesWith(P, C, inst, Q)
  PROVE  IsLinked(M, Q) /\ CallsKnown(Q)
<1>1. /\ Q \in ParserType /\ Q.params = P.params /\ Q.states = P.states
      /\ ToSet(Q.top) = ToSet(L) \cup ToSet(P.top)
      /\ ToSet(Q.insts) = ToSet(P.insts) \cup ToSet(own)
  BY DEF IsWithLocals
<1>2. CallsKnown(Q)
  <2>1. InstanceNames(P) \subseteq InstanceNames(Q)
    BY DEF NamesWith
  <2> QED BY <1>1, <2>1 DEF CallsKnown
<1>3. ASSUME NEW x \in ToSet(P.insts) PROVE InstFits(M, Q, x)
  <2>1. InstFits(M, P, x)
    BY LinkedFacts
  <2> QED BY <1>1, <2>1 DEF InstFits
<1>4. ASSUME NEW z \in ToSet(own) PROVE InstFits(M, Q, z)
  <2>1. PICK n \in DOMAIN own : own[n] = z
    BY DEF ToSet
  <2>2. PICK y : y \in ToSet(C.insts) /\ IsInstCopy(inst, y, z) /\ y.name \in InstanceNames(C)
    <3>1. n \in DOMAIN C.insts /\ IsInstCopy(inst, C.insts[n], own[n])
      BY DEF AreInstCopies
    <3> QED BY <2>1, <3>1 DEF ToSet, InstanceNames
  <2>3. InstFits(M, C, y)
    BY <2>2, LinkedFacts
  <2>4. z.callee = y.callee /\ DOMAIN z.args = DOMAIN y.args /\ z.name = inst \o y.name
        /\ \A a \in DOMAIN y.args : z.args[a] = inst \o y.args[a]
    BY <2>2 DEF IsInstCopy
  <2>5. ASSUME NEW a \in DOMAIN z.args
        PROVE  \E c \in ToSet(Q.top) : c.res = z.args[a] /\ c.op \in {"const", "ctor"}
    <3>1. PICK c \in ToSet(C.top) : c.res = y.args[a] /\ c.op \in {"const", "ctor"}
      BY <2>3, <2>4 DEF InstFits
    <3>2. c \in ToSet(SharedIn(C))
      BY <3>1, SharedFacts DEF IsShared
    <3>3. PICK p \in ToSet(L) : p.res = inst \o c.res /\ p.op \in {"const", "ctor"}
      BY <3>1, <3>2 DEF LocalsFit
    <3> QED BY <1>1, <2>4, <3>1, <3>3
  <2>6. z.name \notin InstanceNames(P)
    BY <2>2, <2>4 DEF NamesWith
  <2>7. \A i \in DOMAIN Q.states : \A c \in Calls(Q.states[i]) : c.inst # z.name
    BY <1>1, <2>6 DEF CallsKnown
  <2>8. z.callee \in DOMAIN M => \A o \in ToSet(M[z.callee].top) : o.op = "ctor" => o.lit \in DOMAIN z.args
    BY <2>3, <2>4 DEF InstFits
  <2> QED BY <2>5, <2>7, <2>8 DEF InstFits
<1>5. \A x \in ToSet(Q.insts) : InstFits(M, Q, x)
  BY <1>1, <1>3, <1>4
<1> QED BY <1>2, <1>5, LinkedFacts

\* Before a state is copied.
LEMMA LocalsFresh ==
  ASSUME NEW P \in ParserType, NEW C \in ParserType, NEW inst \in InstanceNames(P),
         HasNames(P, InstanceNames(P)), HasNames(C, InstanceNames(C)), HasKinds(C),
         NEW L, LocalsFit(P, C, inst, L), NEW own, AreInstCopies(C, inst, own),
         NEW Q, IsWithLocals(P, Q, L, own), NamesWith(P, C, inst, Q), NEW many
  PROVE  FreshIn(Q, C, inst, many, 1, Instead(P, C, inst))
<1>1. /\ ToSet(Q.top) = ToSet(L) \cup ToSet(P.top) /\ Q.top \in Seq(Operation)
      /\ ToSet(Q.insts) = ToSet(P.insts) \cup ToSet(own)
  BY ParserFacts DEF IsWithLocals
<1>2. inst \in Name
  BY ParserFacts DEF InstanceNames
<1>3. \A w \in Results(SharedIn(C)) : inst \o w \in Results(Q.top)
  <2> TAKE w \in Results(SharedIn(C))
  <2>1. inst \o w \in Results(L) /\ L \in Seq(Operation)
    BY DEF LocalsFit
  <2>2. PICK j \in DOMAIN L : L[j].res = inst \o w /\ inst \o w # NoValue
    BY <2>1, ResultsFacts
  <2>3. L[j] \in ToSet(Q.top)
    BY <1>1 DEF ToSet
  <2>4. PICK k \in DOMAIN Q.top : Q.top[k] = L[j]
    BY <2>3 DEF ToSet
  <2>5. Q.top[k].res = inst \o w
    BY <2>2, <2>4
  <2>6. Q.top[k].res \in Results(Q.top)
    BY <2>2, <2>5 DEF Results
  <2> QED BY <2>5, <2>6
<1>4. \A x \in ToSet(C.insts) : \E y \in ToSet(Q.insts) : y.name = inst \o x.name /\ y.callee = x.callee
  <2> TAKE x \in ToSet(C.insts)
  <2>1. PICK n \in DOMAIN C.insts : C.insts[n] = x
    BY DEF ToSet
  <2>2. n \in DOMAIN own /\ own[n].name = inst \o x.name /\ own[n].callee = x.callee
    BY <2>1 DEF AreInstCopies, IsInstCopy
  <2>3. own[n] \in ToSet(own)
    BY <2>2 DEF ToSet
  <2> QED BY <1>1, <2>2, <2>3
<1>5. \A a \in Instead(P, C, inst) : Apart(a, inst) \/ \E b \in InstanceNames(C) : a = inst \o b
  BY DEF Instead, Renamed, HasNames
<1>6. \A n \in StateNames(Q) : ~Begins(inst, n) /\ ~Begins(n, inst)
  BY DEF NamesWith, HasNames, Apart
<1>7. \A v \in ValuesOf(Q) :
        /\ ~Begins(inst, v)
        /\ Begins(v, inst) => \E w \in Results(SharedIn(C)) : v = inst \o w
  <2> TAKE v \in ValuesOf(Q)
  <2>1. CASE v \in ValuesOf(P)
    BY <2>1 DEF HasNames, Apart
  <2>2. CASE \E w \in Results(SharedIn(C)) : v = inst \o w
    <3>1. PICK w \in Results(SharedIn(C)) : v = inst \o w
      BY <2>2
    <3>2. w \in Name /\ w # NoValue
      BY SharedFacts, ResultsFacts
    <3> QED BY <1>2, <2>2, <3>1, <3>2, NameJoin
  <2> QED BY <2>1, <2>2 DEF NamesWith
<1> QED BY <1>3, <1>4, <1>5, <1>6, <1>7 DEF FreshIn

\* CloneLocals keeps the parsers without recursion.
LEMMA LocalsRank ==
  ASSUME NEW M, NEW q \in DOMAIN M, NEW x \in ToSet(M[q].insts), x.callee \in DOMAIN M,
         NEW own, AreInstCopies(M[x.callee], x.name, own),
         NEW L, NEW Q, IsWithLocals(M[q], Q, L, own)
  PROVE  KeepsRank(M, q, Q)
<1> SUFFICES ASSUME NEW rank \in [DOMAIN M -> Int], Ranked(M, rank),
                    NEW z \in ToSet(Q.insts), z.callee \in DOMAIN M
             PROVE  rank[z.callee] < rank[q]
  BY DEF KeepsRank
<1>1. z \in ToSet(M[q].insts) \/ z \in ToSet(own)
  BY DEF IsWithLocals
<1>2. CASE z \in ToSet(M[q].insts)
  BY <1>2 DEF Ranked
<1>3. CASE z \in ToSet(own)
  <2>1. PICK n \in DOMAIN own : own[n] = z
    BY <1>3 DEF ToSet
  <2>2. PICK y : y \in ToSet(M[x.callee].insts) /\ y.callee = z.callee
    BY <2>1 DEF AreInstCopies, IsInstCopy, ToSet
  <2>3. rank[z.callee] < rank[x.callee]
    BY <2>2 DEF Ranked
  <2>4. rank[x.callee] < rank[q]
    BY DEF Ranked
  <2>5. rank[z.callee] \in Int /\ rank[x.callee] \in Int /\ rank[q] \in Int
    OBVIOUS
  <2> QED BY <2>3, <2>4, <2>5
<1> QED BY <1>1, <1>2, <1>3

-----------------------------------------------------------------------------
(* The copy of a state *)

\* ValueIn, CloneOp, CloneNext and CloneState for the k-th call of the instance
\* inst of C, which has the operands "args".
CopyOf(C, inst, k, args, v) ==
  CASE v \in ToSet(C.params) -> args[CHOOSE i \in DOMAIN C.params : C.params[i] = v]
    [] v \in Results(SharedIn(C)) -> inst \o v
    [] OTHER -> CopyPrefix(inst, k) \o v

\* CloneOp, CloneNext and CloneState in these terms.
OpCopy(C, inst, k, args, o) ==
  [o EXCEPT !.res = IF @ = NoValue THEN NoValue ELSE CopyOf(C, inst, k, args, @),
            !.args = [i \in DOMAIN @ |-> CopyOf(C, inst, k, args, @[i])],
            !.inst = IF o.op = "apply" THEN inst \o @ ELSE @]

NextCopy(C, inst, many, k, args, next, post) ==
  IF next.kind = "accept" THEN To(post)
  ELSE [next EXCEPT !.sel = IF next.kind = "select" THEN CopyOf(C, inst, k, args, @) ELSE @,
                    !.targets = [i \in DOMAIN @ |-> CopyName(inst, many, k, @[i])]]

StateCopy(C, inst, many, k, args, s, post) ==
  ParserState(CopyName(inst, many, k, s.name),
              [j \in DOMAIN s.ops |-> OpCopy(C, inst, k, args, s.ops[j])],
              NextCopy(C, inst, many, k, args, s.next, post))

\* The values that are copied for every call.
Own(C) == ValuesOf(C) \ (ToSet(C.params) \cup Results(SharedIn(C)))

\* The prefix of a copy is a name that begins with that of the instance.
LEMMA CopyPrefixName ==
  ASSUME NEW inst \in Name, NEW k \in Nat
  PROVE  CopyPrefix(inst, k) \in Name /\ Begins(CopyPrefix(inst, k), inst)
<1>1. Marks("#", k) \in Name
  BY MarksFacts
<1> QED BY <1>1, BeginsConcat DEF CopyPrefix

\* What a concatenation of names is, word by word.
IsConcat(z, x, y) ==
  /\ z \in Name /\ Len(z) = Len(x) + Len(y) /\ Len(x) \in Nat /\ Len(y) \in Nat
  /\ \A i \in 1..Len(x) : z[i] = x[i]
  /\ \A i \in 1..Len(y) : z[Len(x) + i] = y[i]

\* A concatenation is one.
LEMMA Concat ==
  ASSUME NEW x \in Name, NEW y \in Name, NEW z, z = x \o y
  PROVE  IsConcat(z, x, y)
BY NameConcat DEF IsConcat

\* Concatenation of names is associative.
LEMMA NameAssoc ==
  ASSUME NEW x \in Name, NEW y \in Name, NEW z \in Name
  PROVE  (x \o y) \o z = x \o (y \o z)
<1>1. PICK xy, yz, l, r : xy = x \o y /\ yz = y \o z /\ l = xy \o z /\ r = x \o yz
  OBVIOUS
<1>2. IsConcat(xy, x, y) /\ IsConcat(yz, y, z)
  BY <1>1, Concat
<1>3. IsConcat(l, xy, z) /\ IsConcat(r, x, yz)
  <2>1. xy \in Name /\ yz \in Name
    BY <1>2 DEF IsConcat
  <2> QED BY <1>1, <2>1, Concat
<1>4. /\ Len(x) \in Nat /\ Len(y) \in Nat /\ Len(z) \in Nat
      /\ Len(xy) = Len(x) + Len(y) /\ Len(yz) = Len(y) + Len(z)
      /\ \A i \in 1..Len(x) : xy[i] = x[i]
      /\ \A i \in 1..Len(y) : xy[Len(x) + i] = y[i]
      /\ \A i \in 1..Len(y) : yz[i] = y[i]
      /\ \A i \in 1..Len(z) : yz[Len(y) + i] = z[i]
  BY <1>2 DEF IsConcat
<1>5. /\ Len(l) = Len(xy) + Len(z) /\ l \in Name
      /\ \A i \in 1..Len(xy) : l[i] = xy[i]
      /\ \A i \in 1..Len(z) : l[Len(xy) + i] = z[i]
  BY <1>3 DEF IsConcat
<1>6. /\ Len(r) = Len(x) + Len(yz) /\ r \in Name
      /\ \A i \in 1..Len(x) : r[i] = x[i]
      /\ \A i \in 1..Len(yz) : r[Len(x) + i] = yz[i]
  BY <1>3 DEF IsConcat
<1>7. Len(l) = Len(r)
  BY <1>4, <1>5, <1>6
<1>8. ASSUME NEW i \in 1..Len(l) PROVE l[i] = r[i]
  <2>1. CASE i <= Len(x)
    <3>1. i \in 1..Len(x) /\ i \in 1..Len(xy)
      BY <1>4, <1>5, <2>1
    <3> QED BY <1>4, <1>5, <1>6, <3>1
  <2>2. CASE i > Len(x) /\ i <= Len(xy)
    <3>1. PICK j : j = i - Len(x)
      OBVIOUS
    <3>2. j \in 1..Len(y) /\ i = Len(x) + j /\ i \in 1..Len(xy) /\ j \in 1..Len(yz)
      BY <1>4, <1>5, <2>2, <3>1
    <3> QED BY <1>4, <1>5, <1>6, <3>2
  <2>3. CASE i > Len(xy)
    <3>1. PICK j : j = i - Len(xy)
      OBVIOUS
    <3>2. /\ j \in 1..Len(z) /\ i = Len(xy) + j
          /\ Len(y) + j \in 1..Len(yz) /\ i = Len(x) + (Len(y) + j)
      BY <1>4, <1>5, <2>3, <3>1
    <3>3. r[Len(x) + (Len(y) + j)] = yz[Len(y) + j]
      BY <1>6, <3>2
    <3> QED BY <1>4, <1>5, <3>2, <3>3
  <2> QED BY <1>4, <1>5, <2>1, <2>2, <2>3
<1>9. l = r
  BY <1>5, <1>6, <1>7, <1>8, NameEqual
<1> QED BY <1>1, <1>9

\* The names of copies, and what they differ from.
CopiesApart(inst, k, x, l, y) ==
  /\ CopyPrefix(inst, k) \o x = CopyPrefix(inst, l) \o y => k = l /\ x = y
  /\ CopyPrefix(inst, k) \o x # inst \o y
  /\ Apart(inst \o y, CopyPrefix(inst, k) \o x)
  /\ CopyPrefix(inst, k) \o x \in Name
  /\ Begins(CopyPrefix(inst, k) \o x, inst) /\ ~Begins(inst, CopyPrefix(inst, k) \o x)
  /\ CopyPrefix(inst, k) \o x # NoValue

\* Copies for different calls, and copies of different things, have different names.
LEMMA CopiesDiffer ==
  ASSUME NEW inst \in Name, NEW x \in Name, NEW y \in Name, IsStem(x), IsStem(y),
         NEW k \in Nat \ {0}, NEW l \in Nat \ {0}
  PROVE  CopiesApart(inst, k, x, l, y)
<1>1. Marks("#", k) \in Name /\ Marks("#", l) \in Name
  BY MarksFacts
<1>2. PICK u, v : u = Marks("#", k) \o x /\ v = Marks("#", l) \o y
  OBVIOUS
<1>3. u \in Name /\ v \in Name /\ inst \o u = CopyPrefix(inst, k) \o x /\ inst \o v = CopyPrefix(inst, l) \o y
  <2>1. u \in Name /\ v \in Name
    BY <1>1, <1>2, NameConcat
  <2>2. inst \o (Marks("#", k) \o x) = (inst \o Marks("#", k)) \o x
    BY <1>1, NameAssoc
  <2>3. inst \o (Marks("#", l) \o y) = (inst \o Marks("#", l)) \o y
    BY <1>1, NameAssoc
  <2> QED BY <1>2, <2>1, <2>2, <2>3 DEF CopyPrefix
<1>4. Apart(y, u)
  BY <1>2, StemsApart
<1>5. u # NoValue
  <2>1. u = <<>> => Len(u) = 0
    BY <1>3, NameEmpty
  <2>2. Len(u) = k + Len(x) /\ Len(x) \in Nat
    <3>1. IsConcat(u, Marks("#", k), x)
      BY <1>1, <1>2, Concat
    <3>2. Len(Marks("#", k)) = k
      BY MarksFacts
    <3> QED BY <3>1, <3>2 DEF IsConcat
  <2> QED BY <2>1, <2>2 DEF NoValue
<1>6. /\ inst \o u \in Name /\ inst \o u # NoValue /\ Begins(inst \o u, inst) /\ ~Begins(inst, inst \o u)
  BY <1>3, <1>5, NameJoin
<1>7. inst \o u = inst \o v => k = l /\ x = y
  <2> HAVE inst \o u = inst \o v
  <2>1. u = v
    BY <1>3, SamePrefix
  <2> QED BY <1>2, <2>1, MarksDiffer
<1>8. Apart(inst \o y, inst \o u)
  BY <1>3, <1>4, SamePrefix
<1>9. inst \o u # inst \o y
  <2>1. inst \o y \in Name
    BY NameConcat
  <2> QED BY <1>6, <1>8, <2>1, ApartDiffer
<1> QED BY <1>3, <1>6, <1>7, <1>8, <1>9 DEF CopiesApart

\* A copied value is an argument, a shared copy or a copy for the call.
LEMMA CopyOfFacts ==
  ASSUME NEW C \in ParserType, NEW inst \in Name, NEW k \in Nat, NEW args \in Seq(Name),
         Len(args) = Len(C.params), ToSet(C.params) \cap Results(SharedIn(C)) = {}, NEW v \in Name
  PROVE  /\ CopyOf(C, inst, k, args, v) \in Name
         /\ v \notin ToSet(C.params) /\ v \notin Results(SharedIn(C)) =>
              CopyOf(C, inst, k, args, v) = CopyPrefix(inst, k) \o v
         /\ v \notin ToSet(C.params) /\ v \in Results(SharedIn(C)) =>
              CopyOf(C, inst, k, args, v) = inst \o v
         /\ v \in ToSet(C.params) =>
              \E i \in DOMAIN args : CopyOf(C, inst, k, args, v) = args[i]
<1>1. CASE v \in ToSet(C.params)
  <2>1. \E i \in DOMAIN C.params : C.params[i] = v
    BY <1>1 DEF ToSet
  <2>2. PICK i : i = CHOOSE j \in DOMAIN C.params : C.params[j] = v
    OBVIOUS
  <2>3. i \in DOMAIN C.params
    BY <2>1, <2>2
  <2>4. C.params \in Seq(Name)
    BY ParserFacts
  <2>5. i \in DOMAIN args /\ args[i] \in Name
    <3>1. DOMAIN C.params = 1..Len(C.params) /\ DOMAIN args = 1..Len(args)
      BY <2>4, SeqFacts
    <3>2. i \in DOMAIN args
      BY <2>3, <3>1
    <3> QED BY <3>2, SeqFacts
  <2>6. CopyOf(C, inst, k, args, v) = args[i]
    <3>1. v \notin Results(SharedIn(C))
      BY <1>1
    <3> QED BY <1>1, <2>2, <3>1 DEF CopyOf
  <2> QED BY <1>1, <2>5, <2>6
<1>2. CASE v \notin ToSet(C.params) /\ v \in Results(SharedIn(C))
  <2>1. CopyOf(C, inst, k, args, v) = inst \o v
    BY <1>2 DEF CopyOf
  <2> QED BY <1>2, <2>1, NameConcat
<1>3. CASE v \notin ToSet(C.params) /\ v \notin Results(SharedIn(C))
  <2>1. CopyOf(C, inst, k, args, v) = CopyPrefix(inst, k) \o v
    BY <1>3 DEF CopyOf
  <2>2. CopyPrefix(inst, k) \o v \in Name
    BY CopyPrefixName, NameConcat
  <2> QED BY <1>3, <2>1, <2>2
<1> QED BY <1>1, <1>2, <1>3

\* The copy of an operation, part by part.
IsOpCopy(C, inst, k, args, o, p) ==
  /\ p \in Operation /\ p.op = o.op /\ p.lit = o.lit /\ p.deep = o.deep
  /\ p.inst = IF o.op = "apply" THEN inst \o o.inst ELSE o.inst
  /\ p.res = IF o.res = NoValue THEN NoValue ELSE CopyOf(C, inst, k, args, o.res)
  /\ Len(p.args) = Len(o.args) /\ DOMAIN p.args = DOMAIN o.args
  /\ \A i \in DOMAIN o.args : p.args[i] = CopyOf(C, inst, k, args, o.args[i])

\* OpCopy makes such copies.
LEMMA OpCopied ==
  ASSUME NEW C \in ParserType, NEW inst \in Name, NEW k \in Nat, NEW args \in Seq(Name),
         Len(args) = Len(C.params), ToSet(C.params) \cap Results(SharedIn(C)) = {}, NEW o \in Operation, NEW p, p = OpCopy(C, inst, k, args, o)
  PROVE  IsOpCopy(C, inst, k, args, o, p)
<1>1. PICK res : res = IF o.res = NoValue THEN NoValue ELSE CopyOf(C, inst, k, args, o.res)
  OBVIOUS
<1>2. PICK to : to = IF o.op = "apply" THEN inst \o o.inst ELSE o.inst
  OBVIOUS
<1>3. PICK A : A = [i \in DOMAIN o.args |-> CopyOf(C, inst, k, args, o.args[i])]
  OBVIOUS
<1>4. o.res \in Name /\ o.inst \in Name /\ o.args \in Seq(Name)
  BY OpFacts
<1>5. res \in Name /\ to \in Name
  <2>1. res \in Name
    BY <1>1, <1>4, CopyOfFacts, NoValueName
  <2>2. to \in Name
    BY <1>2, <1>4, NameConcat
  <2> QED BY <2>1, <2>2
<1>6. A \in Seq(Name) /\ Len(A) = Len(o.args) /\ DOMAIN A = DOMAIN o.args
  <2>1. Len(o.args) \in Nat /\ DOMAIN o.args = 1..Len(o.args) /\ \A i \in DOMAIN o.args : o.args[i] \in Name
    BY <1>4, SeqFacts
  <2>2. \A i \in DOMAIN o.args : A[i] \in Name
    BY <1>3, <2>1, CopyOfFacts
  <2>3. A \in [1..Len(o.args) -> Name]
    BY <1>3, <2>1, <2>2
  <2> QED BY <2>1, <2>3, AsSeq
<1>7. \A i \in DOMAIN o.args : A[i] = CopyOf(C, inst, k, args, o.args[i])
  BY <1>3
<1>8. p = [o EXCEPT !.res = res, !.args = A, !.inst = to]
  BY <1>1, <1>2, <1>3 DEF OpCopy
<1>9. /\ p \in Operation /\ p.op = o.op /\ p.lit = o.lit /\ p.deep = o.deep
      /\ p.res = res /\ p.args = A /\ p.inst = to
  BY <1>5, <1>6, <1>8 DEF Operation
<1> QED BY <1>1, <1>2, <1>6, <1>7, <1>9 DEF IsOpCopy

\* The copies of a sequence of operations.
AreOpCopies(C, inst, k, args, ops, new) ==
  /\ new \in Seq(Operation) /\ DOMAIN new = DOMAIN ops /\ Len(new) = Len(ops)
  /\ \A j \in DOMAIN ops : IsOpCopy(C, inst, k, args, ops[j], new[j])

\* OpCopy makes them.
LEMMA OpsCopied ==
  ASSUME NEW C \in ParserType, NEW inst \in Name, NEW k \in Nat, NEW args \in Seq(Name),
         Len(args) = Len(C.params), ToSet(C.params) \cap Results(SharedIn(C)) = {}, NEW ops \in Seq(Operation), NEW new,
         new = [j \in DOMAIN ops |-> OpCopy(C, inst, k, args, ops[j])]
  PROVE  AreOpCopies(C, inst, k, args, ops, new)
<1>1. Len(ops) \in Nat /\ DOMAIN ops = 1..Len(ops) /\ \A j \in DOMAIN ops : ops[j] \in Operation
  BY SeqFacts
<1>2. \A j \in DOMAIN ops : IsOpCopy(C, inst, k, args, ops[j], new[j])
  <2> TAKE j \in DOMAIN ops
  <2>1. new[j] = OpCopy(C, inst, k, args, ops[j])
    OBVIOUS
  <2> QED BY <1>1, <2>1, OpCopied
<1>3. new \in [1..Len(ops) -> Operation]
  BY <1>1, <1>2 DEF IsOpCopy
<1> QED BY <1>1, <1>2, <1>3, AsSeq DEF AreOpCopies

\* The k-th call of the instance inst of C is next.
Cloning(M, P, C, inst, many, k, args, J) ==
  /\ P \in ParserType /\ C \in ParserType /\ CodeFits(M, P, J) /\ CodeFits(M, C, InstanceNames(C))
  /\ inst \in InstanceNames(P) /\ J \in SUBSET Name
  /\ many \in BOOLEAN /\ k \in Nat \ {0} /\ (many \/ k = 1)
  /\ args \in Seq(Name) /\ Len(args) = Len(C.params)
  /\ FreshIn(P, C, inst, many, k, J)

\* A name that is new in P.
IsNew(P, J, inst, n) ==
  /\ n \in Name /\ n # NoValue /\ Begins(n, inst) /\ ~Begins(inst, n) /\ IsStem(n)
  /\ \A a \in J : Apart(a, n)

\* What the names of the callee are when it is cloned.
LEMMA CloningFacts ==
  ASSUME NEW M, NEW P, NEW C, NEW inst, NEW many, NEW k, NEW args, NEW J,
         Cloning(M, P, C, inst, many, k, args, J)
  PROVE  /\ inst \in Name /\ IsStem(inst)
         /\ StateNames(C) \subseteq Name /\ ValuesOf(C) \subseteq Name /\ InstanceNames(C) \subseteq Name
         /\ \A x \in StateNames(C) \cup InstanceNames(C) \cup ValuesOf(C) : IsStem(x) /\ x # NoValue
         /\ ToSet(C.params) \cap Results(SharedIn(C)) = {}
         /\ Results(SharedIn(C)) \subseteq ValuesOf(C)
<1> USE DEF Cloning
<1>1. inst \in Name
  BY ParserFacts DEF InstanceNames
<1>2. StateNames(C) \subseteq Name /\ ValuesOf(C) \subseteq Name /\ InstanceNames(C) \subseteq Name
  BY ParserFacts, ValuesFacts DEF StateNames, InstanceNames
<1>3. /\ IsStem(inst)
      /\ \A x \in StateNames(C) \cup InstanceNames(C) \cup ValuesOf(C) : IsStem(x) /\ x # NoValue
  BY DEF CodeFits, HasNames, IsStem, NoValue
<1>4. Results(SharedIn(C)) \subseteq Results(C.top) /\ Results(SharedIn(C)) \subseteq ValuesOf(C)
  BY SharedFacts DEF CodeFits
<1>5. ToSet(C.params) \cap Results(C.top) = {}
  BY SSAFacts DEF CodeFits
<1> QED BY <1>1, <1>2, <1>3, <1>4, <1>5

\* The names of copied states are new, and different for different states.
LEMMA NewNames ==
  ASSUME NEW M, NEW P, NEW C, NEW inst, NEW many, NEW k, NEW args, NEW J,
         Cloning(M, P, C, inst, many, k, args, J),
         NEW s \in StateNames(C)
  PROVE  /\ IsNew(P, J, inst, CopyName(inst, many, k, s))
         /\ CopyName(inst, many, k, s) \notin StateNames(P)
         /\ \A r \in StateNames(C) : CopyName(inst, many, k, s) = CopyName(inst, many, k, r) => s = r
<1> DEFINE n == CopyName(inst, many, k, s)
<1>1. /\ inst \in Name /\ IsStem(inst) /\ s \in Name /\ IsStem(s) /\ s # NoValue /\ k \in Nat \ {0}
      /\ \A r \in StateNames(C) : r \in Name /\ IsStem(r)
      /\ J \in SUBSET Name /\ many \in BOOLEAN /\ (many \/ k = 1)
  BY CloningFacts DEF Cloning
<1>2. /\ n \in Name /\ n # NoValue /\ Begins(n, inst) /\ ~Begins(inst, n)
  <2>1. CASE many
    <3>1. CopiesApart(inst, k, s, k, s)
      BY <1>1, CopiesDiffer
    <3> QED BY <2>1, <3>1 DEF CopyName, CopiesApart
  <2>2. CASE ~many
    BY <1>1, <2>2, NameJoin DEF CopyName
  <2> QED BY <2>1, <2>2
<1>3. IsStem(n)
  <2> HIDE DEF n
  <2> QED BY <1>1, <1>2, StemLonger
<1>4. ASSUME NEW a \in J PROVE Apart(a, n)
  <2>1. CASE Apart(a, inst)
    <3>1. a \in Name
      BY <1>1
    <3> HIDE DEF n
    <3> QED BY <1>1, <1>2, <2>1, <3>1, ApartLonger
  <2>2. CASE \E b \in InstanceNames(C) : a = inst \o b
    <3>1. PICK b \in InstanceNames(C) : a = inst \o b
      BY <2>2
    <3>2. b \in Name /\ IsStem(b)
      BY CloningFacts
    <3>3. CASE many
      <4>1. CopiesApart(inst, k, s, 1, b)
        BY <1>1, <3>2, CopiesDiffer
      <4> QED BY <3>1, <3>3, <4>1 DEF CopyName, CopiesApart
    <3>4. CASE ~many
      <4>1. Apart(b, s)
        BY DEF Cloning, CodeFits, HasNames
      <4> QED BY <1>1, <3>1, <3>2, <3>4, <4>1, SamePrefix DEF CopyName
    <3> QED BY <3>3, <3>4
  <2> QED BY <2>1, <2>2 DEF Cloning, FreshIn
<1>5. ASSUME NEW r \in StateNames(C), NEW l \in Nat \ {0}, n = CopyName(inst, many, l, r)
      PROVE  s = r /\ (many => k = l)
  <2>1. CASE many
    <3>1. CopiesApart(inst, k, s, l, r)
      BY <1>1, CopiesDiffer
    <3> QED BY <1>5, <2>1, <3>1 DEF CopyName, CopiesApart
  <2>2. CASE ~many
    BY <1>1, <1>5, <2>2, SamePrefix DEF CopyName
  <2> QED BY <2>1, <2>2
<1>6. n \notin StateNames(P)
  <2> SUFFICES ASSUME n \in StateNames(P) PROVE FALSE
    OBVIOUS
  <2>1. PICK l \in 1..k - 1 : \E r \in StateNames(C) : n = CopyName(inst, many, l, r)
    <3> HIDE DEF n
    <3> QED BY <1>2 DEF Cloning, FreshIn
  <2>2. l \in Nat \ {0} /\ l # k /\ k # 1
    BY <1>1
  <2> HIDE DEF n
  <2> QED BY <1>1, <1>5, <2>1, <2>2
<1>7. \A r \in StateNames(C) : n = CopyName(inst, many, k, r) => s = r
  BY <1>1, <1>5
<1> QED BY <1>2, <1>3, <1>4, <1>6, <1>7 DEF IsNew

\* The names of copied values are new, and different for different values.
LEMMA NewValues ==
  ASSUME NEW M, NEW P, NEW C, NEW inst, NEW many, NEW k, NEW args, NEW J,
         Cloning(M, P, C, inst, many, k, args, J),
         NEW w \in ValuesOf(C)
  PROVE  /\ IsNew(P, J, inst, CopyPrefix(inst, k) \o w)
         /\ CopyPrefix(inst, k) \o w \notin ValuesOf(P)
         /\ \A r \in ValuesOf(C) : CopyPrefix(inst, k) \o w = CopyPrefix(inst, k) \o r => w = r
<1> DEFINE v == CopyPrefix(inst, k) \o w
<1>1. /\ inst \in Name /\ IsStem(inst) /\ w \in Name /\ IsStem(w) /\ k \in Nat \ {0}
      /\ \A r \in ValuesOf(C) : r \in Name /\ IsStem(r)
      /\ J \in SUBSET Name /\ many \in BOOLEAN /\ (many \/ k = 1)
  BY CloningFacts DEF Cloning
<1>2. v \in Name /\ v # NoValue /\ Begins(v, inst) /\ ~Begins(inst, v)
  <2>1. CopiesApart(inst, k, w, k, w)
    BY <1>1, CopiesDiffer
  <2> QED BY <2>1 DEF CopiesApart
<1>3. IsStem(v)
  <2> HIDE DEF v
  <2> QED BY <1>1, <1>2, StemLonger
<1>4. ASSUME NEW a \in J PROVE Apart(a, v)
  <2>1. CASE Apart(a, inst)
    <3>1. a \in Name
      BY <1>1
    <3> HIDE DEF v
    <3> QED BY <1>1, <1>2, <2>1, <3>1, ApartLonger
  <2>2. CASE \E b \in InstanceNames(C) : a = inst \o b
    <3>1. PICK b \in InstanceNames(C) : a = inst \o b
      BY <2>2
    <3>2. b \in Name /\ IsStem(b)
      BY CloningFacts
    <3>3. CopiesApart(inst, k, w, 1, b)
      BY <1>1, <3>2, CopiesDiffer
    <3> QED BY <3>1, <3>3 DEF CopiesApart
  <2> QED BY <2>1, <2>2 DEF Cloning, FreshIn
<1>5. ASSUME NEW r \in ValuesOf(C), NEW l \in Nat \ {0}
      PROVE  /\ v = CopyPrefix(inst, l) \o r => w = r /\ k = l
             /\ v # inst \o r
  <2>1. CopiesApart(inst, k, w, l, r)
    BY <1>1, CopiesDiffer
  <2> QED BY <2>1 DEF CopiesApart
<1>6. v \notin ValuesOf(P)
  <2> SUFFICES ASSUME v \in ValuesOf(P) PROVE FALSE
    OBVIOUS
  <2>1. \/ \E r \in Results(SharedIn(C)) : v = inst \o r
        \/ \E l \in 1..k - 1 : \E r \in ValuesOf(C) : v = CopyPrefix(inst, l) \o r
    <3> HIDE DEF v
    <3> QED BY <1>2 DEF Cloning, FreshIn
  <2>2. \A l \in 1..k - 1 : l \in Nat \ {0} /\ l # k
    BY <1>1
  <2>3. Results(SharedIn(C)) \subseteq ValuesOf(C)
    BY CloningFacts
  <2> HIDE DEF v
  <2> QED BY <1>1, <1>5, <2>1, <2>2, <2>3
<1>7. \A r \in ValuesOf(C) : v = CopyPrefix(inst, k) \o r => w = r
  BY <1>1, <1>5
<1> QED BY <1>2, <1>3, <1>4, <1>6, <1>7 DEF IsNew

-----------------------------------------------------------------------------
(* The copies of the code of a parser *)

\* Code of C that is copied for every call.
IsOwnCode(C, ops) ==
  /\ ops \in Seq(Operation) /\ DefinedOnce(ops) /\ Results(ops) \subseteq Own(C)
  /\ \A j \in DOMAIN ops : KindFits(ops[j])

\* Values of copied code.
AreCopied(inst, k, ops, new) ==
  /\ \A j \in DOMAIN new : KindFits(new[j])
  /\ \A v : v \in Results(new) <=> \E w \in Results(ops) : v = CopyPrefix(inst, k) \o w
  /\ DefinedOnce(new)

\* A value of the callee's own code gets the prefix of the call.
LEMMA OwnCopied ==
  ASSUME NEW M, NEW P, NEW C, NEW inst, NEW many, NEW k, NEW args, NEW J,
         Cloning(M, P, C, inst, many, k, args, J),
         NEW w \in Own(C)
  PROVE  /\ CopyOf(C, inst, k, args, w) = CopyPrefix(inst, k) \o w
         /\ CopyPrefix(inst, k) \o w # NoValue
<1>1. w \in ValuesOf(C) /\ w \in Name /\ w \notin ToSet(C.params) /\ w \notin Results(SharedIn(C))
  BY CloningFacts DEF Own
<1>2. CopyPrefix(inst, k) \o w # NoValue
  BY <1>1, NewValues DEF IsNew
<1> QED BY <1>1, <1>2 DEF CopyOf

\* The results of copied code are the copied results.
LEMMA CodeCopied ==
  ASSUME NEW M, NEW P, NEW C, NEW inst, NEW many, NEW k, NEW args, NEW J,
         Cloning(M, P, C, inst, many, k, args, J),
         NEW ops, IsOwnCode(C, ops), NEW new, AreOpCopies(C, inst, k, args, ops, new)
  PROVE  AreCopied(inst, k, ops, new)
<1>1. /\ ops \in Seq(Operation) /\ new \in Seq(Operation) /\ DOMAIN new = DOMAIN ops
      /\ \A j \in DOMAIN ops : IsOpCopy(C, inst, k, args, ops[j], new[j])
  BY DEF IsOwnCode, AreOpCopies
<1>2. ASSUME NEW j \in DOMAIN ops, ops[j].res # NoValue
      PROVE  /\ ops[j].res \in Results(ops) /\ ops[j].res \in Own(C)
             /\ new[j].res = CopyPrefix(inst, k) \o ops[j].res /\ new[j].res # NoValue
  <2>1. ops[j].res \in Results(ops)
    BY <1>1, <1>2, ResultsFacts
  <2>2. ops[j].res \in Own(C)
    BY <2>1 DEF IsOwnCode
  <2>3. new[j].res = CopyOf(C, inst, k, args, ops[j].res)
    BY <1>1, <1>2 DEF IsOpCopy
  <2> QED BY <2>1, <2>2, <2>3, OwnCopied
<1>3. ASSUME NEW j \in DOMAIN ops, ops[j].res = NoValue
      PROVE  new[j].res = NoValue
  BY <1>1, <1>3 DEF IsOpCopy
<1>4. ASSUME NEW j \in DOMAIN ops PROVE KindFits(new[j])
  <2>1. KindFits(ops[j]) /\ new[j].op = ops[j].op
    BY <1>1 DEF IsOwnCode, IsOpCopy
  <2>2. ops[j].args = <<>> => new[j].args = <<>>
    <3>1. ops[j].args \in Seq(Name) /\ new[j].args \in Seq(Name)
      BY <1>1, SeqFacts, OpFacts
    <3>2. Len(new[j].args) = Len(ops[j].args)
      BY <1>1 DEF IsOpCopy
    <3> QED BY <3>1, <3>2, EmptySeqName
  <2> QED BY <1>2, <2>1, <2>2 DEF KindFits
<1>5. \A v : v \in Results(new) => \E w \in Results(ops) : v = CopyPrefix(inst, k) \o w
  <2> TAKE v
  <2> HAVE v \in Results(new)
  <2>1. PICK j \in DOMAIN ops : new[j].res = v /\ v # NoValue
    BY <1>1, ResultsFacts
  <2> QED BY <1>2, <1>3, <2>1
<1>6. \A w \in Results(ops) : CopyPrefix(inst, k) \o w \in Results(new)
  <2> TAKE w \in Results(ops)
  <2>1. PICK j \in DOMAIN ops : ops[j].res = w /\ w # NoValue
    BY <1>1, ResultsFacts
  <2>2. new[j].res = CopyPrefix(inst, k) \o w /\ new[j].res # NoValue
    BY <1>2, <2>1
  <2>3. new[j].res \in Results(new)
    BY <1>1, <2>2, ResultsFacts
  <2> QED BY <2>2, <2>3
<1>7. DefinedOnce(new)
  <2> SUFFICES ASSUME NEW i \in DOMAIN ops, NEW j \in DOMAIN ops, new[i].res = new[j].res,
                      new[j].res # NoValue
               PROVE  i = j
    BY <1>1 DEF DefinedOnce
  <2>1. ops[i].res # NoValue /\ ops[j].res # NoValue
    BY <1>3
  <2>2. CopyPrefix(inst, k) \o ops[i].res = CopyPrefix(inst, k) \o ops[j].res
    BY <1>2, <2>1
  <2>3. ops[i].res \in ValuesOf(C) /\ ops[j].res \in ValuesOf(C)
    BY <1>2, <2>1 DEF Own
  <2>4. ops[i].res = ops[j].res
    <3>1. CopiesApart(inst, k, ops[i].res, k, ops[j].res)
      <4>1. /\ inst \in Name /\ k \in Nat \ {0}
            /\ ops[i].res \in Name /\ IsStem(ops[i].res) /\ ops[j].res \in Name /\ IsStem(ops[j].res)
        BY <2>3, CloningFacts DEF Cloning
      <4> QED BY <4>1, CopiesDiffer
    <3> QED BY <2>2, <3>1 DEF CopiesApart
  <2> QED BY <2>1, <2>4 DEF IsOwnCode, DefinedOnce
<1> QED BY <1>1, <1>4, <1>5, <1>6, <1>7 DEF AreCopied

\* The code of states is the callee's own.
LEMMA StatesAreOwn ==
  ASSUME NEW C \in ParserType, IsSSA(C), HasKinds(C), NEW s \in ToSet(C.states)
  PROVE  IsOwnCode(C, s.ops)
<1>1. PICK i \in DOMAIN C.states : C.states[i] = s
  BY DEF ToSet
<1>2. s.ops \in Seq(Operation)
  BY <1>1, ParserFacts
<1>3. DefinedOnce(s.ops) /\ Results(s.ops) \cap OuterValues(C) = {}
  BY <1>1, SSAFacts DEF OwnResults
<1>4. Results(s.ops) \subseteq ValuesOf(C)
  BY <1>1, ValuesFacts
<1>5. Results(SharedIn(C)) \subseteq Results(C.top)
  BY SharedFacts
<1>6. Results(s.ops) \subseteq Own(C)
  BY <1>3, <1>4, <1>5 DEF Own, OuterValues
<1>7. KindsFit(s)
  BY <1>1, KindsFacts
<1> QED BY <1>2, <1>3, <1>6, <1>7 DEF IsOwnCode, KindsFit

\* The code of the body that is no declaration.
InitsIn(C) == Chosen(C.top, DOMAIN C.top \ {j \in DOMAIN C.top : IsShared(C.top[j])})

\* The code that initialises the locals is the callee's own, and calls nothing.
LEMMA InitsAreOwn ==
  ASSUME NEW C \in ParserType, IsSSA(C), HasKinds(C)
  PROVE  /\ IsOwnCode(C, InitsIn(C))
         /\ \A o \in ToSet(InitsIn(C)) : o.op # "apply" /\ o \in ToSet(C.top)
         /\ \A i \in DOMAIN C.states : Results(InitsIn(C)) \cap Results(C.states[i].ops) = {}
<1> DEFINE shared == {j \in DOMAIN C.top : IsShared(C.top[j])}
           at == DOMAIN C.top \ shared
           I == Chosen(C.top, at)
<1>1. C.top \in Seq(Operation) /\ at \subseteq DOMAIN C.top /\ InitsIn(C) = I
  BY ParserFacts DEF InitsIn
<1>2. /\ I \in Seq(Operation) /\ ToSet(I) = {C.top[n] : n \in at}
      /\ \E K : IsChosen(I, C.top, at, K)
  <2> HIDE DEF at
  <2> QED BY <1>1, ChosenFacts, ChosenSet
<1>3. PICK K : IsChosen(I, C.top, at, K)
  BY <1>2
<1> HIDE DEF I
<1>4. \A a \in DOMAIN I : K[a] \in DOMAIN C.top /\ I[a] = C.top[K[a]] /\ ~IsShared(I[a])
  BY <1>3 DEF IsChosen
<1>5. DefinedOnce(C.top) /\ ToSet(C.params) \cap Results(C.top) = {}
  BY SSAFacts
<1>6. DefinedOnce(I)
  <2> SUFFICES ASSUME NEW a \in DOMAIN I, NEW b \in DOMAIN I, I[a].res = I[b].res,
                      I[a].res # NoValue
               PROVE  a = b
    BY DEF DefinedOnce
  <2>1. K[a] = K[b]
    BY <1>4, <1>5 DEF DefinedOnce
  <2>2. (a < b <=> K[a] < K[b]) /\ (b < a <=> K[b] < K[a])
    BY <1>3 DEF IsChosen
  <2>3. K[a] \in Nat /\ a \in Nat /\ b \in Nat
    <3>1. DOMAIN C.top = 1..Len(C.top) /\ DOMAIN I = 1..Len(I)
      BY <1>1, <1>2, SeqFacts
    <3> QED BY <1>4, <3>1
  <2> QED BY <2>1, <2>2, <2>3
<1>7. Results(I) \subseteq Results(C.top)
  BY <1>4 DEF Results
<1>8. Results(I) \cap Results(SharedIn(C)) = {}
  <2> SUFFICES ASSUME NEW v \in Results(I), v \in Results(SharedIn(C)) PROVE FALSE
    OBVIOUS
  <2>1. PICK a \in DOMAIN I : I[a].res = v /\ v # NoValue
    BY <1>2, ResultsFacts
  <2>2. PICK o \in ToSet(SharedIn(C)) : o.res = v
    BY DEF Results, ToSet
  <2>3. o \in ToSet(C.top) /\ IsShared(o)
    BY <2>2, SharedFacts
  <2>4. PICK j \in DOMAIN C.top : C.top[j] = o
    BY <2>3 DEF ToSet
  <2>5. K[a] = j
    BY <1>4, <1>5, <2>1, <2>2, <2>4 DEF DefinedOnce
  <2> QED BY <1>4, <2>1, <2>3, <2>4, <2>5
<1>9. Results(I) \subseteq Own(C)
  BY <1>5, <1>7, <1>8, ValuesFacts DEF Own
<1>10. \A a \in DOMAIN I : I[a] \in ToSet(C.top) /\ I[a].op # "apply" /\ KindFits(I[a])
  <2>1. \A a \in DOMAIN I : I[a] \in ToSet(C.top)
    BY <1>4 DEF ToSet
  <2> QED BY <2>1 DEF HasKinds, KindFits
<1>11. \A i \in DOMAIN C.states : Results(I) \cap Results(C.states[i].ops) = {}
  BY <1>7 DEF IsSSA
<1>12. \A o \in ToSet(I) : o.op # "apply" /\ o \in ToSet(C.top)
  BY <1>10 DEF ToSet
<1> QED BY <1>1, <1>2, <1>6, <1>9, <1>10, <1>11, <1>12 DEF IsOwnCode

\* A copied transition leads to copied states, or behind the call where it accepts.
LEMMA NextCopied ==
  ASSUME NEW C \in ParserType, NEW inst \in Name, NEW many, NEW k \in Nat, NEW args \in Seq(Name),
         Len(args) = Len(C.params), ToSet(C.params) \cap Results(SharedIn(C)) = {},
         NEW next \in Transition, NEW post \in Name
  PROVE  /\ NextCopy(C, inst, many, k, args, next, post) \in Transition
         /\ next.kind = "accept" => NextCopy(C, inst, many, k, args, next, post) = To(post)
         /\ next.kind # "accept" =>
              LET to == NextCopy(C, inst, many, k, args, next, post)
              IN /\ to.kind = next.kind
                 /\ to.kind = "select" => to.sel = CopyOf(C, inst, k, args, next.sel)
                 /\ \A n \in ToSet(to.targets) : \E m \in ToSet(next.targets) :
                      n = CopyName(inst, many, k, m)
<1>1. CASE next.kind = "accept"
  <2>1. To(post) \in Transition
    BY NoValueName DEF To, NextTo, Transition
  <2> QED BY <1>1, <2>1 DEF NextCopy
<1>2. CASE next.kind # "accept"
  <2>1. PICK sel : sel = IF next.kind = "select" THEN CopyOf(C, inst, k, args, next.sel) ELSE next.sel
    OBVIOUS
  <2>2. PICK T : T = [i \in DOMAIN next.targets |-> CopyName(inst, many, k, next.targets[i])]
    OBVIOUS
  <2>3. PICK to : to = NextCopy(C, inst, many, k, args, next, post)
    OBVIOUS
  <2>4. to = [next EXCEPT !.sel = sel, !.targets = T]
    BY <1>2, <2>1, <2>2, <2>3 DEF NextCopy
  <2>5. next.sel \in Name /\ next.targets \in Seq(Name)
    BY DEF Transition
  <2>6. sel \in Name
    BY <2>1, <2>5, CopyOfFacts
  <2>7. T \in Seq(Name) /\ DOMAIN T = DOMAIN next.targets
    <3>1. /\ Len(next.targets) \in Nat /\ DOMAIN next.targets = 1..Len(next.targets)
          /\ \A i \in DOMAIN next.targets : next.targets[i] \in Name
      BY <2>5, SeqFacts
    <3>2. \A n \in Name : CopyName(inst, many, k, n) \in Name
      BY CopyPrefixName, NameConcat DEF CopyName
    <3>3. \A i \in DOMAIN next.targets : T[i] \in Name
      BY <2>2, <3>1, <3>2
    <3>4. T \in [1..Len(next.targets) -> Name]
      BY <2>2, <3>1, <3>3
    <3> QED BY <3>1, <3>4, AsSeq
  <2>8. to \in Transition /\ to.kind = next.kind /\ to.sel = sel /\ to.targets = T
    BY <2>4, <2>6, <2>7 DEF Transition
  <2>9. \A n \in ToSet(T) : \E m \in ToSet(next.targets) : n = CopyName(inst, many, k, m)
    BY <2>2 DEF ToSet
  <2> QED BY <1>2, <2>1, <2>3, <2>8, <2>9
<1> QED BY <1>1, <1>2

\* The copy of a state, part by part.
IsStateCopy(C, inst, many, k, args, s, post, t) ==
  /\ t \in StateType /\ t.name = CopyName(inst, many, k, s.name)
  /\ AreOpCopies(C, inst, k, args, s.ops, t.ops)
  /\ t.next = NextCopy(C, inst, many, k, args, s.next, post)

\* StateCopy makes such copies.
LEMMA StateCopied ==
  ASSUME NEW C \in ParserType, NEW inst \in Name, NEW many, NEW k \in Nat, NEW args \in Seq(Name),
         Len(args) = Len(C.params), ToSet(C.params) \cap Results(SharedIn(C)) = {},
         NEW s \in StateType, NEW post \in Name, NEW t,
         t = StateCopy(C, inst, many, k, args, s, post)
  PROVE  IsStateCopy(C, inst, many, k, args, s, post, t)
<1>1. s.name \in Name /\ s.ops \in Seq(Operation) /\ s.next \in Transition
  BY StateFacts
<1>2. CopyName(inst, many, k, s.name) \in Name
  BY <1>1, CopyPrefixName, NameConcat DEF CopyName
<1>3. PICK new : new = [j \in DOMAIN s.ops |-> OpCopy(C, inst, k, args, s.ops[j])]
  OBVIOUS
<1>4. AreOpCopies(C, inst, k, args, s.ops, new) /\ new \in Seq(Operation)
  <2>1. AreOpCopies(C, inst, k, args, s.ops, new)
    BY <1>1, <1>3, OpsCopied
  <2> QED BY <2>1 DEF AreOpCopies
<1>5. NextCopy(C, inst, many, k, args, s.next, post) \in Transition
  BY <1>1, NextCopied
<1>6. t = ParserState(CopyName(inst, many, k, s.name), new, NextCopy(C, inst, many, k, args, s.next, post))
  BY <1>3 DEF StateCopy
<1> QED BY <1>2, <1>4, <1>5, <1>6 DEF IsStateCopy, ParserState, StateType

\* The calls of copied code.
LEMMA CallsCopied ==
  ASSUME NEW M, NEW P, NEW C, NEW inst, NEW many, NEW k, NEW args, NEW J,
         Cloning(M, P, C, inst, many, k, args, J),
         NEW s \in ToSet(C.states), NEW t, AreOpCopies(C, inst, k, args, s.ops, t.ops),
         NEW c \in Calls(t)
  PROVE  /\ \E b \in Calls(s) : c.inst = inst \o b.inst /\ c.deep = b.deep
         /\ c.inst \in InstanceNames(P) /\ c.inst # inst
         /\ \A x \in ToSet(P.insts) : x.name = c.inst /\ x.callee \in DOMAIN M =>
              c.arity = Len(M[x.callee].params)
<1>1. PICK j \in DOMAIN t.ops : t.ops[j].op = "apply" /\ c = CallOf(t.ops[j])
  BY CallsFacts
<1>2. j \in DOMAIN s.ops /\ IsOpCopy(C, inst, k, args, s.ops[j], t.ops[j])
  BY <1>1 DEF AreOpCopies
<1>3. PICK b : b = CallOf(s.ops[j])
  OBVIOUS
<1>4. s.ops[j].op = "apply" /\ b \in Calls(s)
  BY <1>1, <1>2, <1>3, CallsFacts DEF IsOpCopy
<1>5. c.inst = inst \o b.inst /\ c.deep = b.deep /\ c.arity = b.arity
  BY <1>1, <1>2, <1>3, <1>4, CallOfFacts DEF IsOpCopy
<1>6. PICK i \in DOMAIN C.states : C.states[i] = s
  BY DEF ToSet
<1>7. /\ CallsKnown(C) /\ IsLinked(M, C) /\ IsLinked(M, P) /\ UniqueInsts(P)
  BY DEF Cloning, CodeFits, HasNames
<1>8. b.inst \in InstanceNames(C)
  BY <1>4, <1>6, <1>7 DEF CallsKnown
<1>9. PICK z \in ToSet(C.insts) : z.name = b.inst
  BY <1>8, InstanceNamesFacts
<1>10. PICK y \in ToSet(P.insts) : y.name = inst \o z.name /\ y.callee = z.callee
  BY DEF Cloning, FreshIn
<1>11. c.inst \in InstanceNames(P)
  BY <1>5, <1>9, <1>10, InstanceNamesFacts
<1>12. c.inst # inst
  BY <1>5, <1>8, CloningFacts, NameJoin
<1>13. ASSUME NEW x \in ToSet(P.insts), x.name = c.inst, x.callee \in DOMAIN M
       PROVE  c.arity = Len(M[x.callee].params)
  <2>1. x = y
    <3>1. InstOf(P, x.name) = x /\ InstOf(P, y.name) = y
      BY <1>7, InstOfFacts
    <3> QED BY <1>5, <1>9, <1>10, <1>13, <3>1
  <2>2. InstFits(M, C, z)
    BY <1>7, LinkedFacts
  <2> QED BY <1>4, <1>5, <1>6, <1>9, <1>10, <1>13, <2>1, <2>2 DEF InstFits
<1> QED BY <1>4, <1>5, <1>11, <1>12, <1>13

\* Values of copied code are new.
LEMMA CopiedNew ==
  ASSUME NEW M, NEW P, NEW C, NEW inst, NEW many, NEW k, NEW args, NEW J,
         Cloning(M, P, C, inst, many, k, args, J),
         NEW ops, IsOwnCode(C, ops), NEW new, AreCopied(inst, k, ops, new)
  PROVE  \A v \in Results(new) : IsNew(P, J, inst, v) /\ v \notin ValuesOf(P)
<1> TAKE v \in Results(new)
<1>1. PICK w \in Results(ops) : v = CopyPrefix(inst, k) \o w
  BY DEF AreCopied
<1>2. w \in ValuesOf(C)
  BY <1>1 DEF IsOwnCode, Own
<1> QED BY <1>1, <1>2, NewValues

\* The copy of a state fits into P, and its names are new.
LEMMA CopyFits ==
  ASSUME NEW M, NEW P, NEW C, NEW inst, NEW many, NEW k, NEW args, NEW J,
         Cloning(M, P, C, inst, many, k, args, J),
         NEW s \in ToSet(C.states), NEW post, NEW t, IsStateCopy(C, inst, many, k, args, s, post, t)
  PROVE  /\ StateFits(M, P, J, t)
         /\ t.name \notin StateNames(P) /\ IsNew(P, J, inst, t.name)
         /\ \A v \in Results(t.ops) : v \notin ValuesOf(P) /\ IsNew(P, J, inst, v)
<1>1. /\ C \in ParserType /\ IsSSA(C) /\ HasKinds(C) /\ P \in ParserType
      /\ AreOpCopies(C, inst, k, args, s.ops, t.ops) /\ t.name = CopyName(inst, many, k, s.name)
  BY DEF Cloning, CodeFits, IsStateCopy
<1>2. IsOwnCode(C, s.ops)
  BY <1>1, StatesAreOwn
<1>3. AreCopied(inst, k, s.ops, t.ops)
  BY <1>1, <1>2, CodeCopied
<1>4. \A v \in Results(t.ops) : v \notin ValuesOf(P) /\ IsNew(P, J, inst, v)
  BY <1>2, <1>3, CopiedNew
<1>5. t.name \notin StateNames(P) /\ IsNew(P, J, inst, t.name)
  <2>1. s.name \in StateNames(C)
    BY DEF ToSet, StateNames
  <2> QED BY <1>1, <2>1, NewNames
<1>6. Results(t.ops) \cap OuterValues(P) = {}
  BY <1>1, <1>4, ValuesFacts DEF OuterValues
<1>7. KindsFit(t) /\ DefinedOnce(t.ops)
  BY <1>3 DEF AreCopied, KindsFit
<1>8. \A c \in Calls(t) :
        /\ c.inst \in InstanceNames(P)
        /\ \A x \in ToSet(P.insts) : x.name = c.inst /\ x.callee \in DOMAIN M =>
             c.arity = Len(M[x.callee].params)
  BY <1>1, CallsCopied
<1>9. \A v \in {t.name} \cup Results(t.ops) : IsStem(v) /\ \A a \in J : Apart(a, v)
  BY <1>4, <1>5 DEF IsNew
<1> QED BY <1>4, <1>5, <1>6, <1>7, <1>8, <1>9 DEF StateFits

\* The state that enters the copy.
LEMMA EnterFits ==
  ASSUME NEW M, NEW P, NEW C, NEW inst, NEW many, NEW k, NEW args, NEW J,
         Cloning(M, P, C, inst, many, k, args, J),
         NEW pre \in StateNames(P), NEW e, e.name = pre,
         AreOpCopies(C, inst, k, args, InitsIn(C), e.ops)
  PROVE  /\ StateFits(M, P, J, e) /\ Calls(e) = {}
         /\ AreCopied(inst, k, InitsIn(C), e.ops)
         /\ \A v \in Results(e.ops) : v \notin ValuesOf(P) /\ IsNew(P, J, inst, v)
<1>1. C \in ParserType /\ IsSSA(C) /\ HasKinds(C) /\ P \in ParserType /\ HasNames(P, J)
  BY DEF Cloning, CodeFits
<1>2. IsOwnCode(C, InitsIn(C)) /\ \A o \in ToSet(InitsIn(C)) : o.op # "apply"
  BY <1>1, InitsAreOwn
<1>3. AreCopied(inst, k, InitsIn(C), e.ops)
  BY <1>2, CodeCopied
<1>4. \A v \in Results(e.ops) : v \notin ValuesOf(P) /\ IsNew(P, J, inst, v)
  BY <1>2, <1>3, CopiedNew
<1>5. Results(e.ops) \cap OuterValues(P) = {}
  BY <1>1, <1>4, ValuesFacts DEF OuterValues
<1>6. KindsFit(e) /\ DefinedOnce(e.ops)
  BY <1>3 DEF AreCopied, KindsFit
<1>7. Calls(e) = {}
  <2>1. \A j \in DOMAIN e.ops : e.ops[j].op # "apply"
    <3>1. \A j \in DOMAIN e.ops : j \in DOMAIN InitsIn(C) /\ e.ops[j].op = InitsIn(C)[j].op
      BY DEF AreOpCopies, IsOpCopy
    <3> QED BY <1>2, <3>1 DEF ToSet
  <2> QED BY <2>1, CallsFacts
<1>8. \A v \in {e.name} \cup Results(e.ops) : IsStem(v) /\ \A a \in J : Apart(a, v)
  BY <1>1, <1>4 DEF IsNew, HasNames
<1> QED BY <1>3, <1>4, <1>5, <1>6, <1>7, <1>8 DEF StateFits

=============================================================================
