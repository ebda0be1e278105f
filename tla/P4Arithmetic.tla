----------------------------- MODULE P4Arithmetic -----------------------------
(***************************************************************************)
(* What the P4 language says of integers: the value of every operator on   *)
(* operands of a type.  The meaning of a source program and the meaning of *)
(* P4HIR code are both defined by these.                                   *)
(***************************************************************************)
EXTENDS HirTypes
LOCAL INSTANCE Bitwise

LargestOf(t) == IF t.signed THEN 2 ^ (t.w - 1) - 1 ELSE 2 ^ t.w - 1
SmallestOf(t) == IF t.signed THEN -(2 ^ (t.w - 1)) ELSE 0
Saturated(t, n) == Max({SmallestOf(t), Min({LargestOf(t), n})})

\* The bits of an integer, as a natural number.
Raw(t, n) == Fit(Bits(t.w), n)

Bool01(b) == IF b THEN 1 ELSE 0

\* Division rounds towards zero; by zero it is undefined, and never asked for.
Quotient(a, b) == IF b = 0 THEN 0
                  ELSE LET q == (IF a < 0 THEN -a ELSE a) \div (IF b < 0 THEN -b ELSE b)
                       IN IF (a < 0) = (b < 0) THEN q ELSE -q

Binary(kind, t, a, b) ==
  CASE kind = "add" -> Fit(t, a + b)
    [] kind = "sub" -> Fit(t, a - b)
    [] kind = "mul" -> Fit(t, a * b)
    [] kind = "div" -> Fit(t, Quotient(a, b))
    [] kind = "mod" -> Fit(t, a - b * Quotient(a, b))
    [] kind = "sadd" -> Saturated(t, a + b)
    [] kind = "ssub" -> Saturated(t, a - b)
    [] kind = "and" -> Fit(t, Raw(t, a) & Raw(t, b))
    [] kind = "or" -> Fit(t, Raw(t, a) | Raw(t, b))
    [] kind = "xor" -> Fit(t, Raw(t, a) ^^ Raw(t, b))
    [] kind = "shl" -> IF b >= t.w THEN 0 ELSE Fit(t, a * 2 ^ b)
    [] kind = "shr" -> a \div 2 ^ Min({b, t.w})

UnaryValue(kind, t, a) ==
  CASE kind = "neg" -> Fit(t, -a)
    [] kind = "cmpl" -> Fit(t, -a - 1)
    [] kind = "plus" -> a
    [] kind = "not" -> 1 - a

Compare(kind, a, b) ==
  CASE kind = "eq" -> a = b
    [] kind = "ne" -> a # b
    [] kind = "lt" -> a < b
    [] kind = "le" -> a <= b
    [] kind = "gt" -> a > b
    [] kind = "ge" -> a >= b

SliceOf(t, n, hi, lo) == (Raw(t, n) \div 2 ^ lo) % 2 ^ (hi - lo + 1)
Patched(t, n, hi, lo, v) == Fit(t, Raw(t, n) + (v - SliceOf(t, n, hi, lo)) * 2 ^ lo)
ConcatOf(t, u, a, b) == Fit([t EXCEPT !.w = @ + u.w], a * 2 ^ u.w + Raw(u, b))

\* A cast keeps the integer if the new type can hold it, and its low bits
\* otherwise.
CastValue(t, n) == LET c == IntType(t) IN IF c.k = "bits" THEN Fit(c, n) ELSE n

\* A value of a type nobody assigned to.
RECURSIVE Zero(_)
Zero(t) ==
  LET c == Canonical(t)
  IN CASE IsStructLike(c) \/ c.k = "tuple" -> [i \in DOMAIN c.types |-> Zero(c.types[i])]
       [] c.k = "array" -> [i \in 1..c.n |-> Zero(c.of)]
       [] OTHER -> 0

\* What can be observed of a value: the fields of an invalid header cannot.
RECURSIVE Visible(_, _)
Visible(t, v) ==
  LET c == Canonical(t)
  IN CASE c.k = "header" /\ Last(v) = 0 -> Zero(c)
       [] IsStructLike(c) \/ c.k = "tuple" -> [i \in DOMAIN v |-> Visible(c.types[i], v[i])]
       [] c.k = "array" -> [i \in DOMAIN v |-> Visible(c.of, v[i])]
       [] OTHER -> v

\* The part of a value that a path of positions leads to, and the value with
\* that part replaced.
PartOf(v, path) == FoldLeft(LAMBDA w, i : w[i], v, path)

RECURSIVE WithPart(_, _, _)
WithPart(v, path, x) ==
  IF path = <<>> THEN x ELSE [v EXCEPT ![Head(path)] = WithPart(@, Tail(path), x)]

=============================================================================
