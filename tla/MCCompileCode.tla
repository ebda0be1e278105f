------------------------------ MODULE MCCompileCode ------------------------------
(***************************************************************************)
(* Bodies that between them hold every statement and expression that is    *)
(* modelled, each on a few values of its parameters, and the pipelines     *)
(* they go through.                                                        *)
(***************************************************************************)
EXTENDS CompileCode

b2 == Bits(2)
b4 == Bits(4)
b8 == Bits(8)
i4 == SignedBits(4)

E2 == SerEnum("E", b4, <<"one", "two", "nine">>, <<1, 2, 9>>)
e == Path("e", E2)
n4(n) == Lit(b4, n)
In4(name) == Param(name, b4, FALSE)
Out4(name) == Param(name, b4, TRUE)
a == Path("a", b4)
b == Path("b", b4)
r == Path("r", b4)
s == Path("s", b4)

Numbers == Program(<<In4("a"), In4("b"), Out4("r"), Out4("s")>>, <<>>,
                   <<<<1, 6, 0, 0>>, <<9, 9, 2, 0>>, <<15, 1, 7, 3>>>>)
WithBody(p, body) == [p EXCEPT !.body = body]
Bodies(bodies) == [i \in DOMAIN bodies |-> WithBody(Numbers, bodies[i])]

Sums == WithBody(Numbers,
  <<Assign(r, Bin("add", n4(3), Bin("add", a, n4(14)))),
    Assign(s, Bin("sub", Bin("sub", n4(5), b), n4(1)))>>)

Differences == WithBody(Numbers,
  <<Assign(r, Bin("sub", n4(2), Bin("sub", a, n4(9)))),
    Assign(s, Bin("sub", n4(3), Bin("sub", n4(8), b)))>>)

MoreSums == WithBody(Numbers,
  <<Assign(r, Bin("sub", Bin("add", a, n4(3)), n4(5))),
    Assign(s, Bin("add", Bin("sub", n4(7), b), n4(12))),
    Assign(r, Bin("add", r, Bin("add", Bin("sub", a, n4(3)), n4(1))))>>)

Negations == WithBody(Numbers,
  <<Assign(r, Bin("add", Un("neg", a), b)),
    Assign(s, Bin("sub", n4(0), Un("plus", a))),
    Assign(r, Bin("sub", r, Bin("mul", Un("neg", b), n4(15)))),
    OpAssign("add", s, Bin("add", Un("cmpl", a), n4(1)))>>)

Bitwise4 == WithBody(Numbers,
  <<Assign(r, Bin("and", Bin("and", a, b), a)),
    Assign(s, Bin("xor", a, Bin("xor", b, a))),
    Assign(r, Bin("or", r, Bin("and", b, Un("cmpl", b)))),
    OpAssign("or", s, Bin("xor", a, n4(0)))>>)

Products == WithBody(Numbers,
  <<Assign(r, Bin("div", Bin("mul", a, n4(1)), n4(2))),
    Assign(s, Bin("mod", b, n4(4))),
    OpAssign("sadd", r, n4(9)),
    Assign(s, Bin("ssub", s, Bin("mul", b, n4(0))))>>)

Shifts == Program(<<In4("a"), In4("b"), Param("c", i4, FALSE), Out4("r"), Param("t", i4, TRUE)>>,
  <<Assign(r, ShiftBy("shl", a, b)),
    OpAssign("shl", r, n4(1)),
    Assign(Path("t", i4), ShiftBy("shr", Path("c", i4), Lit(b8, 9))),
    Assign(r, Bin("xor", r, ShiftBy("shr", a, ShiftBy("shl", n4(1), n4(0)))))>>,
  <<<<5, 1, 3, 0, 0>>, <<9, 5, -6, 0, 1>>>>)

\* Operators on constants, and operators that undo one another.
Folded ==
  <<<<Assign(r, Bin("mul", Bin("add", n4(3), n4(14)), Bin("sub", n4(1), n4(4)))),
     OpAssign("xor", r, Bin("or", Bin("and", n4(6), n4(12)), Bin("mod", n4(9), n4(4))))>>,
   <<OpAssign("add", r, Bin("ssub", Bin("sadd", n4(9), n4(9)), Bin("div", n4(7), n4(2)))),
     Assign(s, Bin("sub", Un("neg", n4(3)), Un("cmpl", n4(5))))>>,
   <<Assign(s, Mux(Cmp("lt", ShiftBy("shl", n4(3), n4(3)), n4(9)), ShiftBy("shr", n4(12), n4(1)),
                   CastTo(b4, EnumMember(E2, "two"))))>>>>

Undone ==
  <<<<Assign(r, Bin("add", Bin("sub", a, b), b)), OpAssign("add", r, Bin("sub", Bin("add", a, b), b)),
     OpAssign("xor", r, Bin("sub", Bin("add", a, b), a))>>,
   <<Assign(s, Bin("add", b, Bin("sub", a, b))),
     OpAssign("sub", s, Bin("sub", Bin("sub", a, n4(3)), n4(1)))>>>>

Absorbed ==
  <<<<Assign(r, Bin("or", Bin("and", b, Bin("and", a, b)), Bin("or", a, a))),
     OpAssign("add", r, Bin("and", a, n4(0))), OpAssign("sub", r, Bin("or", b, Un("cmpl", b)))>>,
   <<Assign(s, Bin("xor", Bin("xor", a, b), b)), OpAssign("and", s, Bin("xor", Un("cmpl", a), a)),
     OpAssign("or", s, Bin("and", b, n4(15)))>>>>

Trivial ==
  <<<<Assign(r, Bin("sadd", Bin("ssub", a, n4(0)), Bin("sub", b, b))), OpAssign("sub", r, Bin("ssub", a, a))>>,
   <<Assign(s, ShiftBy("shl", n4(0), b)),
     If(OrElse(Cmp("le", a, a), Un("not", Un("not", Cmp("gt", n4(3), b)))),
        <<Assign(s, Bin("div", b, n4(1)))>>, <<Assign(s, Bin("mod", b, n4(1)))>>)>>,
   <<OpAssign("add", s, Un("neg", Un("neg", Un("cmpl", Un("cmpl", b)))))>>>>

\* A slice that is written into, read from memory, of a value and of a slice.
Slices == Program(<<In4("a"), Param("e", E2, TRUE), Out4("r"), Param("w", b8, TRUE)>>,
  <<Assign(SliceBits(r, 3, 2), SliceBits(a, 1, 0)),
    Assign(SliceBits(SliceBits(r, 2, 0), 1, 1), SliceBits(e, 0, 0)),
    Assign(Path("w", b8), Concat(a, r)),
    Assign(SliceBits(Path("w", b8), 4, 3), SliceBits(SliceBits(Path("w", b8), 7, 2), 3, 2))>>,
  <<<<6, 1, 9, 0>>, <<9, 2, 5, 0>>>>)

Lazy == WithBody(Numbers,
  <<If(OrElse(AndAlso(Cmp("lt", a, b), Cmp("ne", b, n4(1))), Cmp("eq", a, n4(15))),
       <<Assign(r, Mux(Cmp("ge", n4(8), a), b, a))>>,
       <<Assign(s, Bin("add", s, n4(1)))>>)>>)

Constants1 == WithBody(Numbers,
  <<DeclareConst("k", Bin("or", ShiftBy("shl", n4(1), n4(2)), n4(1))),
    DeclareConst("big", Cmp("eq", Path("k", b4), n4(5))),
    DeclareConst("wide", CastTo(b8, Path("k", b4))),
    If(Cmp("eq", Path("k", b4), n4(5)), <<Assign(r, Path("k", b4))>>, <<>>),
    If(Un("not", Path("big", Bool)), <<Assign(s, n4(1))>>, <<>>),
    Assign(SliceBits(s, 1, 0), SliceBits(Path("wide", b8), 2, 1))>>)

\* An inner name hides an outer one; a variable is read back after it was
\* written once, written again, or never read.
Scopes == WithBody(Numbers,
  <<Declare("x", b4, <<Bin("add", a, n4(1))>>),
    Block(<<Declare("x", b4, <<b>>),
            Assign(r, Bin("add", Path("x", b4), r)),
            Block(<<Assign(s, Path("x", b4))>>)>>),
    Declare("y", b4, <<>>),
    Assign(Path("y", b4), s),
    Assign(s, Path("x", b4)),
    If(Cmp("lt", a, b), <<Assign(r, Path("y", b4))>>, <<>>)>>)

\* A variable that is set on one path only.
Partly == WithBody(Numbers,
  <<Declare("x", b4, <<>>),
    If(Cmp("lt", a, b), <<Assign(Path("x", b4), n4(7))>>, <<>>),
    Assign(r, Path("x", b4))>>)

H == Header("H", <<"f", "g">>, <<b4, b2>>)
S == Struct("S", <<"h", "x">>, <<H, b4>>)
h == Path("h", H)
t == Path("t", S)
Headers == Program(<<Param("h", H, TRUE), In4("a"), Out4("r")>>,
  <<SetValid(h),
    Assign(Member(h, "f"), a),
    If(IsValid(h), <<Assign(r, Member(h, "f"))>>, <<>>),
    If(Cmp("ne", h, InvalidHeader(H)), <<Assign(h, InvalidHeader(H))>>, <<>>),
    If(Cmp("eq", h, InvalidHeader(H)), <<OpAssign("add", r, n4(1))>>, <<>>)>>,
  <<<<<<3, 1, 0>>, 9, 0>>, <<<<3, 1, 1>>, 4, 0>>>>)

Structs == Program(<<Param("t", S, TRUE), In4("a"), Out4("r")>>,
  <<Declare("u", S, <<t>>),
    Assign(Member(t, "x"), a),
    Assign(r, Member(Path("u", S), "x")),
    Declare("k", H, <<InvalidHeader(H)>>),
    Assign(Path("k", H), StructOf(H, <<r, SliceBits(a, 1, 0)>>)),
    Assign(Member(Member(t, "h"), "f"), Member(Path("k", H), "f"))>>,
  <<<<<<<<3, 1, 1>>, 8>>, 9, 0>>, <<<<<<2, 2, 0>>, 1>>, 4, 0>>>>)

\* Parts of a struct that is there, or is a constant.
Q == Struct("Q", <<"x", "y">>, <<b4, Bool>>)
Parts == WithBody(Numbers,
  <<Declare("u", Q, <<StructOf(Q, <<Bin("add", a, b), Cmp("lt", a, b)>>)>>),
    DeclareConst("k", StructOf(Q, <<n4(6), BoolLit(TRUE)>>)),
    Declare("w", Q, <<Path("k", Q)>>),
    Assign(r, Member(Path("u", Q), "x")),
    If(Member(Path("w", Q), "y"), <<Assign(s, Member(Path("w", Q), "x"))>>, <<>>),
    If(Member(Path("k", Q), "y"), <<OpAssign("xor", s, Member(Path("u", Q), "x"))>>, <<>>)>>)

A3 == Array(3, b4)
Arrays == Program(<<Param("v", A3, TRUE), In4("a"), Out4("r")>>,
  <<Assign(Element(Path("v", A3), Lit(Bits(32), 1)), a),
    Assign(Element(Path("v", A3), SliceBits(a, 1, 1)),
           Element(Path("v", A3), Bin("sub", SliceBits(a, 1, 0), Lit(b2, 1)))),
    Assign(r, Element(Path("v", A3), Lit(b4, 0)))>>,
  <<<<<<3, 4, 5>>, 1, 0>>, <<<<2, 6, 9>>, 3, 1>>>>)

T2 == Tuple(<<b4, Bool>>)
Tuples == Program(<<In4("a"), In4("b"), Out4("r"), Param("p", T2, TRUE)>>,
  <<Declare("q", T2, <<ListOf(T2, <<Bin("add", a, b), Cmp("lt", a, b)>>)>>),
    If(Element(Path("q", T2), Lit(InfInt, 1)),
       <<Assign(r, Element(Path("q", T2), Lit(InfInt, 0)))>>, <<>>),
    Assign(Path("p", T2), Path("q", T2)),
    DeclareConst("c", ListOf(T2, <<n4(3), BoolLit(TRUE)>>)),
    If(Element(Path("p", T2), Lit(InfInt, 1)), <<Assign(Path("p", T2), Path("c", T2))>>, <<>>)>>,
  <<<<5, 6, 1, <<0, 0>>>>, <<7, 2, 4, <<1, 1>>>>>>)

Color == Enum("Color", <<"red", "green", "blue">>)
color(f) == EnumMember(Color, f)
P == Struct("P", <<"c", "n">>, <<Color, b4>>)
Enums == Program(<<Param("c", Color, FALSE), Param("e", E2, FALSE), Out4("r"), Param("p", P, TRUE)>>,
  <<Switch(Path("c", Color),
      <<FallingCase(<<color("red")>>), Case(<<color("blue")>>, <<Assign(r, n4(1))>>),
        Default(<<Assign(r, n4(2))>>)>>),
    If(Cmp("eq", e, n4(9)), <<OpAssign("add", r, CastTo(b4, e))>>, <<>>),
    Switch(e, <<Case(<<EnumMember(E2, "two")>>, <<OpAssign("sub", r, n4(1))>>)>>),
    DeclareConst("k", StructOf(P, <<color("green"), n4(6)>>)),
    If(Cmp("eq", Path("c", Color), color("red")), <<Assign(Path("p", P), Path("k", P))>>,
       <<Assign(Member(Path("p", P), "c"), color("blue"))>>)>>,
  <<<<0, 1, 0, <<0, 3>>>>, <<1, 9, 5, <<2, 1>>>>, <<2, 2, 5, <<1, 1>>>>>>)

Port == Alias("Port", b4)
Aliases == Program(<<Param("p", Port, TRUE), In4("a"), Out4("r")>>,
  <<Declare("q", Port, <<CastTo(Port, a)>>),
    DeclareConst("k", CastTo(Port, n4(5))),
    If(Cmp("eq", Path("p", Port), Path("q", Port)), <<Assign(Path("p", Port), Path("k", Port))>>,
       <<>>),
    Assign(r, CastTo(b4, Path("q", Port)))>>,
  <<<<3, 3, 0>>, <<4, 2, 9>>>>)

For1 == WithBody(Numbers,
  <<For(<<Declare("i", b4, <<n4(0)>>)>>, Cmp("lt", Path("i", b4), Bin("and", a, n4(3))),
        <<OpAssign("add", Path("i", b4), n4(1))>>,
        <<If(Cmp("eq", Path("i", b4), b), <<>>, <<OpAssign("add", r, Path("i", b4))>>)>>),
    For(<<>>, Cmp("gt", s, n4(2)), <<OpAssign("sub", s, n4(3))>>, <<OpAssign("xor", r, s)>>)>>)

ForIn1 == Program(<<Param("v", A3, FALSE), In4("a"), Out4("r")>>,
  <<ForIn("x", RangeOf(Lit(b4, 2), Bin("and", a, n4(7))), <<OpAssign("add", r, Path("x", b4))>>),
    ForIn("y", Path("v", A3), <<OpAssign("xor", r, Path("y", b4))>>)>>,
  <<<<<<3, 4, 5>>, 4, 1>>, <<<<1, 1, 6>>, 1, 0>>>>)

MCPrograms ==
  <<Sums, Differences, MoreSums, Negations, Bitwise4, Products, Shifts, Slices, Lazy, Constants1,
    Scopes, Partly, Headers, Structs, Parts, Arrays, Tuples, Enums, Aliases, For1, ForIn1>>
  \o Bodies(Folded) \o Bodies(Undone) \o Bodies(Absorbed) \o Bodies(Trivial)

MCPipelines ==
  {<<"canonicalize", "enum", "ser_enum", "alias", "tuple", "flatten">>,
   <<"tuple", "alias", "enum", "ser_enum", "canonicalize", "flatten">>,
   <<"flatten", "canonicalize", "enum", "alias", "ser_enum", "tuple">>}

-----------------------------------------------------------------------------

\* A cast that narrows, in one that widens again.
Narrowed == WithBody(Numbers, <<Assign(r, CastTo(b4, CastTo(b2, a)))>>)
MCNarrowed == <<Narrowed>>

=============================================================================
