--------------------------- MODULE MCInlineParsers ---------------------------
(***************************************************************************)
(* A leaf parser, a subparser that may call it and a main parser that      *)
(* calls the subparser once or several times while it holds a value of     *)
(* some kind across the call.                                              *)
(***************************************************************************)
EXTENDS InlineParsersProperties

MCOrders == { <<"leaf", "sub", "main">>, <<"main", "sub", "leaf">> }
MCInputs == {<<>>} \cup UNION {[1 .. n -> {0, 1}] : n \in 1 .. 3}
MCSteps == 40

\* Parameters: main(inout x, inout y), sub(inout a, in d), leaf(inout b).
X == <<"x">>
Y == <<"y">>

leaf ==
    [params |-> << <<"b">> >>, top |-> <<>>, insts |-> <<>>, start |-> <<"start">>,
     states |-> << ParserState(<<"start">>, <<Op("extract", NoValue, << <<"b">> >>, 0)>>,
                               To(<<"accept">>)),
                   ParserState(<<"accept">>, <<>>, Accept),
                   ParserState(<<"reject">>, <<>>, Reject) >>]

\* "calls": the subparser calls the leaf not at all, from its second state, from
\* a conditional there, or has the instance of an extern.
\* "other": where the subparser goes when the bit it read is 0.
sub(calls, other) ==
    [params |-> << <<"a">>, <<"d">> >>,
     top |-> << Op("var", <<"t">>, <<>>, 0), Op("const", <<"c">>, <<>>, 1),
                Op("ctor", <<"k">>, <<>>, 1),
                Op("assign", NoValue, << <<"t">>, <<"c">> >>, 0) >>,
     insts |-> CASE calls \in {"flat", "deep"} -> <<Instance(<<"l">>, "leaf", <<>>)>>
                 [] calls = "extern" -> <<Instance(<<"ck">>, "Checksum", <<>>)>>
                 [] OTHER -> <<>>,
     start |-> <<"start">>,
     states |-> << ParserState(<<"start">>,
                      << Op("read", <<"before">>, << <<"t">> >>, 0),
                         Op("extract", NoValue, << <<"t">> >>, 0),
                         Op("assign", NoValue, << <<"a">>, <<"before">> >>, 0),
                         Op("read", <<"bit">>, << <<"t">> >>, 0) >>,
                      Select(<<"bit">>, <<"next">>, other)),
                   ParserState(<<"next">>,
                      (IF calls \in {"flat", "deep"}
                       THEN <<Apply(<<"call">>, <<"l">>, << <<"t">> >>, calls = "deep")>>
                       ELSE <<>>)
                      \o << Op("read", <<"got">>, << <<"t">> >>, 0),
                            Op("assign", NoValue, << <<"a">>, <<"got">> >>, 0),
                            Op("field", <<"af">>, << <<"a">> >>, 0),
                            Op("assign", NoValue, << <<"af">>, <<"d">> >>, 0),
                            Op("elem", <<"ae">>, << <<"a">>, <<"c">> >>, 0),
                            Op("assign", NoValue, << <<"ae">>, <<"k">> >>, 0) >>,
                      To(<<"accept">>)),
                   ParserState(<<"accept">>, <<>>, Accept),
                   ParserState(<<"reject">>, <<>>, Reject) >>]

\* What main computes before a call ...
Before(kind) ==
    << Op("read", <<"v">>, << X >>, 0) >> \o
    CASE kind = "read" -> <<>>
      [] kind = "const" -> << Op("const", <<"one">>, <<>>, 1) >>
      [] kind = "field" -> << Op("field", <<"r">>, << Y >>, 0) >>
      [] kind = "elem" -> << Op("field", <<"f">>, << Y >>, 0),
                             Op("elem", <<"r">>, << <<"f">>, <<"v">> >>, 0) >>
      [] kind = "var" -> << Op("var", <<"w">>, <<>>, 0),
                            Op("assign", NoValue, << <<"w">>, <<"v">> >>, 0) >>
      [] kind = "slice_y" -> << Op("slice", <<"s">>, << Y >>, 0) >>
      [] kind = "slice_x" -> << Op("slice", <<"s">>, << X >>, 0) >>
\* ... hands to the subparser, and does after the call.
Argument(kind) == IF kind = "slice_x" THEN <<"s">> ELSE <<"v">>
After(kind) ==
    CASE kind = "read" -> << Op("assign", NoValue, << Y, <<"v">> >>, 0) >>
      [] kind = "const" -> << Op("assign", NoValue, << Y, <<"one">> >>, 0) >>
      [] kind \in {"field", "elem"} -> << Op("assign", NoValue, << <<"r">>, <<"v">> >>, 0) >>
      [] kind = "var" -> << Op("read", <<"u">>, << <<"w">> >>, 0),
                            Op("assign", NoValue, << Y, <<"u">> >>, 0) >>
      [] kind = "slice_y" -> << Op("assign", NoValue, << X, <<"s">> >>, 0) >>
      [] kind = "slice_x" -> <<>>

call(id, kind, deep) == <<Apply(<<id>>, <<"p">>, << X, Argument(kind) >>, deep)>>

\* "shape": one call, two calls in one state, calls in two states, a call in a
\* loop.  "deep": the last call is nested in a conditional.
mainStates(kind, shape, deep) ==
    CASE shape = "one" ->
           << ParserState(<<"start">>, Before(kind) \o call("c1", kind, deep) \o After(kind),
                          To(<<"accept">>)) >>
      [] shape = "two" ->
           << ParserState(<<"start">>,
                          Before(kind) \o call("c1", kind, FALSE) \o call("c2", kind, deep)
                            \o After(kind),
                          To(<<"accept">>)) >>
      [] shape = "states" ->
           << ParserState(<<"start">>, << Op("read", <<"v0">>, << X >>, 0),
                                          Apply(<<"c1">>, <<"p">>, << X, <<"v0">> >>, FALSE) >>,
                          To(<<"second">>)),
              ParserState(<<"second">>, Before(kind) \o call("c2", kind, deep) \o After(kind),
                          To(<<"accept">>)) >>
      [] shape = "loop" ->
           << ParserState(<<"start">>,
                          Before(kind) \o call("c1", kind, deep) \o After(kind)
                            \o <<Op("read", <<"again">>, << X >>, 0)>>,
                          Select(<<"again">>, <<"start">>, <<"accept">>)) >>

main(kind, shape, deep) ==
    [params |-> <<X, Y>>, top |-> << Op("const", <<"arg">>, <<>>, 0) >>,
     insts |-> <<Instance(<<"p">>, "sub", << <<"arg">> >>)>>, start |-> <<"start">>,
     states |-> mainStates(kind, shape, deep)
                  \o << ParserState(<<"accept">>, <<>>, Accept),
                        ParserState(<<"reject">>, <<>>, Reject) >>]

ProgramsWith(kinds, shapes, deeps) ==
    {[leaf |-> leaf, sub |-> sub(calls, other), main |-> main(kind, shape, deep)] :
        calls \in {"none", "flat", "deep", "extern"},
        other \in {<<"accept">>, <<"reject">>},
        kind \in kinds, shape \in shapes, deep \in deeps}

MCPrograms ==
    ProgramsWith({"read", "const", "field", "elem", "var", "slice_y"},
                 {"one", "two", "states", "loop"}, {FALSE})
    \cup ProgramsWith({"var"}, {"one", "two", "states", "loop"}, {TRUE})

\* main passes the value of a slice of x and x itself, which the subparser writes
\* before it uses the value.
SlicePrograms == ProgramsWith({"slice_x"}, {"one", "states"}, {FALSE})
=============================================================================
