--------------------------- MODULE MCInlineControls ---------------------------
(***************************************************************************)
(* A leaf control, a subcontrol that calls it, and a main control that     *)
(* calls the subcontrol never, once or twice with arguments of different   *)
(* kinds.                                                                  *)
(***************************************************************************)
EXTENDS InlineControlsProperties

MCOrdinals == <<"0", "1", "2", "3">>
MCOrders == { <<"leaf", "sub", "main">>, <<"main", "sub", "leaf">> }

\* Parameters: main(inout x, inout y, in n, e), sub(inout a, in d, r),
\* leaf(inout b, in g).
X == <<"x">>
Y == <<"y">>
N == <<"n">>
E == <<"e">>
A == <<"a">>
D == <<"d">>
R == <<"r">>
B == <<"b">>
G == <<"g">>
MCInputs == {[c \in {X, Y, N} |-> f[c[1]]] : f \in [{"x", "y", "n"} -> {0, 1}]}

assign(val, ref) == Op("assign", NoValue, <<ref, val>>, 0)
read(res, ref) == Op("read", res, <<ref>>, 0)
const(res, n) == Op("const", res, <<>>, n)
method(extern, val) == Op("method", NoValue, <<extern, val>>, 0)

\* The leaf adds what it is given to a counter of its own and writes both back.
leaf ==
    [self |-> <<"leaf">>, params |-> <<B, G>>, byref |-> {B}, externs |-> {},
     top |-> << Op("var", <<"z">>, <<>>, 0), assign(G, <<"z">>) >>,
     locals |-> << Local(<<"lb">>, B), Local(<<"lg">>, G), Local(<<"lz">>, <<"z">>) >>,
     actions |-> << Action(<<"set">>, <<>>,
                      << SymRef(<<"rb">>, <<"lb">>), SymRef(<<"rg">>, <<"lg">>),
                         assign(<<"rg">>, <<"rb">>) >>),
                    Action(<<"get">>, << <<"p">> >>,
                      << SymRef(<<"rz">>, <<"lz">>), assign(<<"p">>, <<"rz">>) >>) >>,
     tables |-> <<>>, insts |-> <<>>,
     body |-> << read(<<"old">>, B), CallAction(<<"set">>, <<>>),
                 CallAction(<<"get">>, << <<"old">> >>), read(<<"zv">>, <<"z">>),
                 assign(<<"zv">>, B) >>]

\* "bound": what an entry of the table passes to its action.
\* "ref", "val": what the leaf is applied to.
sub(bound, ref, val) ==
    [self |-> <<"sub">>, params |-> <<A, D, R>>, byref |-> {A}, externs |-> {R},
     top |-> << const(<<"zero">>, 0), CtorParam(<<"k">>, <<"sub">>, 1),
                Op("var", <<"v">>, <<>>, 0), assign(D, <<"v">>) >>,
     locals |-> << Local(<<"la">>, A), Local(<<"ld">>, D), Local(<<"lr">>, R),
                   Local(<<"lv">>, <<"v">>) >>,
     actions |-> << Action(<<"hit">>, << <<"p">> >>,
                      << SymRef(<<"ra">>, <<"la">>), SymRef(<<"rv">>, <<"lv">>),
                         SymRef(<<"rr">>, <<"lr">>), read(<<"va">>, <<"ra">>),
                         method(<<"rr">>, <<"va">>), assign(<<"va">>, <<"rv">>),
                         assign(<<"p">>, <<"ra">>) >>),
                    Action(<<"miss">>, <<>>,
                      << SymRef(<<"sa">>, <<"la">>), SymRef(<<"sd">>, <<"ld">>),
                         assign(<<"sd">>, <<"sa">>) >>) >>,
     tables |-> << Table(<<"t">>, << CallAction(<<"miss">>, <<>>),
                                     CallAction(<<"hit">>, <<bound>>) >>) >>,
     insts |-> << Instance(<<"l">>, "leaf", <<>>), Instance(<<"ck">>, "Register", <<>>) >>,
     body |-> << read(<<"key">>, A), ApplyTable(<<"t">>, <<"key">>),
                 read(<<"seen">>, A), method(R, <<"seen">>),
                 Apply(<<"c">>, <<"l">>, <<ref, val>>, FALSE),
                 SymRef(<<"own">>, <<"ck">>), read(<<"end">>, <<"v">>),
                 method(<<"own">>, <<"end">>), method(<<"own">>, <<"k">>),
                 SymRef(<<"all">>, ModuleLevel(<<"log">>)), method(<<"all">>, <<"seen">>) >>]

\* The arguments of main's calls: a parameter, a variable of main or of its apply
\* block; a parameter, constants, a value that was read; a parameter, an instance.
Refs == { X, Y, <<"w">>, <<"tmp">> }
Vals == { N, <<"one">>, <<"here">>, <<"val">> }
Externs == { E, <<"reg">> }

\* The code before and after a call that uses a temporary copies y to it and back.
call(k, args) ==
    << SymRef(<<"reg", k>>, <<"reg">>), read(<<"val", k>>, X), const(<<"here", k>>, 1),
       Op("var", <<"tmp", k>>, <<>>, 0), read(<<"in", k>>, Y),
       assign(<<"in", k>>, <<"tmp", k>>),
       Apply(<<"call", k>>, <<"s">>,
             [i \in DOMAIN args |->
                IF args[i] \in { <<"tmp">>, <<"here">>, <<"val">>, <<"reg">> }
                THEN args[i] \o <<k>> ELSE args[i]], FALSE),
       read(<<"out", k>>, <<"tmp", k>>), assign(<<"out", k>>, Y) >>

\* "named": the control locals of main, in their order.
main(named, body) ==
    [self |-> <<"main">>, params |-> <<X, Y, N, E>>, byref |-> {X, Y}, externs |-> {E},
     top |-> << const(<<"one">>, 1), Op("var", <<"w">>, <<>>, 0), assign(<<"one">>, <<"w">>) >>,
     locals |-> named, actions |-> <<>>, tables |-> <<>>,
     insts |-> << Instance(<<"s">>, "sub", << <<"one">> >>),
                  Instance(<<"reg">>, "Register", <<>>) >>,
     body |-> body \o << read(<<"last">>, <<"w">>), method(E, <<"last">>) >>]

NoLocals == <<>>
AllLocals == << Local(<<"lx">>, X), Local(<<"ly">>, Y), Local(<<"__local">>, N),
                Local(<<"le">>, E), Local(<<"lw">>, <<"w">>) >>

MCPrograms ==
    LET programs(subs, nameds, bodies) ==
            {[leaf |-> leaf, sub |-> s, main |-> main(named, body)] :
                s \in subs, named \in nameds, body \in bodies}
        plain == { sub(<<"zero">>, <<"v">>, D), sub(<<"k">>, A, <<"zero">>),
                   sub(<<"zero">>, A, D) }
        one == {call("1", <<r, d, e>>) : r \in Refs, d \in Vals, e \in Externs}
        two == {call("1", <<r, d, e>>) \o call("2", <<q, c, e>>) :
                   r \in {X, <<"w">>}, q \in {X, Y, <<"tmp">>},
                   d \in {N, <<"val">>}, c \in Vals, e \in Externs}
        differ == {call("1", <<X, N, E>>) \o call("2", <<X, N, <<"reg">>>>)}
        bound == {call("1", <<r, d, E>>) : r \in {X, <<"w">>}, d \in {N, <<"one">>}}
    IN programs(plain, {NoLocals}, one)
         \cup programs({sub(<<"zero">>, A, D)}, {AllLocals}, two)
         \cup programs({sub(<<"zero">>, <<"v">>, D)}, {NoLocals, AllLocals}, differ \cup {<<>>})
         \cup programs({sub(D, A, D)}, {NoLocals}, bound)
=============================================================================
