-------------------------- MODULE MCSimplifyParsers --------------------------
(***************************************************************************)
(* Parsers of three states and an accept state: chains, loops back to the  *)
(* entry and to themselves, two transitions to one state, states nothing   *)
(* leads to, and annotations on the first two.                             *)
(***************************************************************************)
EXTENDS SimplifyParsers

CONSTANTS s0, s1, s2, acc

MCState == {s0, s1, s2, acc}

To(next) == [kind |-> "to", next |-> next]
Accepts == [kind |-> "accept", next |-> <<>>]
Rejects == [kind |-> "reject", next |-> <<>>]

\* One way on, or two that may be the same.
Ways == {To(<<t>>) : t \in MCState} \cup {Rejects}
          \cup {To(<<s1, s2>>), To(<<s2, acc>>), To(<<s0, s1>>), To(<<s1, s1>>)}

FewWays == {To(<<s0>>), To(<<s1>>), To(<<acc>>), To(<<s2, acc>>), Rejects}

Annotated == {<<"none", "none">>, <<"name", "none">>, <<"none", "name">>,
              <<"none", "other">>, <<"other", "none">>}

MCParsers ==
  {[states |-> MCState, start |-> s0,
    trans |-> [s \in MCState |-> IF s = s0 THEN a ELSE IF s = s1 THEN b
                                 ELSE IF s = s2 THEN c ELSE Accepts],
    ann |-> [s \in MCState |-> IF s = s0 THEN x[1] ELSE IF s = s1 THEN x[2] ELSE "none"]] :
     a, b \in Ways, c \in FewWays, x \in Annotated}

=============================================================================
