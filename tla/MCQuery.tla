------------------------------- MODULE MCQuery -------------------------------
(* A small instance of Query: a letter and a separator.                      *)
EXTENDS Query
a == <<"a">>
MCInitial == {<<>>, <<"a", "-", "a">>}
MCSaved ==
    {<<[context |-> "c", text |-> a],
       [context |-> "default", text |-> <<"a", "a">>],
       [context |-> "c", text |-> <<"-", "a">>]>>}
MCPastes == {<<"a", "a">>}
Answer1(s) == [strs |-> s, beg |-> <<>>, end |-> <<>>]
\* None, one, two with a common part and one of them twice, and one between
\* what was before the cursor and what was after it.
MCAnswers ==
    {Answer1(<<>>), Answer1(<<<<"a", "-">>>>),
     Answer1(<<a, <<"a", "a">>, <<"a", "a">>>>),
     [strs |-> <<a>>, beg |-> <<"-">>, end |-> <<"-">>]}
=============================================================================
