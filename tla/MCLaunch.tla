------------------------------ MODULE MCLaunch ------------------------------
\* A version in two wordings, and a draft of the next that the API would refuse.
EXTENDS Launch

BaseDoc ==
    [ver |-> 1, published |-> TRUE, start |-> "a", steps |-> {"a", "b"},
     type |-> [a |-> "try", b |-> "sync"], try |-> {<<"a", "b">>},
     entries |-> [late |-> "b"]]

MCDoc ==
    {BaseDoc,
     [BaseDoc EXCEPT !.entries = <<>>],
     [BaseDoc EXCEPT !.ver = 2, !.published = FALSE, !.start = Nil,
                     !.type = [a |-> "try", b |-> "parallel"]]}

Event1 == [transition |-> TRUE, decodes |-> TRUE, record |-> "order", from |-> "new", to |-> "paid"]

MCEvent == {Event1, [Event1 EXCEPT !.to = "void"], [Event1 EXCEPT !.transition = FALSE], [Event1 EXCEPT !.decodes = FALSE]}

MCConfig ==
    [t1 |-> [record |-> "order", from |-> "new", to |-> "paid", enabled |-> TRUE, entry |-> Nil],
     t2 |-> [record |-> "order", from |-> "new", to |-> "paid", enabled |-> TRUE, entry |-> "late"]]

\* A request beside anything else.
MCRole == [s1 |-> {"trigger", "sub", "spawn", "embed"}, s2 |-> {"api"}]
=============================================================================
