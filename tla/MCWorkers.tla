----------------------------- MODULE MCWorkers ------------------------------
\* Two actions in a row, of which only the first can be undone.
EXTENDS ActionWorker

Plain ==
    [type |-> "action", next |-> {}, timeout |-> Nil, deadline |-> FALSE, name |-> Nil,
     tries |-> 1, fails |-> FALSE, gated |-> FALSE, comp |-> FALSE, kids |-> <<>>,
     quorum |-> 0, streams |-> {}, catch |-> Nil]

TwoActions ==
    [book |-> [Plain EXCEPT !.next = {"pay"}, !.comp = TRUE],
     pay  |-> [Plain EXCEPT !.next = {"fin"}],
     fin  |-> [Plain EXCEPT !.type = "end"]]
=============================================================================
