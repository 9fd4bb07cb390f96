----------------------------- MODULE MCQueries -----------------------------
\* Three runs of one workflow, with a trigger; two saves of a definition;
\* one walk with two changes in its middle.  Two streams, one after the other, of the same
\* run or of two runs, that share the pool's connections.
EXTENDS Queries

CONSTANTS Trigger1

MCOrigin == {<<"a", Trigger1>>}

AnyRun == [wf |-> Nil, state |-> Nil, since |-> 0, failed |-> Nil, typed |-> FALSE]

MCRunFilters ==
    {[AnyRun EXCEPT !.wf = "a", !.state = "compensating", !.since = 1],
     [AnyRun EXCEPT !.typed = TRUE, !.failed = FALSE]}

MCDefFilters == {[published |-> Nil], [published |-> TRUE]}

MCMaxWalks == [t \in Topic |-> IF t = "stream" THEN 2 ELSE 1]
=============================================================================
