------------------------------- MODULE MCSaga -------------------------------
\* Small workflows over which TLC checks SagaSystem.
EXTENDS SagaSystem, TLC

\* A step with nothing special about it.
Plain ==
    [type |-> "sync", next |-> {}, timeout |-> Nil, deadline |-> FALSE, name |-> Nil,
     tries |-> 1, fails |-> FALSE, gated |-> FALSE, comp |-> FALSE, kids |-> <<>>,
     quorum |-> 0, streams |-> {}, catch |-> Nil]

End == [Plain EXCEPT !.type = "end"]

Sync(next) == [Plain EXCEPT !.next = next]

\* One process: all workers share its lock map.
OnePod == [w \in Worker |-> "pod"]

\* The first run of Run starts at s; the others are spawned.
StartAt(s) ==
    LET root == CHOOSE r \in Run : TRUE
    IN  [r \in Run |-> IF r = root THEN s ELSE Nil]

-----------------------------------------------------------------------------
\* Waits: a signal with a timeout branch, a timed wait, an event with a deadline.
WaitsDef ==
    [ask   |-> [Plain EXCEPT !.type = "signal", !.next = {"sleep"}, !.timeout = "event",
                             !.deadline = TRUE, !.name = "go"],
     sleep |-> [Plain EXCEPT !.type = "wait", !.next = {"event"}],
     event |-> [Plain EXCEPT !.type = "event", !.next = {"fin"}, !.deadline = TRUE,
                             !.name = "go"],
     fin   |-> End]
WaitsStep  == DOMAIN WaitsDef
WaitsFirst == StartAt("ask")

\* Forks: either two children that both count, one of which may fail and one of which
\* naps, followed by a third; or the first success of two; or an action whose command
\* may not get through and whose worker may report an error.
ForksDef ==
    [begin |-> Sync({"split", "race", "work"}),
     work  |-> [Plain EXCEPT !.type = "action", !.next = {"fin"}],
     split |-> [Plain EXCEPT !.type = "fork", !.next = {"sub"}, !.kids = <<"left", "nap">>],
     sub   |-> [Plain EXCEPT !.type = "fork", !.next = {"fin"}, !.kids = <<"right">>],
     race  |-> [Plain EXCEPT !.type = "fork", !.next = {"fin"}, !.kids = <<"right", "nap">>,
                             !.quorum = 1],
     left  |-> [Sync({"fin"}) EXCEPT !.fails = TRUE],
     nap   |-> [Plain EXCEPT !.type = "wait", !.next = {"fin"}],
     right |-> Sync({"fin"}),
     fin   |-> End]
ForksStep  == DOMAIN ForksDef
ForksFirst == StartAt("begin")

\* Rollback: a gated first step, a retried step inside a try_catch, a failing step
\* after it, and an action whose command may not get through.
RollbackDef ==
    [gate |-> [Sync({"book", "quit"}) EXCEPT !.gated = TRUE],
     quit |-> [Plain EXCEPT !.type = "cancel"],
     book |-> [Sync({"try"}) EXCEPT !.comp = TRUE],
     try  |-> [Plain EXCEPT !.type = "try", !.next = {"pay"}, !.catch = "amend"],
     pay  |-> [Sync({"send"}) EXCEPT !.comp = TRUE, !.fails = TRUE, !.tries = 2],
     amend |-> [Sync({"send", "again"}) EXCEPT !.comp = TRUE],
     again |-> [Plain EXCEPT !.type = "try", !.next = {"again", "send"}, !.catch = "send"],
     send |-> [Plain EXCEPT !.type = "action", !.next = {"fin"}, !.comp = TRUE],
     fin  |-> End]
RollbackStep  == DOMAIN RollbackDef
RollbackFirst == StartAt("gate")

\* Streams: a spawned child, the barrier that waits for it, an action, a fork; the
\* barrier may also be reached with no child at all.
StreamsDef ==
    [begin |-> Sync({"spawn", "join"}),
     spawn |-> [Plain EXCEPT !.type = "spawn", !.next = {"join"}, !.kids = <<"kid">>],
     join  |-> [Plain EXCEPT !.type = "join", !.next = {"work"}, !.streams = {"spawn"}],
     work  |-> [Plain EXCEPT !.type = "action", !.next = {"split"}],
     split |-> [Plain EXCEPT !.type = "fork", !.next = {"fin"}, !.kids = <<"kid", "stuck">>],
     kid   |-> Sync({"fin"}),
     stuck |-> Sync({}),
     fin   |-> End]
StreamsStep  == DOMAIN StreamsDef
StreamsFirst == StartAt("begin")

\* A barrier over one spawned child.
BarrierDef ==
    [spawn |-> [Plain EXCEPT !.type = "spawn", !.next = {"join"}, !.kids = <<"kid">>],
     join  |-> [Plain EXCEPT !.type = "join", !.next = {"fin"}, !.streams = {"spawn"}],
     kid   |-> Sync({"fin"}),
     fin   |-> End]
BarrierStep  == DOMAIN BarrierDef
BarrierFirst == StartAt("spawn")
=============================================================================
