CONSTANTS
    Nil = Nil
    Run = {1, 2, 3}
    Workflow = {"a", "b"}
    Trigger1 = t1
    Trigger = {t1}
    Origin <- MCOrigin
    Written = {"failed", "compensating"}
    Version = {1, 2}
    RunFilters <- MCRunFilters
    DefFilters <- MCDefFilters
    Limits = {2}
    Window = 1
    MaxTime = 2
    MaxSaves = 2
    MaxWalks <- MCMaxWalks
    Streamed = {1, 2}
    Conn = {c1, c2}
    EventKey = {"e1", "done"}
    RunEvent = {"done"}
    MaxEvents = 4
    MaxChanges = 2
SPECIFICATION Spec
INVARIANTS
    TypeOK
    WalkComplete
    RowsMatched
    CountedOnce
    StreamExact
CHECK_DEADLOCK FALSE
