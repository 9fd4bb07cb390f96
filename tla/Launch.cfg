SPECIFICATION Spec
CONSTANTS
    Doc <- MCDoc
    Starter = {"s1", "s2"}
    Role <- MCRole
    Trigger = {"t1", "t2"}
    Config <- MCConfig
    Event <- MCEvent
    Entry = {"late"}
    MaxSaves = 2
    MaxFaults = 1
    Nil = Nil
INVARIANTS
    TypeOK
    RunsKeepTheirVersion
    UnadvancedIsReported
    AllTriggersTried
    FiresMatchRuns
CHECK_DEADLOCK FALSE
