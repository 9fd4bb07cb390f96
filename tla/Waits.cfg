SPECIFICATION FairSpec
CONSTANTS
    Nil = Nil
    Run = {r1}
    Step <- WaitsStep
    Name = {"go"}
    Def <- WaitsDef
    First <- WaitsFirst
    Worker = {w1}
    Caller = {c1}
    PodOf <- OnePod
    Requeue = TRUE
    Faults = {}
    MaxAborts = 1
    MaxQueue = 2
    Redeliver = FALSE
INVARIANTS
    AwaitMatchesStep
    NoStaleWakeup
PROPERTIES
    WaitHonoured
    SettledIsFinal
    EveryRunEnds
CHECK_DEADLOCK FALSE
