SPECIFICATION FairSpec
CONSTANTS
    Nil = Nil
    Run = {r1, r2, r3, r4}
    Step <- ForksStep
    Name = {"go"}
    Def <- ForksDef
    First <- ForksFirst
    Worker = {w1, w2}
    Caller = {}
    PodOf <- OnePod
    Requeue = FALSE
    Faults = {"report", "send"}
    MaxAborts = 0
    MaxQueue = 1
    Redeliver = FALSE
INVARIANTS
    EachStepOnce
PROPERTIES
    WaitHonoured
    EveryRunEnds
CHECK_DEADLOCK FALSE
