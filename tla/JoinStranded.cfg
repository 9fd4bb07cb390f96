SPECIFICATION FairSpec
CONSTANTS
    Nil = Nil
    Run = {r1, r2}
    Step <- BarrierStep
    Name = {"go"}
    Def <- BarrierDef
    First <- BarrierFirst
    Worker = {w1, w2}
    Caller = {}
    PodOf <- OnePod
    Requeue = FALSE
    Faults = {}
    MaxAborts = 0
    MaxQueue = 1
    Redeliver = FALSE
PROPERTIES
    JoinReleased
CHECK_DEADLOCK FALSE
