SPECIFICATION Spec
CONSTANTS
    Nil = Nil
    Run = {r1, r2, r3, r4}
    Step <- StreamsStep
    Name = {"go"}
    Def <- StreamsDef
    First <- StreamsFirst
    Worker = {w1, w2}
    Caller = {}
    PodOf <- OnePod
    Requeue = FALSE
    Faults = {"publish", "report"}
    MaxAborts = 0
    MaxQueue = 1
    Redeliver = FALSE
PROPERTIES
    WaitHonoured
CHECK_DEADLOCK FALSE
