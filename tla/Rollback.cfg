SPECIFICATION Spec
CONSTANTS
    Nil = Nil
    Run = {r1}
    Step <- RollbackStep
    Name = {"go"}
    Def <- RollbackDef
    First <- RollbackFirst
    Worker = {w1}
    Caller = {}
    PodOf <- OnePod
    Requeue = TRUE
    Faults = {"send"}
    MaxAborts = 0
    MaxQueue = 1
    Redeliver = FALSE
INVARIANTS
    TypeOK
    RollbackMirrorsLog
PROPERTIES
    TerminalIsFinal
CHECK_DEADLOCK FALSE
