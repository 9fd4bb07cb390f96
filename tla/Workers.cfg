SPECIFICATION FairSpec
CONSTANTS
    Run = {r1}
    Step = {"book", "pay", "fin"}
    Name = {}
    Def <- TwoActions
    Nil = Nil
    Worker = {w1, w2}
    First = "book"
    Faults = {"stream", "channel", "crash", "abort", "send", "publish"}
    MaxFaults = 1
    MaxMsgs = 2
INVARIANTS
    TypeOK
    AnswerPending
    RolledBack
PROPERTIES
    EveryRunEnds
CHECK_DEADLOCK FALSE
