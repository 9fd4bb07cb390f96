SPECIFICATION FairSpec
CONSTANTS
    Run = {r1}
    Step = {"book", "pay", "fin"}
    Name = {}
    Def <- TwoActions
    Nil = Nil
    Worker = {w1, w2}
    First = "book"
    Faults = {"channel"}
    MaxFaults = 1
    MaxMsgs = 2
PROPERTY
    SucceededIsFinal
CHECK_DEADLOCK FALSE
