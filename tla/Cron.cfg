SPECIFICATION FairSpec
CONSTANTS
    Pod = {p1, p2}
    Trigger = {"fast", "slow"}
    Sched <- Every
    Horizon = 2
    MaxCrashes = 1
    MaxTries = 2
    Refuse = TRUE
INVARIANTS
    TypeOK
    AtMostOnce
PROPERTIES
    NextFireAdvances
    EveryFireClaimed
CHECK_DEADLOCK FALSE
