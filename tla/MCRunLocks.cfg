SPECIFICATION FairSpec
CONSTANTS
    Proc = {g1, g2, g3}
    RunID = {r1, r2}
    Obj = {o1, o2, o3}
    Nil = Nil
INVARIANTS
    TypeOK
    MutualExclusion
    EntriesExact
PROPERTIES
    EveryCallerGetsIn
    ImplementsRunMutex
