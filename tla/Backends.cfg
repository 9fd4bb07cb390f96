CONSTANTS
    Nil = Nil
    Run1 = Run1
    Engine1 = Engine1
    Client1 = Client1
    Client2 = Client2
    Run = {Run1}
    Step <- MCStep
    Name <- MCName
    Def <- MCDef
    Engine = Engine1
    Outsider <- MCOutsider
    First = "s"
    Task <- MCTask
    MaxCalls <- MCMaxCalls
    MaxTries = 2
    MaxFaults = 1
SYMMETRY MCSymmetry
SPECIFICATION Spec
INVARIANTS
    TypeOK
    IndexesComplete
    CancelClosesTasks
PROPERTIES
    ImplementsRunStore
    SubmissionKept
CHECK_DEADLOCK FALSE
