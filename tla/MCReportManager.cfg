CONSTANTS
    None = None
    Callers = {c1, c2}
    Sessions = {k1, k2}
    MaxTasks = 3
SPECIFICATION FairSpec
INVARIANTS
    IInv
    TasksManaged
PROPERTIES
    EndReportEnds
    CallsReturn
CHECK_DEADLOCK FALSE
