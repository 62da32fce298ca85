\* Any of the three may be killed at any moment, and any write may fail.
SPECIFICATION Spec
CONSTANTS
    p1 = p1
    p2 = p2
    p3 = p3
    Proc <- BuildProcs
    Size <- BuildSize
    FailStatus <- WaitStatus
    Mortal <- BuildProcs
    Faulty <- BuildProcs
    None = None
INVARIANTS
    TypeOK
    TempRemoved
    AloneBuildsOwn
