\* Two builds at once, none of which is killed.
SPECIFICATION Spec
CONSTANTS
    p1 = p1
    p2 = p2
    p3 = p3
    Proc <- TwoProcs
    Size <- BuildSize
    FailStatus <- WaitStatus
    Mortal = {}
    Faulty = {}
    None = None
INVARIANTS
    BuildsOwn
