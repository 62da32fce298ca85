\* Integer literals up to 9.
SPECIFICATION Spec
CONSTANTS
    Ast     <- CAst
    Roots   <- CRoots
    VarName <- CNames
    MaxParams = 32
    NoToken = NoToken
    IntMax  = 9
INVARIANTS
    CReadsBack
