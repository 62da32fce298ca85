\* A signature has room for two parameter types, so that tri exceeds it.
SPECIFICATION Spec
CONSTANTS
    Ast     <- CheckAst
    Roots   <- CheckRoots
    VarName <- CheckNames
    MaxParams = 2
INVARIANTS
    ScopesMirrorTraversal
    ScopeHoldsTraversed
    GlobalIsProgram
    ReturnTypeIsEnclosing
    ErrorsNotMasked
    OnlyStatementsSkipped
