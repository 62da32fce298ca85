\* The real limit of 32 parameter types.
SPECIFICATION Spec
CONSTANTS
    Ast     <- CheckAst
    Roots   <- CheckRoots
    VarName <- CheckNames
    MaxParams = 32
INVARIANTS
    CallsValidated
