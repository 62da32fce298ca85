\* A for loop's variable used after the loop.
SPECIFICATION Spec
CONSTANTS
    Ast     <- PipeAst
    Roots   <- ForRoots
    VarName <- PipeNames
    EnvId   <- PipeEnvs
    NoEnv   = 0
    IntMax  = 7
    Sample  = {0, 1}
    MaxParams = 32
INVARIANTS
    AllBound
