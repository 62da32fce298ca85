\* 4-bit int; every ordered pair of statements; signatures have room for two types.
SPECIFICATION Spec
CONSTANTS
    Ast     <- PipeAst
    Roots   <- PipeRoots
    VarName <- PipeNames
    EnvId   <- PipeEnvs
    NoEnv   = 0
    IntMax  = 7
    Sample  = {0, 1}
    MaxParams = 2
INVARIANTS
    TypeOK
    OnlyLooseUnbound
    TypesKept
    SlotsKept
    CallsKept
