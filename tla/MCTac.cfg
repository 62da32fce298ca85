\* 4-bit int.
SPECIFICATION Spec
CONSTANTS
    Ast    <- TacAst
    Roots  <- TacRoots
    VarName <- TacNames
    EnvId  <- TacEnvs
    NoEnv  = 0
    IntMax = 7
    TempName <- TacTemps
    Sample = {0, 1}
INVARIANTS
    TypeOK
    JumpsResolve
    TempsStraight
    ParamsPaired
PROPERTIES
    SameOutcome
