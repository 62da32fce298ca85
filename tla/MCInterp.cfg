\* 4-bit int, 12 environments: rec(2) fits, rec(3) runs out of memory.
\* Programs that may run for ever: fairness is what moves them.
SPECIFICATION FairSpec
CONSTANTS
    Ast    <- RunAst
    Roots  <- RunRoots
    VarName <- RunNames
    EnvId  <- RunEnvs
    NoEnv  = 0
    IntMax = 7
    Sample = {0, 1}
INVARIANTS
    TypeOK
    StackWellNested
    ReturningUnwinds
    NoStaleReturn
    EnvOwnership
    NoDanglingEnv
PROPERTIES
    CallerEnvIntact
    UnwindQuiet
    CallsAsPromised
    ReturnReachesCaller
