\* An int literal that initializes a float.
SPECIFICATION Spec
CONSTANTS
    Ast     <- PipeAst
    Roots   <- FloatRoots
    VarName <- PipeNames
    EnvId   <- PipeEnvs
    NoEnv   = 0
    IntMax  = 7
    Sample  = {0, 1}
    MaxParams = 32
INVARIANTS
    FloatsAreFloats
