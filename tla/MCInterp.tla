------------------------------ MODULE MCInterp ------------------------------
(* The interpreter on every main body of two corpus statements, and on     *)
(* pairs of loops that never end by themselves.                            *)
EXTENDS InterpCalls, LumisCorpus, TLC

Forever(stmt)   == While(True, stmt)
ForFrom0(c, st) == For(Decl("INT", "i", I(0)), c, Assign("i", Add(i, I(1))), st)
Sometimes       == Lt(F, F)         \* true or false, as the floats may be

Loops ==
  << Forever(CallOf("rec", <<I(2)>>)),
     Forever(Assign("x", CallOf("fall", <<x>>))),
     Forever(Assign("x", CallOf("two", <<CallOf("rec", <<I(1)>>), x>>))),
     Forever(CallOf("name", <<S>>)),
     Forever(If(Sometimes, Return(x))),
     Forever(Block(<<ForFrom0(True, Block(<<If(Sometimes, Return(i)),
                                            Forever(Return(I(1)))>>))>>)),
     ForFrom0(Gt(I(7), i), ForFrom0(Sometimes, If(Sometimes, Return(i)))),
     ForFrom0(True, IfElse(Eq(i, I(3)), Block(<<Return(x)>>),
                           CallOf("fall", <<i>>))) >>

Pool   == CorePool \o Copies(Loops)
Bodies == CoreBodies \o Pairs(Len(CorePool), Len(Loops))

(* TLC evaluates RunHeap once, but what it puts for Ast at every use; `@@' *)
(* makes it build the whole function at once.                              *)
RunHeap  == Heap(Pool, CoreFunctions, "INT", Bodies) @@ <<>>
RunAst   == LET heap == RunHeap IN heap
RunRoots == Programs(Bodies) \cup OddRoots
RunNames == {"x", "y", "a", "b", "s", "i"}
RunEnvs  == 1 .. 12
=============================================================================
