----------------------------- MODULE MCSemantic -----------------------------
(* The checker on every main body of two statements, right and wrong ones. *)
EXTENDS Semantic, LumisTrees, TLC

x == Var("x")
y == Var("y")

Two  == Function("INT", "two", <<P("INT", "a"), P("FLOAT", "b")>>,
                 <<Return(Var("a"))>>)
Tri  == Function("INT", "tri", <<P("INT", "a"), P("INT", "b"), P("INT", "c")>>, <<>>)
Say  == Function("VOID", "say", <<P("INT", "a")>>, <<ReturnVoid>>)
Hush == Function("VOID", "hush", <<P("VOID", "v")>>,
                 <<Prints(Binary("ADD", Var("v"), S))>>)
Same == Function("INT", "same", <<P("INT", "v"), P("FLOAT", "v")>>,
                 <<Return(Var("v"))>>)
Half == Function("FLOAT", "half", <<P("INT", "a")>>, <<Return(Var("a"))>>)

Statements ==
  << Decl("INT", "x", I(1)),                        \* x is declared already
     Block(<<Decl("STRING", "x", S), Assign("x", Binary("ADD", x, I(1)))>>),
     Assign("y", x),
     Decl("INT", "y", y),
     For(Decl("INT", "i", I(0)), Binary("LT", Var("i"), I(2)),
         Assign("i", x), Block(<<Declare("INT", "y"), Assign("y", Var("i"))>>)),
     Assign("i", I(1)),
     If(S, Decl("INT", "y", I(1))),
     IfElse(True, Assign("x", F), Block(<<Assign("x", y)>>)),
     While(x, While(F, Return(CallOf("half", <<x>>)))),
     Declare("VOID", "y"),
     Assign("x", Unary("NOT", CallOf("hush", <<CallOf("say", <<x>>)>>))),
     Prints(Binary("MUL", CallOf("missing", <<y>>), S)),
     CallOf("missing", <<y>>),
     Prints(CallOf("two", <<x>>)),
     Prints(CallOf("two", <<S, I(1)>>)),
     Prints(CallOf("tri", <<I(1), I(1), I(1)>>)),
     Decl("FLOAT", "y", CallOf("two", <<I(1), I(1)>>)),
     Decl("INT", "y", Binary("ADD", CallOf("say", <<x>>), y)),
     Prints(Binary("LT", CallOf("tri", <<I(1), I(1)>>), CallOf("half", <<x>>))),
     Assign("x", CallOf("say", <<x>>)),
     Declare("INT", "two"),
     Assign("two", I(1)),
     Prints(Binary("AND", Unary("NOT", x), Binary("GE", True, Unary("NEG", S)))),
     Prints(Binary("EQ", Binary("MOD", F, x), C)),
     ReturnVoid >>

OddPrograms ==
  << Program(<<Half, Tri, Half>>),
     Program(<<Same, Half>>),
     Program(<<Function("VOID", "main", <<>>, <<Return(I(1)), ReturnVoid>>),
               Function("INT", "f", <<>>, <<Return(CallOf("g", <<>>))>>),
               Function("INT", "g", <<>>,
                        <<IfElse(Binary("LT", I(1), F), Return(CallOf("f", <<>>)),
                                 Block(<<Return(S)>>)),
                          Prints(Binary("ADD", I(1), True))>>)>>) >>

Helpers == <<Two, Tri, Say, Hush, Half>>
Pool    == Helpers \o <<Decl("INT", "x", I(2)), Return(x)>> \o Statements
                   \o Statements \o OddPrograms
Bodies  ==
    LET n == Len(Statements)
    IN  [k \in 1 .. n * n |-> <<6, 8 + ((k - 1) \div n), 8 + n + ((k - 1) % n), 7>>]

CheckHeap  == Heap(Pool, <<1, 2, 3, 4, 5>>, "INT", Bodies) @@ <<>>
CheckAst   == LET heap == CheckHeap IN heap
CheckRoots == Programs(Bodies)
              \cup {<<Len(Pool) - 2>>, <<Len(Pool) - 1>>, <<Len(Pool)>>}
CheckNames == {"x", "y", "i", "a", "b", "c", "v", "two"}
=============================================================================
