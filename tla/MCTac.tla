-------------------------------- MODULE MCTac --------------------------------
(* Interpreter and three-address code on every main body of two statements. *)
EXTENDS TacRun, LumisTrees

x == Var("x")
y == Var("y")
Inc(v)    == Assign(v, Binary("ADD", Var(v), I(1)))
Lt(l, r)  == Binary("LT", l, r)
Sub(l, r) == Binary("SUB", l, r)

(* A return out of an if in a loop; a recursive call among the arguments   *)
(* of another one; a function that falls off its end.                      *)
Find == Function("INT", "find", <<P("INT", "a"), P("INT", "b")>>,
          <<While(Lt(Var("a"), I(6)),
                  IfElse(Binary("EQ", Binary("MOD", Var("a"), Var("b")), I(0)),
                         Return(Var("a")), Inc("a"))),
            ReturnVoid>>)
Sum  == Function("INT", "sum", <<P("INT", "a"), P("INT", "b")>>,
          <<If(Lt(I(0), Var("a")),
               Return(CallOf("sum", <<Sub(Var("a"), I(1)),
                        CallOf("sum", <<Sub(Var("a"), I(2)), Var("b")>>)>>))),
            Return(Binary("ADD", Var("b"), I(1)))>>)
Show == Function("VOID", "show", <<P("INT", "a")>>,
          <<For(Decl("INT", "i", I(0)), Lt(Var("i"), Var("a")), Inc("i"),
                If(Lt(I(1), Var("i")), Prints(Var("i")))),
            Prints(Unary("NEG", Var("a")))>>)

Statements ==
  << Assign("x", CallOf("sum", <<x, CallOf("find", <<x, I(3)>>)>>)),
     Prints(CallOf("find", <<CallOf("sum", <<I(1), x>>), CallOf("sum", <<x, I(0)>>)>>)),
     CallOf("show", <<Binary("MUL", x, I(2))>>),
     Prints(CallOf("show", <<x>>)),
     CallOf("sum", <<x>>),
     CallOf("show", <<I(1), CallOf("find", <<x, I(2)>>), x>>),
     CallOf("missing", <<CallOf("show", <<x>>)>>),
     Block(<<Decl("INT", "y", x), While(Lt(I(0), y), Block(
              <<Decl("BOOL", "z", Lt(y, x)), If(Var("z"), Prints(y)),
                Assign("y", Sub(y, I(1)))>>)), Assign("x", y)>>),
     Block(<<Decl("INT", "x", I(5)), Prints(x)>>),       \* x is declared twice
     For(Decl("INT", "j", I(0)), Lt(Var("j"), x), Inc("j"),
         For(Decl("INT", "k", I(2)), Lt(Var("j"), Var("k")),
             Assign("k", Sub(Var("k"), I(1))),
             IfElse(Lt(Var("k"), x), If(Lt(Var("j"), I(1)), Return(Var("k"))),
                    Block(<<Prints(Binary("ADD", Var("j"), Var("k")))>>)))),
     If(Binary("OR", Lt(x, I(0)), Unary("NOT", Binary("GE", C, x))), Inc("x")),
     IfElse(True, IfElse(Lt(x, I(3)), Inc("x"), ReturnVoid), Prints(x)),
     For(Assign("x", I(3)), Lt(I(0), x), Assign("x", Sub(x, I(2))), x),
     Prints(Binary("DIV", Sub(Unary("NEG", I(7)), x), Unary("NEG", I(1)))),
     Inc("j"),                                \* may be no longer there
     Block(<<Decl("INT", "t14", x),           \* also a temporary's name
             Prints(Sub(Binary("ADD", x, x), Var("t14")))>>),
     Block(<<Declare("INT", "w"), Inc("w"), Prints(Var("w"))>>),
     Return(S) >>

Pool   == <<Find, Sum, Show, Decl("INT", "x", I(2)), Return(x)>>
             \o Statements \o Statements
Bodies == LET n == Len(Statements)
          IN  [k \in 1 .. n * n |->
                 <<4, 6 + ((k - 1) \div n), 6 + n + ((k - 1) % n), 5>>]

TacHeap  == Heap(Pool, <<1, 2, 3>>, "INT", Bodies) @@ <<>>
TacAst   == LET heap == TacHeap IN heap
TacRoots == Programs(Bodies)
TacNames == {"x", "y", "z", "i", "j", "k", "a", "b", "w", "t14"}
TacEnvs  == 1 .. 10
TacTemps == [k \in 1 .. 40 |-> "t" \o ToString(k)]
=============================================================================
