----------------------------- MODULE MCPipeline -----------------------------
(* Check and run: every main body of two statements.                       *)
EXTENDS Pipeline, LumisTrees, TLC

x == Var("x")
y == Var("y")
i == Var("i")
s == Var("s")

Lt(l, r)  == Binary("LT", l, r)
Add(l, r) == Binary("ADD", l, r)
UpTo2(v, stmt) == For(Decl("INT", v, I(0)), Lt(Var(v), I(2)),
                      Assign(v, Add(Var(v), I(1))), stmt)

(* float half(int a) { if (a < 1) return a; else { float a = 0.5; return a; } } *)
Half == Function("FLOAT", "half", <<P("INT", "a")>>,
          <<IfElse(Lt(Var("a"), I(1)), Return(Var("a")),
                   Block(<<Decl("FLOAT", "a", F), Return(Var("a"))>>))>>)
Sum  == Function("INT", "sum", <<P("INT", "a"), P("FLOAT", "b")>>,
          <<If(Lt(Var("a"), Var("b")),
               Return(CallOf("sum", <<Add(Var("a"), I(1)), I(0)>>))),
            Return(Var("a"))>>)
Tell == Function("VOID", "tell", <<P("STRING", "s")>>,
          <<UpTo2("i", If(Lt(I(0), i), ReturnVoid)), Prints(Add(s, True))>>)
Text == Function("STRING", "text", <<P("STRING", "s"), P("INT", "x")>>,
          <<Block(<<Assign("s", Add(s, x)), Return(s)>>)>>)
Fall == Function("STRING", "fall", <<>>, <<>>)
Hush == Function("VOID", "hush", <<>>, <<>>)
Many == Function("INT", "many", <<P("INT", "a"), P("INT", "b"), P("INT", "i")>>,
          <<Return(i)>>)

Statements ==
  << Assign("x", CallOf("sum", <<x, CallOf("half", <<x>>)>>)),
     Decl("STRING", "y", CallOf("text", <<S, x>>)),
     Block(<<Decl("STRING", "x", S), Prints(Add(x, I(1))),
             Assign("x", CallOf("text", <<x, I(0)>>))>>),
     UpTo2("i", Assign("x", Add(x, i))),
     UpTo2("y", Block(<<Decl("FLOAT", "i", Var("y")), Assign("i", Add(i, F))>>)),
     Assign("i", Add(i, I(1))),
     Assign("y", x),
     Block(<<Prints(y)>>),
     If(Lt(x, I(0)), Decl("INT", "y", I(1))),
     Decl("FLOAT", "y", I(1)),
     While(Lt(I(0), x), Block(<<Assign("x", Binary("SUB", x, I(1))),
                                If(Binary("EQ", x, I(1)), Return(x))>>)),
     CallOf("tell", <<S>>),
     Assign("x", CallOf("sum", <<x>>)),          \* rejected
     Decl("CHAR", "y", C),
     Assign("y", C),
     Block(<<Decl("BOOL", "b", Lt(S, x)),
             Prints(Binary("OR", Unary("NOT", Binary("GE", C, y)), Var("b")))>>),
     Assign("x", Binary("MOD", Unary("NEG", x), CallOf("sum", <<I(1), I(2)>>))),
     CallOf("tell", <<x>>) >>

(* Programs outside of Disciplined: a main with a parameter, an assignment *)
(* to a function's name, a variable that is its own initializer, one whose *)
(* declaration is not executed, a function that does not return, a void    *)
(* value that is used, and a parameter its signature has no room for.      *)
Main(params, stmts) == Function("INT", "main", params, Append(stmts, Return(I(0))))
Odd == <<Program(<<Main(<<P("INT", "x")>>, <<Prints(x)>>)>>),
         Program(<<Half, Main(<<>>, <<Assign("half", F)>>)>>),
         Program(<<Main(<<>>, <<Decl("INT", "y", I(1)),
                                Block(<<Decl("STRING", "y", y), Prints(y)>>)>>)>>),
         Program(<<Main(<<>>, <<If(False, Decl("STRING", "y", S)), Prints(y)>>)>>),
         Program(<<Fall, Main(<<>>, <<Prints(CallOf("fall", <<>>))>>)>>),
         Program(<<Hush, Main(<<>>, <<Decl("STRING", "y", CallOf("hush", <<>>)),
                                      Prints(Var("y"))>>)>>),
         Program(<<Many, Main(<<>>, <<Prints(CallOf("many", <<I(1), I(2)>>))>>)>>)>>

Helpers == <<Half, Sum, Tell, Text>>
H == Len(Helpers)
N == Len(Statements)
Pool   == Helpers \o <<Decl("INT", "x", I(2)), Return(x)>>
                  \o Statements \o Statements \o Odd
Bodies == [k \in 1 .. N * N |->
             <<H + 1, H + 3 + ((k - 1) \div N), H + 3 + N + ((k - 1) % N), H + 2>>]

PipeHeap  == Heap(Pool, [k \in 1 .. H |-> k], "INT", Bodies) @@ <<>>
PipeAst   == LET heap == PipeHeap IN heap
PipeRoots == Programs(Bodies) \cup {<<Len(Pool) - k>> : k \in 0 .. Len(Odd) - 1}
PipeNames == {"x", "y", "i", "s", "a", "b", "half"}
PipeEnvs  == 1 .. 10

(* for (int i = 0; ...) x = x + i;  i = i + 1;                             *)
ForRoots == {<<0, 3 * N + 6>>}
(* float y = 1;  { print(y); }                                             *)
FloatRoots == {<<0, 9 * N + 8>>}
=============================================================================
