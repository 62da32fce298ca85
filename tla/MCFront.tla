------------------------------- MODULE MCFront -------------------------------
(* Texts: of trees of every pair of operators and every nest of statements, *)
(* of pieces in every order, and of characters in every order.              *)
EXTENDS Front, LumisNests

BinOps == DOMAIN OpSymbol

OfTree(stmts, blanks) ==
    LET t == Program(<<Function("INT", "f", <<P("INT", "a"), P("BOOL", "b")>>, stmts)>>)
    IN  [text |-> TextOf(Lexemes(t), blanks), tree |-> t, scan |-> FALSE]
OfText(s) == [text |-> s, tree |-> NoTree, scan |-> FALSE]
Scanned(s) == [text |-> s, tree |-> NoTree, scan |-> TRUE]

Two(o, p) == <<Prints(Binary(o, a, Binary(p, b, c))), Prints(Binary(p, Binary(o, a, b), c))>>
Signs(o)  == <<Prints(Unary("NEG", Binary(o, a, b))), Return(Binary(o, Unary("NOT", a), b)),
               Assign("a", Binary(o, a, Unary("NEG", Unary("NEG", b))))>>
Three(o, p, q) ==
    <<Return(Binary(o, Binary(p, a, b), Binary(q, c, True))),
      Return(Binary(o, a, Binary(p, b, Binary(q, c, I(1))))),
      Return(Binary(o, Binary(p, a, Binary(q, b, c)), CallOf("f", <<a, Binary(q, a, b)>>)))>>

Expressions == {OfTree(Two(o, p), FALSE) : o, p \in BinOps}
    \cup {OfTree(Signs(o), TRUE) : o \in BinOps}
    \cup {OfTree(Three(o, p, q), FALSE) : o, p, q \in {"AND", "EQ", "SUB", "MUL"}}

Nests == {OfTree(<<s>>, FALSE) : s \in Deep}

Other == Program(<<Function("VOID", "g", <<>>, <<ReturnVoid>>),
    Function("STRING", "h", <<P("STRING", "s")>>,
      <<Declare("STRING", "u"), Declare("FLOAT", "x"), Block(<<>>),
        Binary("ADD", a, b), For(Assign("x", a), True, Assign("x", False), Unary("NOT", b)),
        IfElse(Binary("NEQ", LiteralOf("STRING_LIT", "if"), Var("s")),
               CallOf("g", <<>>), CallOf("h", <<LiteralOf("CHAR_LIT", "q")>>)),
        Decl("CHAR", "iff", CallOf("h", <<CallOf("g", <<>>), I(7), Var("int1")>>))>>)>>)

(* Pieces of a body in every order: most are not Lumis.                     *)
Orders(pieces, n) == UNION {[1 .. k -> pieces] : k \in 0 .. n}
Joined(texts) == FoldLeft(LAMBDA s, t : s \o t, "", texts)
Pieces == Orders({"if(a)", "else ", "a=1;", "{", "}"}, 3)
            \cup Orders({"print(", "a", "-", "(", ");"}, 3)
Bodies == {OfText("int f(){" \o Joined(s) \o "}") : s \in Pieces}

Texts == {OfText(s) : s \in {
    "", "int", "int f(){} int", "int f(int a,){}", "int f(){return a b;}",
    "float f(){return 1.50+0.5*(a);}", "int f(){return 12;}", "int f(){@}",
    "int f() { // it's\n a = 1; /* \" */ b = \"/*\"; /***/ return a; }",
    "int f(){ a = '\\n'; b = \"x\\\"y\"; g((a), ((b)))\n; }", "int f(){ /* }",
    "int f(){ if (a) 1 + 2; print(3); }", "int f(){ if (a) a; else b = 1; }",
    "int f(){ for(a = 1; b; a = 2;) c = 3; }",
    "int f(){ if (a) int b = 1; }", "int f(){ a = 1.x; }", "int f(){ a = b = 1; }" }}

Chars5 == {Scanned(Joined(s)) : s \in Orders({"/", "*", "\"", "\\", "\n", "a", "'"}, 4)}
Marks  == {Scanned(s) : s \in {"1.5", "1.", "1.x", ".5", "1a", "a1", "a&&b||c", "a&b", "<=>==!=!",
            "/**/", "/***/", "/* ** */a", "/*\n/* */*/", "//\\\na", "\"//\"/*\"*/'\\''", "in int ints",
            "iffy_while1 1while", "a\t\r\n", "'\\'", "\"\\\\\"\"" }}

FrontSources == Expressions \cup Nests \cup {[text |-> TextOf(Lexemes(Other), TRUE), tree |-> Other, scan |-> FALSE]}
                \cup Bodies \cup Texts \cup Chars5 \cup Marks
=============================================================================
