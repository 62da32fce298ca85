---------------------------- MODULE MCTranslation ----------------------------
(* Programs for the C backend: operators on numbers, truth values and       *)
(* strings, nests of statements, and pairs of statements whose strings come *)
(* from variables of several scopes.  Many are wrong and are rejected.      *)
EXTENDS Translation, LumisNests

s == Var("s")
t == Var("t")
p == Var("p")
StringOf(word) == LiteralOf("STRING_LIT", word)
CharOf(sign)   == LiteralOf("CHAR_LIT", sign)
FloatOf(value) == LiteralOf("FLOAT_NUM", value)
Add(l, r) == Binary("ADD", l, r)
Eq(l, r)  == Binary("EQ", l, r)
Lt(l, r)  == Binary("LT", l, r)

(* string h(string s, int a) { if (s < "q") return s + a; return h(s + s, a - 1); } *)
H == Function("STRING", "h", <<P("STRING", "s"), P("INT", "a")>>,
       <<If(Lt(s, StringOf("q")), Return(Add(s, a))),
         Return(CallOf("h", <<Add(s, s), Binary("SUB", a, I(1))>>))>>)
(* int k(int s, float x) { return -(s + 1) * (s % 2); }                       *)
K == Function("INT", "k", <<P("INT", "s"), P("FLOAT", "x")>>,
       <<Return(Binary("MUL", Unary("NEG", Add(s, I(1))), Binary("MOD", s, I(2))))>>)
(* void v() { return; }  void w(void x) { if (x + "w" == "w") return; }       *)
V == Function("VOID", "v", <<>>, <<ReturnVoid>>)
W == Function("VOID", "w", <<P("VOID", "x")>>,
       <<If(Eq(Add(Var("x"), StringOf("w")), StringOf("w")), ReturnVoid)>>)

Declarations == <<Decl("INT", "a", I(1)), Declare("INT", "b"), Decl("INT", "c", I(3)),
                  Decl("BOOL", "p", True), Declare("STRING", "s"), Declare("FLOAT", "x")>>

(* Two operators, on either side of each other, and one under a `not'.      *)
Listed(set) == FoldSet(LAMBDA e, seq : Append(seq, e), <<>>, set)

Leaves(o) == IF o \in {"AND", "OR"} THEN {p} ELSE {a, s}
TwoOperators(o) ==
    {Prints(Binary(o, l, Add(m, c))) : l \in Leaves(o), m \in {a, s}}
    \cup {Prints(Binary(o, Lt(s, c), l)) : l \in Leaves(o)}
    \cup {Prints(Unary("NOT", Binary(o, p, p)))}
Operators == LET ops == Listed(DOMAIN OpSymbol)
             IN  FlattenSeq([i \in DOMAIN ops |-> Listed(TwoOperators(ops[i]))])

(* Statements: the first eight declare strings and hide them.               *)
First  == 8
Scoped ==
  << Decl("STRING", "t", Add(s, a)),
     Decl("INT", "t", I(2)),
     Block(<<Decl("INT", "s", a), Prints(Add(s, I(1))), Prints(Lt(s, a))>>),
     Block(<<Decl("STRING", "a", Add(a, StringOf("z"))), Assign("s", Add(a, s))>>),
     Block(<<Declare("STRING", "b"), Block(<<Decl("INT", "b", I(1)), Prints(Add(b, c))>>),
             Prints(Add(b, c))>>),
     Block(<<For(Decl("STRING", "a", StringOf("")), Lt(a, s), Assign("a", Add(a, c)),
                 Block(<<Prints(Eq(a, s)), Decl("INT", "a", I(1)), Prints(Eq(a, c))>>))>>),
     Block(<<For(Assign("s", StringOf("")), Eq(s, s), Assign("s", Add(s, s)),
                 For(Decl("INT", "s", I(0)), Lt(s, c), Assign("s", Add(s, I(1))), Prints(s)))>>),
     For(Decl("STRING", "t", s), p, Assign("t", Add(t, b)), Assign("p", False)),
     Assign("t", Add(t, I(1))),
     If(Eq(t, s), Assign("s", Add(t, t))),
     Prints(Add(t, Add(a, b))),
     Prints(Add(CallOf("h", <<Add(s, CharOf("y")), Add(a, b)>>), FloatOf("1.5"))),
     Prints(Binary("NEQ", CallOf("h", <<s, I(1)>>), s)),
     Prints(Add(CallOf("k", <<a, Var("x")>>), CallOf("k", <<a, b>>))),
     CallOf("h", <<s, a>>),
     CallOf("k", <<Binary("SUB", a, b), Unary("NEG", FloatOf("2.5"))>>),
     While(Binary("GE", s, StringOf("b")), Block(<<Eq(s, s), Assign("s", CallOf("h", <<s, c>>))>>)),
     IfElse(p, Block(<<Declare("STRING", "t")>>), CallOf("v", <<>>)),
     ReturnVoid >>

(* What Translatable leaves out.                                            *)
LeftOut ==
  << IfElse(p, Add(s, s), Prints(s)),
     While(p, Decl("INT", "u", I(1))),
     Prints(Add(s, StringOf("\\"))),
     Prints(CharOf("'")),
     Prints(Add(a, I(-1))),
     CallOf("h", <<Add(s, a), I(1)>>),
     Prints(Add(CallOf("v", <<>>), s)),
     Prints(Binary("DIV", I(5), FloatOf("2"))) >>

Nests == Flat \cup {n \in {IfElse(p, l, m) : l \in {Leaf, If(a, Leaf)}, m \in Flat} : Writable(n)}
              \cup {For(Assign("b", I(0)), b, Assign("b", c), n) : n \in Flat}
Rest  == LeftOut \o Operators \o Listed(Nests)
Pool == <<H, K, V>> \o Declarations \o SubSeq(Scoped, 1, First) \o Scoped \o Rest \o <<Program(<<W>>)>>
Bodies ==
    LET n        == Len(Scoped)
        before   == 3 + Len(Declarations)
        declared == [i \in 1 .. Len(Declarations) |-> 3 + i]
        Two(k)   == <<before + 1 + ((k - 1) \div n), before + First + 1 + ((k - 1) % n)>>
        One(k)   == <<before + First + n + (k - First * n)>>
    IN  [k \in 1 .. First * n + Len(Rest) |->
            declared \o (IF k <= First * n THEN Two(k) ELSE One(k))]

CHeap  == Heap(Pool, <<1, 2, 3>>, "VOID", Bodies) @@ <<>>
CAst   == LET heap == CHeap IN heap
CRoots == Programs(Bodies) \cup {<<Len(Pool)>>}
CNames == {"a", "b", "c", "i", "p", "s", "t", "u", "x"}
=============================================================================
