---------------------------- MODULE LumisCorpus ----------------------------
(***************************************************************************)
(* The programs the runs execute: a few helper functions, and main bodies  *)
(* put together from a list of statements in every order.                  *)
(***************************************************************************)
EXTENDS LumisTrees

x == Var("x")
y == Var("y")
a == Var("a")
b == Var("b")
s == Var("s")
i == Var("i")

Add(l, r) == Binary("ADD", l, r)
Sub(l, r) == Binary("SUB", l, r)
Lt(l, r)  == Binary("LT", l, r)
Gt(l, r)  == Binary("GT", l, r)
Eq(l, r)  == Binary("EQ", l, r)

-----------------------------------------------------------------------------
(* int fall(int a) { if (a) return a; }                                    *)
Fall == Function("INT", "fall", <<P("INT", "a")>>, <<If(a, Return(a))>>)

(* A return out of a block in a block in a loop, and a recursive call.     *)
Rec == Function("INT", "rec", <<P("INT", "a")>>,
         <<While(True, Block(
             <<Decl("INT", "b", Sub(a, I(1))),
               IfElse(Lt(b, I(0)), Block(<<Return(I(1))>>),
                      Return(Add(b, CallOf("rec", <<b>>))))>>))>>)

(* void show(int a) { if (a > 2) return; print(a); a = 5; }                *)
Show == Function("VOID", "show", <<P("INT", "a")>>,
          <<If(Gt(a, I(2)), ReturnVoid), Prints(a), Assign("a", I(5))>>)

(* A string function that returns from inside a for loop.                  *)
Name == Function("STRING", "name", <<P("STRING", "s")>>,
          <<For(Decl("INT", "i", I(0)), Lt(i, I(2)),
                Assign("i", Add(i, I(1))),
                If(Eq(i, I(1)), Return(Add(s, S)))),
            Return(S)>>)

Two == Function("INT", "two", <<P("INT", "a"), P("INT", "b")>>,
          <<Return(Sub(a, b))>>)

(* void stray() { for (int i = 0; i < 0; i = i + 1) i = 1;  i = 5; } is    *)
(* accepted, and when it runs its last i is not in its Envs.               *)
Stray == Function("VOID", "stray", <<>>,
          <<For(Decl("INT", "i", I(0)), Lt(i, I(0)), Assign("i", Add(i, I(1))),
                Assign("i", I(1))),
            Assign("i", I(5))>>)

Helpers == <<Fall, Rec, Show, Name, Two, Stray>>

-----------------------------------------------------------------------------
(* Statements the checker accepts after `int x'.                           *)
Statements ==
  << Assign("x", CallOf("rec", <<x>>)),
     Assign("x", Add(CallOf("fall", <<I(0)>>), CallOf("fall", <<I(3)>>))),
     CallOf("show", <<x>>),
     Block(<<Decl("INT", "x", I(7)), CallOf("show", <<x>>), Prints(x)>>),
     For(Decl("INT", "i", I(0)), Lt(i, I(2)), Assign("i", Add(i, I(1))),
         Block(<<CallOf("stray", <<>>), Assign("x", Add(x, i))>>)),
     For(Assign("x", I(0)), Lt(x, I(3)), Assign("x", Add(x, I(1))),
         If(Eq(x, I(1)), Return(x))),
     While(Gt(x, I(0)), Assign("x", Sub(x, I(1)))),
     While(True, Block(<<Declare("INT", "y"), If(Lt(x, I(2)), Return(y)),
                         Assign("x", Sub(x, I(1)))>>)),
     IfElse(Gt(x, I(1)), Prints(CallOf("name", <<S>>)), Prints(x)),
     Prints(Binary("AND", Unary("NOT", Eq(x, I(1))), Lt(I(1), I(2)))),
     Add(I(1), x),
     Prints(Binary("MOD", Binary("DIV", Unary("NEG", x), I(2)), x)),
     Prints(Binary("DIV", Sub(Unary("NEG", I(7)), x), Unary("NEG", I(1)))),
     Assign("x", CallOf("two", <<CallOf("fall", <<x>>),
                                 CallOf("rec", <<I(1)>>)>>)),
     CallOf("missing", <<x>>),
     CallOf("two", <<x>>),
     CallOf("name", <<Unary("NEG", S)>>),
     Block(<<Decl("FLOAT", "y", F), If(Lt(y, F), Prints(y))>>),
     CallOf("two", <<C, True, I(1)>>) >>

(* Programs of another form: no main, a main that never returns, mains of  *)
(* other types, and one with a parameter.                                  *)
OddPrograms ==
    <<Program(<<Fall>>),
      Program(<<Function("VOID", "main", <<>>, <<CallOf("main", <<>>)>>)>>),
      Program(<<Function("STRING", "main", <<>>, <<Return(S)>>)>>),
      Program(<<Function("VOID", "main", <<P("INT", "x")>>,
                         <<Prints(x), ReturnVoid, Prints(x)>>)>>)>>

-----------------------------------------------------------------------------
(* int main() { int x = 2; <statement>; <statement>; return x; } for every *)
(* ordered pair of statements.  The pool holds each statement twice, so    *)
(* that a program is a tree even when it repeats one.                      *)
Copies(list) == list \o list

CorePool ==
    Helpers \o <<Decl("INT", "x", I(2)), Return(x)>> \o Copies(Statements)
            \o OddPrograms

First == Len(Helpers) + 1
Last  == Len(Helpers) + 2

(* The bodies for all pairs of n statements, held twice from `at' on.      *)
Pairs(at, n) == [k \in 1 .. n * n |-> <<First, at + 1 + ((k - 1) \div n),
                                        at + n + 1 + ((k - 1) % n), Last>>]

CoreBodies == Pairs(Last, Len(Statements))

CoreFunctions == [k \in 1 .. Len(Helpers) |-> k]
OddRoots == {<<Len(CorePool) - Len(OddPrograms) + k>> :
                k \in DOMAIN OddPrograms}
=============================================================================
