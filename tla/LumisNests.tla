----------------------------- MODULE LumisNests -----------------------------
(* Nests of statements, for the modules that choose programs for TLC.       *)
EXTENDS LumisTrees

a == Var("a")
b == Var("b")
c == Var("c")

(* Statements two and three deep.                                           *)
Around(S1, S2) ==
    {If(a, s) : s \in S1} \cup {IfElse(b, s, t) : s \in S1, t \in S2}
    \cup {While(Binary("LT", a, I(3)), s) : s \in S1} \cup {Block(<<s>>) : s \in S1}
    \cup {For(Decl("INT", "i", I(0)), b, Assign("i", I(1)), s) : s \in S1}
Leaf  == Assign("a", I(1))
Flat  == Around({Leaf}, {Leaf})
All   == Around(Flat \cup {Leaf}, Flat \cup {Leaf})
           \cup {If(a, While(b, IfElse(a, s, ReturnVoid))) : s \in Flat}
           \cup {Block(<<s, t>>) : s, t \in Flat}

(* An else after it would be its own.                                       *)
RECURSIVE Open(_)
Open(t) == \/ t.kind = "IF" /\ (Len(t.children) = 2 \/ Open(t.children[3]))
           \/ t.kind = "WHILE" /\ Open(t.children[2])
           \/ t.kind = "FOR" /\ Open(t.children[4])
Writable(t) == \A n \in NodesOf(t) :
                  n.kind = "IF" /\ Len(n.children) = 3 => ~Open(n.children[2])

Deep == {t \in All : Writable(t)}
=============================================================================
