-------------------------- MODULE InterpTypedProofs --------------------------
(***************************************************************************)
(* Type soundness of the interpreter: a well-typed program that keeps      *)
(* clear of the known gaps stays RunTyped, whatever it does.               *)
(***************************************************************************)
EXTENDS InterpTyped, InterpProofs, TreeProofs, NaturalsInduction

-----------------------------------------------------------------------------
(* The tree.                                                               *)

StopsRule(n, stops) ==
    \/ Kind(n) = "RETURN"
    \/ Kind(n) = "BLOCK" /\ \E i \in 1 .. Children(n) : stops[Child(n, i)]
    \/ Kind(n) = "IF" /\ Children(n) = 3 /\ stops[Child(n, 2)] /\ stops[Child(n, 3)]

LEMMA StopsIs ==
  ASSUME NEW n \in Node
  PROVE  Stops(n) <=>
            \/ Kind(n) = "RETURN"
            \/ Kind(n) = "BLOCK" /\ \E i \in 1 .. Children(n) : Stops(Child(n, i))
            \/ Kind(n) = "IF" /\ Children(n) = 3 /\ Stops(Child(n, 2)) /\ Stops(Child(n, 3))
<1>. DEFINE Rule(f) == [m \in Node |-> StopsRule(m, f)]
            V == BOOLEAN
            F == [p \in [Node -> V] \X Node |-> StopsRule(p[2], p[1])]
            stops == CHOOSE f : f = Rule(f)
<1>1. ASSUME NEW m \in Node
      PROVE  \A i \in 1 .. Children(m) : Child(m, i) \in Parts(m) /\ Child(m, i) \in Node
  BY ChildIsNode DEF Parts
<1>2. ASSUME NEW f \in [Node -> V], NEW m \in Node
      PROVE  F[<<f, m>>] = StopsRule(m, f) /\ StopsRule(m, f) \in V
  <2>1. StopsRule(m, f) \in V
    BY DEF StopsRule
  <2>2. F[<<f, m>>] = StopsRule(m, f)
    <3>. HIDE DEF V
    <3>. QED  OBVIOUS
  <2>. QED  BY <2>1, <2>2
<1>3. F \in [[Node -> V] \X Node -> V]
  <2>1. \A p \in [Node -> V] \X Node : StopsRule(p[2], p[1]) \in V
    BY DEF StopsRule
  <2>. HIDE DEF V
  <2>. QED  BY <2>1
<1>4. ASSUME NEW f \in [Node -> V], NEW g \in [Node -> V], NEW m \in Node,
             \A d \in Node : Rank[d] < Rank[m] => f[d] = g[d]
      PROVE  StopsRule(m, f) = StopsRule(m, g)
  <2>1. \A i \in 1 .. Children(m) : f[Child(m, i)] = g[Child(m, i)]
    BY <1>1, <1>4, RankIs
  <2>2. ASSUME Children(m) = 3 PROVE 2 \in 1 .. Children(m) /\ 3 \in 1 .. Children(m)
    BY <2>2
  <2>. QED  BY <2>1, <2>2 DEF StopsRule
<1>5. Local(Node, V, Rank, F)
  <2>. HIDE DEF F, V
  <2>. QED  BY <1>2, <1>4 DEF Local
<1>6. PICK f \in [Node -> V] : Recurs(Node, F, f)
  <2>1. V # {}
    OBVIOUS
  <2>. HIDE DEF F, V
  <2>. QED  BY <1>3, <1>5, <2>1, RankIs, Recursion
<1>7. f = Rule(f)
  <2>. HIDE DEF F, V
  <2>1. \A m \in Node : f[m] = StopsRule(m, f)
    BY <1>2, <1>6 DEF Recurs
  <2>. QED  BY <2>1
<1>8. stops = Rule(stops)
  <2>. HIDE DEF Rule
  <2>. QED  BY <1>7
<1>9. \A m : Stops(m) = stops[m]
  BY DEF Stops, StopsRule
<1>. HIDE DEF stops
<1>10. stops[n] = StopsRule(n, stops)
  BY <1>8
<1>. QED  BY <1>9, <1>10 DEF StopsRule

LEMMA FunctionIs ==
  ASSUME root \in Roots, NEW f \in FunctionsOf(root)
  PROVE  /\ f \in Node /\ Kind(f) = "FUNC_DECL" /\ f \in Subtree(f)
         /\ Children(f) = 1 /\ Child(f, 1) \in Node /\ Kind(Child(f, 1)) = "BLOCK"
         /\ Child(f, 1) \in Subtree(f) /\ Child(f, 1) \in Nodes(f, StmtKind)
         /\ Ast[f].type \in DataType /\ ParamsOf(f) \in Seq(Param) /\ Len(ParamsOf(f)) \in Nat
         /\ \A i \in 1 .. Len(ParamsOf(f)) : /\ ParamsOf(f)[i].name \in VarName
                                             /\ ParamsOf(f)[i].type \in DataType
<1>1. root \in Node /\ Kind(root) = "PROGRAM"
  BY AstAssumption
<1>2. PICK p \in 1 .. Children(root) : f = Child(root, p)
  BY DEF FunctionsOf
<1>3. f \in Node /\ Kind(f) = "FUNC_DECL"
  BY <1>1, <1>2, ChildIsNode, AstAssumption DEF WellShaped
<1>4. Children(f) = 1 /\ Kind(Child(f, 1)) = "BLOCK"
  BY <1>3, AstAssumption DEF WellShaped, WellCounted
<1>5. Child(f, 1) \in Node /\ Child(f, 1) \in Parts(f)
  BY <1>3, <1>4, ChildIsNode DEF Parts
<1>6. f \in Subtree(f) /\ Child(f, 1) \in Subtree(Child(f, 1))
  BY <1>3, <1>5, SubtreeIs
<1>7. Child(f, 1) \in Subtree(f)
  BY <1>3, <1>5, <1>6, SubtreeIs
<1>8. /\ Ast[f].type \in DataType /\ Ast[f].params \in Seq(Param)
      /\ \A i \in 1 .. Len(Ast[f].params) : Ast[f].params[i].name \in VarName
  BY <1>3, AstAssumption DEF AstNode
<1>9. \A i \in 1 .. Len(Ast[f].params) : Ast[f].params[i].type \in DataType
  <2>1. \A i \in 1 .. Len(Ast[f].params) : Ast[f].params[i] \in Param
    BY <1>8
  <2>. QED  BY <2>1 DEF Param
<1>. QED  BY <1>3, <1>4, <1>5, <1>6, <1>7, <1>8, <1>9 DEF ParamsOf, Nodes, StmtKind

LEMMA FoundIsFunction ==
  ASSUME root \in Roots, NEW name, FindFunction(root, name) # NoNode
  PROVE  FindFunction(root, name) \in FunctionsOf(root)
<1>. DEFINE hits == {i \in 1 .. Children(root) :
                        /\ Kind(Child(root, i)) = "FUNC_DECL"
                        /\ Ast[Child(root, i)].name = name}
            First(i) == i \in hits /\ \A j \in hits : i <= j
            least == CHOOSE i \in hits : First(i)
<1>1. \E i \in hits : First(i)
  BY DEF FindFunction
<1>2. FindFunction(root, name) = Child(root, least)
  BY <1>1 DEF FindFunction
<1>3. least \in 1 .. Children(root)
  BY <1>1
<1>. QED  BY <1>2, <1>3 DEF FunctionsOf

LEMMA Within ==
  ASSUME root \in Roots, NEW f \in FunctionsOf(root), NEW n \in Subtree(f)
  PROVE  /\ n \in Node /\ Children(n) \in Nat
         /\ \A i \in 1 .. Children(n) : Child(n, i) \in Node /\ Child(n, i) \in Subtree(f)
         /\ \A i \in 1 .. Len(Ast[n].args) :
               Ast[n].args[i] \in Node /\ Ast[n].args[i] \in Subtree(f)
         /\ Kind(n) \in StmtKind => n \in Nodes(f, StmtKind)
<1>1. f \in Node
  BY FunctionIs
<1>2. n \in Node /\ Subtree(n) \subseteq Subtree(f)
  BY <1>1, SubtreeClosed
<1>3. \A c \in Parts(n) : c \in Node /\ c \in Subtree(f)
  <2>. TAKE c \in Parts(n)
  <2>1. c \in Node
    BY <1>2, PartsAre
  <2>2. c \in Subtree(c)
    BY <2>1, SubtreeIs
  <2>. QED  BY <1>2, <2>1, <2>2, SubtreeIs
<1>. QED  BY <1>2, <1>3, ChildCount DEF Parts, Nodes

(* What a typing says of a node and of its parts.                          *)
LEMMA Statement ==
  ASSUME NEW notes, NEW seen, Agreed(notes, seen), NEW f \in FunctionsOf(root),
         NEW n \in Subtree(f), Kind(n) \in StmtKind
  PROVE  StmtRule(root, f, notes, seen, n)
<1>1. n \in Nodes(f, StmtKind)
  BY Within DEF Agreed
<1>. QED  BY <1>1 DEF Agreed, WellTyped, FunctionTyped

LEMMA ExpressionDown ==
  ASSUME NEW notes, NEW seen, NEW f, NEW e \in Node, ExprTyped(root, f, notes, seen, e)
  PROVE  /\ ExprRule(root, f, notes, seen, e) /\ HasType(notes, e)
         /\ \A c \in Parts(e) : ExprTyped(root, f, notes, seen, c) /\ seen[c] = seen[e]
<1>1. e \in Subtree(e) /\ \A c \in Parts(e) : Subtree(c) \subseteq Subtree(e)
  BY SubtreeIs
<1>. QED  BY <1>1 DEF ExprTyped, ExprRule

LEMMA LiteralTyped ==
  ASSUME NEW notes, NEW seen, NEW f, NEW n \in Node, Kind(n) = "LITERAL"
  PROVE  ExprTyped(root, f, notes, seen, n)
<1>1. Children(n) = 0 /\ Len(Ast[n].args) = 0
  BY AstAssumption DEF WellShaped, WellCounted
<1>2. Parts(n) = {}
  BY <1>1 DEF Parts
<1>3. Subtree(n) = {n}
  BY <1>2, SubtreeIs
<1>. QED  BY <1>2, <1>3 DEF ExprTyped, ExprRule, HasType

LEMMA TypeKnown ==
  ASSUME NEW notes, NEW seen, Agreed(notes, seen), NEW n \in Node, HasType(notes, n)
  PROVE  TypeIn(notes, n) \in DataType \ {"VOID"}
<1>1. Kind(n) = "LITERAL" => Ast[n].type \in DataType \ {"VOID"}
  BY AstAssumption DEF WellShaped, AstNode
<1>. QED  BY <1>1 DEF TypeIn, HasType, Agreed

-----------------------------------------------------------------------------
(* Values.                                                                 *)

LEMMA ConformsOn ==
  ASSUME NEW a, NEW b, NEW c, Conforms(a, b), Conforms(b, c)
  PROVE  Conforms(a, c)
BY DEF Conforms

LEMMA NumericType ==
  ASSUME NEW op, NEW fl \in BOOLEAN, NEW a, NEW b
  PROVE  LET v == Numeric(op, fl, a, b)
         IN  \/ v = Fault
             \/ v.type = IF op \in {"ADD", "SUB", "MUL", "DIV"} /\ fl THEN "FLOAT"
                         ELSE IF op \in {"ADD", "SUB", "MUL", "DIV", "MOD"} THEN "INT"
                         ELSE "BOOL"
<1>. DEFINE v == Numeric(op, fl, a, b)
<1>1. \A q : Divided(a, b, q) = Fault \/ Divided(a, b, q).type = "INT"
  BY DEF Divided, Typed, IntZero
<1>2. CASE op \in {"ADD", "SUB", "MUL", "DIV"} /\ fl
  <2>1. v = Typed("FLOAT", 0)
    BY <1>2 DEF Numeric
  <2>2. v.type = "FLOAT"
    BY <2>1 DEF Typed
  <2>. QED  BY <1>2, <2>2
<1>3. CASE op \in {"ADD", "SUB", "MUL"} /\ ~fl
  <2>1. \E i : v = Typed("INT", i)
    BY <1>3 DEF Numeric
  <2>. QED  BY <1>3, <2>1 DEF Typed
<1>4. CASE (op = "DIV" /\ ~fl) \/ op = "MOD"
  <2>1. \E q : v = Divided(a, b, q)
    BY <1>4 DEF Numeric
  <2>. QED  BY <1>1, <1>4, <2>1
<1>5. CASE op \notin {"ADD", "SUB", "MUL", "DIV", "MOD"}
  <2>1. v = Bool(Compare(op, a, b))
    BY <1>5 DEF Numeric
  <2>. QED  BY <1>5, <2>1 DEF Bool, Typed
<1>. QED  BY <1>2, <1>3, <1>4, <1>5

LEMMA BinaryFits ==
  ASSUME NEW op, NEW l \in Value, NEW r \in Value, NEW t1, NEW t2, NEW t,
         t1 # "VOID", t2 # "VOID", BinaryTyped(op, t1, t2, t),
         Conforms(l.type, t1), Conforms(r.type, t2),
         NEW res \in BinaryResults(op, l, r), res # Fault
  PROVE  Conforms(res.type, t)
<1>. DEFINE hasString == "STRING" \in {l.type, r.type}
<1>1. CASE hasString /\ op = "ADD"
  <2>1. res.type = "STRING"
    BY <1>1 DEF BinaryResults, Typed
  <2>2. "STRING" \in {t1, t2}
    BY <1>1 DEF Conforms
  <2>. QED  BY <2>1, <2>2, <1>1 DEF BinaryTyped, Conforms, RelOp
<1>2. CASE hasString /\ op \in RelOp
  <2>1. res.type = "BOOL"
    BY <1>2 DEF BinaryResults, Typed, Bool, RelOp
  <2>2. t = "BOOL"
    BY <1>2 DEF BinaryTyped, RelOp
  <2>. QED  BY <2>1, <2>2 DEF Conforms
<1>3. CASE ~(hasString /\ op = "ADD") /\ ~(hasString /\ op \in RelOp)
  <2>1. res \in NumericResults(op, l, r)
    BY <1>3 DEF BinaryResults
  <2>2. PICK a \in Nums(l), b \in Nums(r) :
           res = Numeric(op, "FLOAT" \in {l.type, r.type}, a, b)
    BY <2>1 DEF NumericResults
  <2>3. res.type = IF op \in {"ADD", "SUB", "MUL", "DIV"} /\ "FLOAT" \in {l.type, r.type}
                   THEN "FLOAT"
                   ELSE IF op \in {"ADD", "SUB", "MUL", "DIV", "MOD"} THEN "INT" ELSE "BOOL"
    <3>. DEFINE fl == "FLOAT" \in {l.type, r.type}
    <3>1. res = Numeric(op, fl, a, b)
      BY <2>2
    <3>. fl \in BOOLEAN
      OBVIOUS
    <3>. HIDE DEF fl
    <3>2. res.type = IF op \in {"ADD", "SUB", "MUL", "DIV"} /\ fl THEN "FLOAT"
                     ELSE IF op \in {"ADD", "SUB", "MUL", "DIV", "MOD"} THEN "INT" ELSE "BOOL"
      BY <3>1, NumericType
    <3>. QED  BY <3>2 DEF fl
  <2>4. l.type \in {t1, "INT"} /\ r.type \in {t2, "INT"}
    BY DEF Conforms
  <2>5. CASE op \in {"ADD", "SUB", "MUL", "DIV"}
    <3>1. CASE "STRING" \in {t1, t2} /\ op = "ADD"
      <4>1. hasString
        BY <3>1 DEF Conforms
      <4>. QED  BY <4>1, <3>1, <1>3
    <3>2. CASE ~("STRING" \in {t1, t2} /\ op = "ADD")
      <4>1. t = IF "FLOAT" \in {t1, t2} THEN "FLOAT" ELSE "INT"
        BY <2>5, <3>2 DEF BinaryTyped, RelOp
      <4>2. "FLOAT" \in {l.type, r.type} => "FLOAT" \in {t1, t2}
        BY <2>4
      <4>. QED  BY <2>3, <2>5, <4>1, <4>2 DEF Conforms
    <3>. QED  BY <3>1, <3>2
  <2>6. CASE op = "MOD"
    <3>1. t = "INT"
      BY <2>6 DEF BinaryTyped, RelOp
    <3>. QED  BY <2>3, <2>6, <3>1 DEF Conforms
  <2>7. CASE op \notin {"ADD", "SUB", "MUL", "DIV", "MOD"}
    <3>1. t = "BOOL"
      BY <2>7 DEF BinaryTyped
    <3>. QED  BY <2>3, <2>7, <3>1 DEF Conforms
  <2>. QED  BY <2>5, <2>6, <2>7
<1>. QED  BY <1>1, <1>2, <1>3

LEMMA UnaryFits ==
  ASSUME NEW op, NEW v \in Value, NEW t1, NEW t, UnaryTyped(op, t1, t),
         Conforms(v.type, t1), NEW res \in UnaryResults(op, v), res # Fault
  PROVE  Conforms(res.type, t)
<1>1. CASE op = "NOT"
  <2>1. t = "BOOL"
    BY <1>1 DEF UnaryTyped
  <2>2. res.type = "BOOL"
    BY <1>1 DEF UnaryResults, Bool, Typed
  <2>. QED  BY <2>1, <2>2 DEF Conforms
<1>2. CASE op # "NOT"
  <2>1. t1 \in {"INT", "FLOAT"} /\ t = t1
    BY <1>2 DEF UnaryTyped
  <2>2. v.type \in {"INT", "FLOAT"}
    BY <2>1 DEF Conforms
  <2>3. res.type = v.type
    BY <1>2, <2>2 DEF UnaryResults, Typed
  <2>. QED  BY <2>1, <2>3
<1>. QED  BY <1>1, <1>2

-----------------------------------------------------------------------------
(* The functions of the stack.                                             *)

LEMMA LargestOf ==
  ASSUME NEW k \in Nat, NEW T \in SUBSET (1 .. k), T # {}
  PROVE  \E x \in T : \A y \in T : y <= x
<1>. DEFINE U == {k - x : x \in T}
<1>1. U \in SUBSET Nat /\ U # {}
  <2>1. \A x \in T : k - x \in Nat
    OBVIOUS
  <2>. QED  BY <2>1
<1>2. PICK u \in U : \A w \in U : u <= w
  BY <1>1, LeastOf
<1>3. PICK x \in T : u = k - x
  BY <1>2
<1>4. ASSUME NEW y \in T PROVE y <= x
  <2>1. k - y \in U
    OBVIOUS
  <2>. QED  BY <1>2, <1>3, <2>1
<1>. QED  BY <1>4

Bodies(s, k) == {c \in 1 .. k - 1 : s[c].k = "body"}
LastBody(T)  == CHOOSE c \in T : \A d \in T : d <= c

LEMMA LastBodyIs ==
  ASSUME NEW s, NEW k \in Nat, Bodies(s, k) # {}
  PROVE  /\ LastBody(Bodies(s, k)) \in Bodies(s, k)
         /\ \A d \in Bodies(s, k) : d <= LastBody(Bodies(s, k))
<1>1. k - 1 \in Nat
  BY DEF Bodies
<1>2. \E x \in Bodies(s, k) : \A y \in Bodies(s, k) : y <= x
  BY <1>1, LargestOf DEF Bodies
<1>. QED  BY <1>2 DEF LastBody

LEMMA FunctionAtIs ==
  ASSUME NEW s, NEW k
  PROVE  FunctionAt(s, k) = IF Bodies(s, k) = {} THEN MainFunction
                            ELSE Callee(s[LastBody(Bodies(s, k))].n)
BY DEF FunctionAt, Bodies, LastBody

(* It is decided by the activations below.                                 *)
LEMMA FunctionSame ==
  ASSUME NEW s, NEW u, NEW k \in Nat, \A j \in 1 .. k - 1 : u[j].k = s[j].k /\ u[j].n = s[j].n
  PROVE  FunctionAt(u, k) = FunctionAt(s, k)
<1>1. Bodies(u, k) = Bodies(s, k)
  BY DEF Bodies
<1>2. CASE Bodies(s, k) = {}
  BY <1>1, <1>2, FunctionAtIs
<1>3. CASE Bodies(s, k) # {}
  <2>1. LastBody(Bodies(s, k)) \in 1 .. k - 1
    BY <1>3, LastBodyIs DEF Bodies
  <2>. QED  BY <1>1, <1>3, <2>1, FunctionAtIs
<1>. QED  BY <1>2, <1>3

LEMMA FunctionNext ==
  ASSUME NEW s, NEW k \in Nat \ {0}
  PROVE  /\ s[k].k = "body" => FunctionAt(s, k + 1) = Callee(s[k].n)
         /\ s[k].k # "body" => FunctionAt(s, k + 1) = FunctionAt(s, k)
         /\ FunctionAt(s, 1) = MainFunction
<1>1. Bodies(s, k + 1) = Bodies(s, k) \cup (IF s[k].k = "body" THEN {k} ELSE {})
  BY DEF Bodies
<1>2. ASSUME s[k].k = "body" PROVE FunctionAt(s, k + 1) = Callee(s[k].n)
  <2>1. k \in Bodies(s, k + 1) /\ \A d \in Bodies(s, k + 1) : d <= k
    BY <1>2 DEF Bodies
  <2>2. LastBody(Bodies(s, k + 1)) = k
    <3>1. /\ LastBody(Bodies(s, k + 1)) \in Bodies(s, k + 1)
          /\ \A d \in Bodies(s, k + 1) : d <= LastBody(Bodies(s, k + 1))
      BY <2>1, LastBodyIs
    <3>2. LastBody(Bodies(s, k + 1)) \in Nat
      BY <3>1 DEF Bodies
    <3>. QED  BY <2>1, <3>1, <3>2
  <2>. QED  BY <2>1, <2>2, FunctionAtIs
<1>3. s[k].k # "body" => FunctionAt(s, k + 1) = FunctionAt(s, k)
  BY <1>1, FunctionAtIs
<1>4. FunctionAt(s, 1) = MainFunction
  <2>1. Bodies(s, 1) = {}
    BY DEF Bodies
  <2>. QED  BY <2>1, FunctionAtIs
<1>. QED  BY <1>2, <1>3, <1>4

-----------------------------------------------------------------------------
(* The stack: what a step leaves alone stays typed.                        *)

LEMMA ChainOwned ==
  ASSUME TypeInv, EnvInv, Running, NEW k \in 1 .. Len(ctl)
  PROVE  LET chain == envs[ctl[k].e].chain
         IN  /\ ctl[k].e \in EnvId /\ chain \in Seq(EnvId)
             /\ Len(chain) \in Nat \ {0} /\ chain[1] = ctl[k].e
             /\ \A c \in 1 .. Len(chain) :
                   /\ chain[c] \in EnvId /\ Live(chain[c])
                   /\ \E j \in 1 .. k : Owned(ctl[j]) = chain[c]
<1>. DEFINE e == ctl[k].e
            chain == envs[e].chain
<1>1. /\ EnvOK(ctl, envs) /\ Len(ctl) \in Nat \ {0}
      /\ \A x \in EnvId : envs[x].chain \in Seq(EnvId)
  BY HeapFacts
<1>2. FrameOK(ctl[k], envs)
  BY <1>1 DEF EnvOK
<1>3. e \in EnvId /\ chain \in Seq(EnvId) /\ chain # <<>> /\ chain[1] = e
  BY <1>1, <1>2 DEF FrameOK, EnvOK, LiveOwned
<1>4. Len(chain) \in Nat \ {0}
  BY <1>3
<1>5. ASSUME NEW c \in 1 .. Len(chain)
      PROVE  /\ chain[c] \in EnvId /\ Live(chain[c])
             /\ \E j \in 1 .. k : Owned(ctl[j]) = chain[c]
  <2>1. chain[c] \in EnvId
    BY <1>3
  <2>2. Reached(ctl, k, chain[c])
    BY <1>1 DEF EnvOK, ChainsReached
  <2>3. PICK j \in 1 .. k : Owned(ctl[j]) = chain[c]
    BY <2>2 DEF Reached
  <2>4. Live(chain[c])
    <3>1. chain[c] # NoEnv
      BY <2>1, EnvAssumption
    <3>2. FrameOK(ctl[j], envs)
      BY <1>1 DEF EnvOK
    <3>. QED  BY <2>3, <3>1, <3>2 DEF FrameOK, Live
  <2>. QED  BY <2>1, <2>3, <2>4
<1>. QED  BY <1>3, <1>4, <1>5

(* A heap h with the description S looks the same to the activation t.     *)
SameView(S, h, S2, h2, t) ==
    /\ h2[t.e].chain = h[t.e].chain
    /\ \A c \in 1 .. Len(h[t.e].chain) : S2[h[t.e].chain[c]] = S[h[t.e].chain[c]]
    /\ t.k \in Callers => S2[t.f] = S[t.f]

LEMMA ViewKeeps ==
  ASSUME NEW notes, NEW seen, NEW S, NEW h, NEW S2, NEW h2, NEW f, NEW t,
         Len(h[t.e].chain) \in Nat \ {0}, h[t.e].chain[1] = t.e,
         SameView(S, h, S2, h2, t)
  PROVE  /\ InPlace(notes, seen, S, h, f, t) => InPlace(notes, seen, S2, h2, f, t)
         /\ Sees(seen, S, h, f, t) => Sees(seen, S2, h2, f, t)
<1>1. S2[t.e] = S[t.e]
  BY DEF SameView
<1>2. Knows(S, t) => Knows(S2, t)
  BY <1>1 DEF SameView, Knows
<1>3. Surrounded(S, h, f, t) => Surrounded(S2, h2, f, t)
  BY <1>1 DEF SameView, Surrounded
<1>4. ASSUME NEW x, NEW type, TypeSeen(S, h[t.e].chain, x, type)
      PROVE  TypeSeen(S2, h2[t.e].chain, x, type)
  BY <1>4 DEF SameView, TypeSeen
<1>. QED  BY <1>2, <1>3, <1>4 DEF InPlace, Sees, Models

(* Only Envs that are free, or that the activations from b on own, change. *)
Untouched(S, S2, h2, b) ==
    \A e \in EnvId : h2[e].chain # envs[e].chain \/ S2[e] # S[e] =>
       ~Live(e) \/ \E j \in b .. Len(ctl) : Owned(ctl[j]) = e

LEMMA LowerSee ==
  ASSUME TypeInv, EnvInv, Running, NEW S, NEW S2, NEW h2, NEW b \in 1 .. Len(ctl),
         Untouched(S, S2, h2, b), NEW k \in 1 .. b - 1
  PROVE  SameView(S, envs, S2, h2, ctl[k])
<1>. DEFINE chain == envs[ctl[k].e].chain
<1>1. EnvOK(ctl, envs) /\ Len(ctl) \in Nat \ {0} /\ k \in 1 .. Len(ctl)
  BY HeapFacts
<1>2. ASSUME NEW e \in EnvId, NEW j \in 1 .. k, Owned(ctl[j]) = e, Live(e)
      PROVE  h2[e].chain = envs[e].chain /\ S2[e] = S[e]
  <2>1. e # NoEnv
    BY EnvAssumption
  <2>2. ASSUME NEW l \in b .. Len(ctl) PROVE Owned(ctl[l]) # e
    <3>1. j \in 1 .. l - 1 /\ l \in 1 .. Len(ctl)
      BY <1>1
    <3>. QED  BY <1>1, <1>2, <2>1, <3>1 DEF EnvOK, OwnersDiffer
  <2>. QED  BY <1>2, <2>2 DEF Untouched
<1>3. /\ ctl[k].e \in EnvId /\ Len(chain) \in Nat \ {0} /\ chain[1] = ctl[k].e
      /\ \A c \in 1 .. Len(chain) : /\ chain[c] \in EnvId /\ Live(chain[c])
                                    /\ \E j \in 1 .. k : Owned(ctl[j]) = chain[c]
  BY <1>1, ChainOwned
<1>4. \A c \in 1 .. Len(chain) : /\ S2[chain[c]] = S[chain[c]]
                                 /\ h2[chain[c]].chain = envs[chain[c]].chain
  BY <1>2, <1>3
<1>5. h2[ctl[k].e].chain = chain
  BY <1>3, <1>4
<1>6. ASSUME ctl[k].k \in Callers PROVE S2[ctl[k].f] = S[ctl[k].f]
  <2>1. Owned(ctl[k]) = ctl[k].f /\ ctl[k].f \in EnvId
    BY <1>6, <1>1, HeapFacts DEF Owned, Callers
  <2>2. Live(ctl[k].f)
    <3>1. ctl[k].f # NoEnv
      BY <2>1, EnvAssumption
    <3>2. FrameOK(ctl[k], envs)
      BY <1>1 DEF EnvOK
    <3>. QED  BY <2>1, <3>1, <3>2 DEF FrameOK, Live
  <2>. QED  BY <1>2, <2>1, <2>2
<1>. HIDE DEF chain
<1>. QED  BY <1>4, <1>5, <1>6 DEF SameView, chain

LEMMA LowerTyped ==
  ASSUME TypeInv, EnvInv, Running, NEW notes, NEW seen, NEW S, NEW S2, NEW h2,
         StackTyped(notes, seen, S, ctl, envs),
         NEW b \in 1 .. Len(ctl), Untouched(S, S2, h2, b),
         NEW u, \A j \in 1 .. b - 1 : u[j] = ctl[j]
  PROVE  /\ \A k \in 1 .. b : FunctionAt(u, k) = FunctionAt(ctl, k)
         /\ \A k \in 1 .. b - 1 : InPlace(notes, seen, S2, h2, FunctionAt(u, k), u[k])
         /\ \A k \in 1 .. b - 1 : ~Declaring(ctl, k) =>
                                     Sees(seen, S2, h2, FunctionAt(u, k), u[k])
         /\ \A k \in 1 .. b - 2 :
               /\ Linked(notes, seen, FunctionAt(u, k + 1), u[k], u[k + 1])
               /\ k + 1 <= Len(u) => (Declaring(u, k) <=> Declaring(ctl, k))
<1>1. Len(ctl) \in Nat \ {0}
  BY HeapFacts
<1>2. ASSUME NEW k \in 1 .. b PROVE FunctionAt(u, k) = FunctionAt(ctl, k)
  <2>1. k \in Nat /\ \A j \in 1 .. k - 1 : u[j] = ctl[j]
    BY <1>1
  <2>. QED  BY <2>1, FunctionSame
<1>3. ASSUME NEW k \in 1 .. b - 1
      PROVE  /\ InPlace(notes, seen, S2, h2, FunctionAt(u, k), u[k])
             /\ ~Declaring(ctl, k) => Sees(seen, S2, h2, FunctionAt(u, k), u[k])
  <2>1. k \in 1 .. b /\ k \in 1 .. Len(ctl)
    BY <1>1
  <2>2. FunctionAt(u, k) = FunctionAt(ctl, k) /\ u[k] = ctl[k]
    BY <1>2, <2>1
  <2>3. SameView(S, envs, S2, h2, ctl[k])
    BY LowerSee
  <2>4. Len(envs[ctl[k].e].chain) \in Nat \ {0} /\ envs[ctl[k].e].chain[1] = ctl[k].e
    BY <2>1, ChainOwned
  <2>5. /\ InPlace(notes, seen, S, envs, FunctionAt(ctl, k), ctl[k])
        /\ ~Declaring(ctl, k) => Sees(seen, S, envs, FunctionAt(ctl, k), ctl[k])
    BY <2>1 DEF StackTyped
  <2>. QED  BY <2>2, <2>3, <2>4, <2>5, ViewKeeps
<1>4. ASSUME NEW k \in 1 .. b - 2
      PROVE  /\ Linked(notes, seen, FunctionAt(u, k + 1), u[k], u[k + 1])
             /\ k + 1 <= Len(u) => (Declaring(u, k) <=> Declaring(ctl, k))
  <2>1. k + 1 \in 1 .. b /\ k \in 1 .. b - 1 /\ k + 1 \in 1 .. b - 1 /\ k \in 1 .. Len(ctl) - 1
    BY <1>1
  <2>2. FunctionAt(u, k + 1) = FunctionAt(ctl, k + 1) /\ u[k] = ctl[k] /\ u[k + 1] = ctl[k + 1]
    BY <1>2, <2>1
  <2>3. Linked(notes, seen, FunctionAt(ctl, k + 1), ctl[k], ctl[k + 1])
    BY <2>1 DEF StackTyped
  <2>4. k < Len(ctl)
    BY <1>1, <2>1
  <2>5. ASSUME k + 1 <= Len(u) PROVE Declaring(u, k) <=> Declaring(ctl, k)
    <3>1. DeclaresIn(FunctionAt(u, k + 1), u[k + 1])
             <=> DeclaresIn(FunctionAt(ctl, k + 1), ctl[k + 1])
      BY <2>2
    <3>. QED  BY <2>2, <2>4, <2>5, <3>1 DEF Declaring
  <2>. QED  BY <2>2, <2>3, <2>5
<1>. QED  BY <1>2, <1>3, <1>4

-----------------------------------------------------------------------------
(* What is known in every step of a running program.                       *)

Setting(notes, seen, S) ==
    /\ TypeInv /\ RetInv /\ EnvInv /\ Running
    /\ Agreed(notes, seen) /\ S \in [EnvId -> Desc] /\ RunTyped(notes, seen, S)

(* The function that is running.                                           *)
Here == FunctionAt(ctl, Len(ctl))

LEMMA TopTyped ==
  ASSUME NEW notes, NEW seen, NEW S, Setting(notes, seen, S)
  PROVE  /\ Len(ctl) \in Nat \ {0} /\ Top = ctl[Len(ctl)] /\ Top \in Frame
         /\ Here \in FunctionsOf(root) /\ Stands(notes, seen, Here, Top)
         /\ Knows(S, Top) /\ Surrounded(S, envs, Here, Top)
         /\ InPlace(notes, seen, S, envs, Here, Top)
         /\ Sees(seen, S, envs, Here, Top) /\ Arrived(notes, Top, val)
         /\ StackTyped(notes, seen, S, ctl, envs) /\ SlotsFit(S, envs)
         /\ \A k \in 1 .. Len(ctl) : WillReturn(ctl, k, returning)
         /\ returning => ReturnFits(FunctionAt(ctl, Len(ctl) + 1), return_val)
<1>1. Len(ctl) \in Nat \ {0} /\ Top = ctl[Len(ctl)] /\ Top \in Frame
  BY HeapFacts DEF Setting
<1>2. RunTyped(notes, seen, S)
  BY DEF Setting
<1>3. Len(ctl) \in 1 .. Len(ctl) /\ ~Declaring(ctl, Len(ctl))
  BY <1>1 DEF Declaring
<1>4. InPlace(notes, seen, S, envs, Here, Top) /\ Sees(seen, S, envs, Here, Top)
  BY <1>1, <1>2, <1>3 DEF RunTyped, StackTyped, Here
<1>. QED  BY <1>1, <1>2, <1>4 DEF RunTyped, InPlace

(* The activation t is followed, in the same function f, by u.             *)
Replaces(f, t, u) ==
    /\ u.n = t.n \/ RunsAsStmt(t)
    /\ DeclaresIn(f, t) => DeclaresIn(f, u)
    /\ DeclaresIn(f, u) => DeclaresIn(f, t) /\ u.e = t.e /\ u.n = t.n

(* The stack with u in the place of its top.                               *)
LEMMA TopReplaced ==
  ASSUME NEW notes, NEW seen, NEW S, NEW S2, NEW h2, Setting(notes, seen, S),
         NEW u, Untouched(S, S2, h2, Len(ctl)), Replaces(Here, Top, u),
         NEW s, Len(s) \in Nat, Len(s) >= Len(ctl), s[Len(ctl)] = u,
         \A j \in 1 .. Len(ctl) - 1 : s[j] = ctl[j]
  PROVE  /\ FunctionAt(s, Len(ctl)) = Here
         /\ \A k \in 1 .. Len(ctl) - 1 :
               /\ InPlace(notes, seen, S2, h2, FunctionAt(s, k), s[k])
               /\ ~Declaring(s, k) => Sees(seen, S2, h2, FunctionAt(s, k), s[k])
               /\ Linked(notes, seen, FunctionAt(s, k + 1), s[k], s[k + 1])
<1>. DEFINE m == Len(ctl)
<1>1. m \in Nat \ {0} /\ m \in 1 .. m
  BY TopTyped
<1>2. /\ \A k \in 1 .. m : FunctionAt(s, k) = FunctionAt(ctl, k)
      /\ \A k \in 1 .. m - 1 : InPlace(notes, seen, S2, h2, FunctionAt(s, k), s[k])
      /\ \A k \in 1 .. m - 1 : ~Declaring(ctl, k) =>
                                     Sees(seen, S2, h2, FunctionAt(s, k), s[k])
      /\ \A k \in 1 .. m - 2 :
            /\ Linked(notes, seen, FunctionAt(s, k + 1), s[k], s[k + 1])
            /\ k + 1 <= Len(s) => (Declaring(s, k) <=> Declaring(ctl, k))
  <2>1. StackTyped(notes, seen, S, ctl, envs)
    BY TopTyped
  <2>. QED  BY <1>1, <2>1, LowerTyped DEF Setting
<1>3. FunctionAt(s, m) = Here
  BY <1>1, <1>2 DEF Here
<1>4. ASSUME NEW k \in 1 .. m - 1, k = m - 1
      PROVE  /\ ~Declaring(s, k) => ~Declaring(ctl, k)
             /\ Linked(notes, seen, Here, ctl[k], u)
  <2>1. k + 1 = m /\ k < Len(ctl) /\ k < Len(s) /\ k \in 1 .. Len(ctl) - 1
    BY <1>1, <1>4
  <2>2. Declaring(s, k) <=> DeclaresIn(Here, u)
    BY <1>3, <2>1 DEF Declaring
  <2>3. Declaring(ctl, k) <=> DeclaresIn(Here, Top)
    BY <2>1, TopTyped DEF Declaring, Here
  <2>4. Linked(notes, seen, Here, ctl[k], Top)
    <3>1. StackTyped(notes, seen, S, ctl, envs)
      BY TopTyped
    <3>. QED  BY <2>1, <3>1, TopTyped DEF StackTyped, Here
  <2>5. ctl[k].k \in {"after", "bind"} => u.n = Top.n
    <3>1. OnTopOf(Top, ctl[k])
      <4>1. StackOK(ctl)
        BY Activation DEF Setting
      <4>2. Top.k # "main"
        BY <2>1, <1>1, <4>1, TopKinds
      <4>. QED  BY <4>1, <4>2, <1>4, TopKinds
    <3>. QED  BY <3>1 DEF OnTopOf, Unwinds, Replaces, Yields, RunsAsStmt
  <2>6. AwaitsTyped(ctl[k]) => ctl[k].k \in {"after", "bind"}
    BY DEF AwaitsTyped
  <2>7. ctl[k].k \in {"after", "bind"} => u.n = AwaitedOf(ctl[k])
    BY <2>4, <2>5 DEF Linked
  <2>8. AwaitsTyped(ctl[k]) => ExprTyped(root, Here, notes, seen, u.n)
    BY <2>4, <2>5, <2>6 DEF Linked
  <2>9. DeclaresIn(Here, u) =>
          /\ ctl[k].k = "loop" /\ Kind(ctl[k].n) = "BLOCK"
          /\ ctl[k].i - 1 \in 1 .. Children(ctl[k].n) /\ u.n = Child(ctl[k].n, ctl[k].i - 1)
          /\ u.e = ctl[k].e
    BY <2>4 DEF Linked, Replaces
  <2>10. Linked(notes, seen, Here, ctl[k], u)
    BY <2>7, <2>8, <2>9 DEF Linked
  <2>11. DeclaresIn(Here, Top) => DeclaresIn(Here, u)
    BY DEF Replaces
  <2>. QED  BY <2>2, <2>3, <2>10, <2>11
<1>5. ASSUME NEW k \in 1 .. m - 1
      PROVE  /\ InPlace(notes, seen, S2, h2, FunctionAt(s, k), s[k])
             /\ ~Declaring(s, k) => Sees(seen, S2, h2, FunctionAt(s, k), s[k])
             /\ Linked(notes, seen, FunctionAt(s, k + 1), s[k], s[k + 1])
  <2>1. CASE k = m - 1
    <3>1. s[k] = ctl[k] /\ s[k + 1] = u /\ FunctionAt(s, k + 1) = Here
      BY <1>1, <1>3, <2>1
    <3>. QED  BY <1>2, <1>4, <2>1, <3>1
  <2>2. CASE k # m - 1
    <3>1. k \in 1 .. m - 2 /\ k + 1 <= Len(s)
      BY <1>1, <2>2
    <3>. QED  BY <1>2, <3>1
  <2>. QED  BY <2>1, <2>2
<1>. HIDE DEF m
<1>. QED  BY <1>3, <1>5 DEF m

LEMMA BecomeTyped ==
  ASSUME NEW notes, NEW seen, NEW S, NEW S2, NEW h2, Setting(notes, seen, S),
         NEW u, Untouched(S, S2, h2, Len(ctl)), Replaces(Here, Top, u),
         InPlace(notes, seen, S2, h2, Here, u), Sees(seen, S2, h2, Here, u)
  PROVE  StackTyped(notes, seen, S2, Become(u), h2)
<1>. DEFINE m == Len(ctl)
            s == Become(u)
<1>1. m \in Nat \ {0} /\ Len(s) = m /\ s[m] = u /\ \A j \in 1 .. m - 1 : s[j] = ctl[j]
  BY TopTyped, BecomeShape DEF Setting
<1>. HIDE DEF s, m
<1>2. /\ FunctionAt(s, m) = Here
      /\ \A k \in 1 .. m - 1 :
            /\ InPlace(notes, seen, S2, h2, FunctionAt(s, k), s[k])
            /\ ~Declaring(s, k) => Sees(seen, S2, h2, FunctionAt(s, k), s[k])
            /\ Linked(notes, seen, FunctionAt(s, k + 1), s[k], s[k + 1])
  BY <1>1, TopReplaced DEF m
<1>3. ASSUME NEW k \in 1 .. Len(s) PROVE k = m \/ k \in 1 .. m - 1
  BY <1>1
<1>4. \A k \in 1 .. Len(s) - 1 : k \in 1 .. m - 1
  BY <1>1
<1>. QED  BY <1>1, <1>2, <1>3, <1>4 DEF StackTyped, s

(* The function of what runs on top of u.                                  *)
Under(u) == IF u.k = "body" THEN Callee(u.n) ELSE Here

LEMMA CallTypedNext ==
  ASSUME NEW notes, NEW seen, NEW S, NEW S2, NEW h2, Setting(notes, seen, S),
         NEW u, Untouched(S, S2, h2, Len(ctl)), Replaces(Here, Top, u),
         InPlace(notes, seen, S2, h2, Here, u),
         NEW w, InPlace(notes, seen, S2, h2, Under(u), w),
         Sees(seen, S2, h2, Under(u), w), Linked(notes, seen, Under(u), u, w),
         ~DeclaresIn(Under(u), w) => Sees(seen, S2, h2, Here, u)
  PROVE  StackTyped(notes, seen, S2, Call(u, w), h2)
<1>. DEFINE m == Len(ctl)
            s == Call(u, w)
<1>1. m \in Nat \ {0} /\ Len(s) = m + 1 /\ s[m] = u /\ s[m + 1] = w
      /\ \A j \in 1 .. m - 1 : s[j] = ctl[j]
  BY TopTyped, CallShape DEF Setting
<1>. HIDE DEF s, m
<1>2. /\ FunctionAt(s, m) = Here
      /\ \A k \in 1 .. m - 1 :
            /\ InPlace(notes, seen, S2, h2, FunctionAt(s, k), s[k])
            /\ ~Declaring(s, k) => Sees(seen, S2, h2, FunctionAt(s, k), s[k])
            /\ Linked(notes, seen, FunctionAt(s, k + 1), s[k], s[k + 1])
  BY <1>1, TopReplaced DEF m
<1>3. FunctionAt(s, m + 1) = Under(u)
  BY <1>1, <1>2, FunctionNext DEF Under
<1>4. Declaring(s, m) <=> DeclaresIn(Under(u), w)
  BY <1>1, <1>3 DEF Declaring
<1>5. ASSUME NEW k \in 1 .. Len(s) PROVE k = m + 1 \/ k = m \/ k \in 1 .. m - 1
  BY <1>1
<1>6. \A k \in 1 .. Len(s) - 1 : k = m \/ k \in 1 .. m - 1
  BY <1>1
<1>7. \A k \in 1 .. Len(s) : InPlace(notes, seen, S2, h2, FunctionAt(s, k), s[k])
  BY <1>1, <1>2, <1>3, <1>5
<1>8. \A k \in 1 .. Len(s) : ~Declaring(s, k) => Sees(seen, S2, h2, FunctionAt(s, k), s[k])
  BY <1>1, <1>2, <1>3, <1>4, <1>5
<1>9. \A k \in 1 .. Len(s) - 1 : Linked(notes, seen, FunctionAt(s, k + 1), s[k], s[k + 1])
  BY <1>1, <1>2, <1>3, <1>6
<1>. QED  BY <1>7, <1>8, <1>9 DEF StackTyped, s

LEMMA PopTyped ==
  ASSUME NEW notes, NEW seen, NEW S, NEW h2, Setting(notes, seen, S),
         Untouched(S, S, h2, Len(ctl)), ~DeclaresIn(Here, Top)
  PROVE  StackTyped(notes, seen, S, Pop, h2)
<1>. DEFINE m == Len(ctl)
            s == Pop
<1>1. m \in Nat \ {0} /\ m \in 1 .. m /\ Len(s) = m - 1 /\ \A j \in 1 .. m - 1 : s[j] = ctl[j]
  <2>1. ctl \in Seq(Frame) /\ ctl # <<>>
    BY Activation DEF Setting, StackOK, WellNested
  <2>. QED  BY <2>1, TopTyped, PopStack
<1>. HIDE DEF s
<1>2. /\ \A k \in 1 .. m : FunctionAt(s, k) = FunctionAt(ctl, k)
      /\ \A k \in 1 .. m - 1 : InPlace(notes, seen, S, h2, FunctionAt(s, k), s[k])
      /\ \A k \in 1 .. m - 1 : ~Declaring(ctl, k) =>
                                     Sees(seen, S, h2, FunctionAt(s, k), s[k])
      /\ \A k \in 1 .. m - 2 :
            /\ Linked(notes, seen, FunctionAt(s, k + 1), s[k], s[k + 1])
            /\ k + 1 <= Len(s) => (Declaring(s, k) <=> Declaring(ctl, k))
  <2>1. StackTyped(notes, seen, S, ctl, envs)
    BY TopTyped
  <2>. QED  BY <1>1, <2>1, LowerTyped DEF Setting
<1>3. ASSUME NEW k \in 1 .. m - 1, ~Declaring(s, k) PROVE ~Declaring(ctl, k)
  <2>1. CASE k = m - 1
    <3>1. k + 1 = m
      BY <1>1, <2>1
    <3>. QED  BY <3>1, TopTyped DEF Declaring, Here
  <2>2. CASE k # m - 1
    <3>1. k \in 1 .. m - 2 /\ k + 1 <= Len(s)
      BY <1>1, <2>2
    <3>. QED  BY <1>2, <1>3, <3>1
  <2>. QED  BY <2>1, <2>2
<1>4. Len(s) = m - 1 /\ Len(s) - 1 = m - 2
  BY <1>1
<1>. HIDE DEF m
<1>. QED  BY <1>2, <1>3, <1>4 DEF StackTyped, s

(* A declaration is over: what has been declared is seen now.              *)
LEMMA PopDeclared ==
  ASSUME NEW notes, NEW seen, NEW S, NEW S2, NEW h2, Setting(notes, seen, S),
         Len(ctl) > 1, Untouched(S, S2, h2, Len(ctl) - 1),
         ctl[Len(ctl) - 1].k # "body",
         InPlace(notes, seen, S2, h2, Here, ctl[Len(ctl) - 1]),
         Sees(seen, S2, h2, Here, ctl[Len(ctl) - 1])
  PROVE  StackTyped(notes, seen, S2, Pop, h2)
<1>. DEFINE m == Len(ctl)
            s == Pop
<1>1. /\ m \in Nat \ {0, 1} /\ m - 1 \in 1 .. m /\ Len(s) = m - 1
      /\ \A j \in 1 .. m - 1 : s[j] = ctl[j]
  <2>1. ctl \in Seq(Frame) /\ ctl # <<>>
    BY Activation DEF Setting, StackOK, WellNested
  <2>. QED  BY <2>1, TopTyped, PopStack
<1>. HIDE DEF s
<1>2. /\ \A k \in 1 .. m - 1 : FunctionAt(s, k) = FunctionAt(ctl, k)
      /\ \A k \in 1 .. m - 2 : InPlace(notes, seen, S2, h2, FunctionAt(s, k), s[k])
      /\ \A k \in 1 .. m - 2 : ~Declaring(ctl, k) =>
                                     Sees(seen, S2, h2, FunctionAt(s, k), s[k])
  <2>1. StackTyped(notes, seen, S, ctl, envs)
    BY TopTyped
  <2>2. PICK b \in 1 .. m : b = m - 1
    BY <1>1
  <2>3. b - 1 = m - 2 /\ \A j \in 1 .. b - 1 : s[j] = ctl[j]
    BY <1>1, <2>2
  <2>4. Untouched(S, S2, h2, b)
    BY <2>2
  <2>5. /\ \A k \in 1 .. b : FunctionAt(s, k) = FunctionAt(ctl, k)
        /\ \A k \in 1 .. b - 1 : InPlace(notes, seen, S2, h2, FunctionAt(s, k), s[k])
        /\ \A k \in 1 .. b - 1 : ~Declaring(ctl, k) =>
                                     Sees(seen, S2, h2, FunctionAt(s, k), s[k])
        /\ \A k \in 1 .. b - 2 :
              /\ Linked(notes, seen, FunctionAt(s, k + 1), s[k], s[k + 1])
              /\ k + 1 <= Len(s) => (Declaring(s, k) <=> Declaring(ctl, k))
    <3>1. b \in 1 .. Len(ctl)
      BY <2>2
    <3>2. TypeInv /\ EnvInv /\ Running
      BY DEF Setting
    <3>. QED  BY <2>1, <2>3, <2>4, <3>1, <3>2, LowerTyped
  <2>. QED  BY <2>2, <2>3, <2>5
<1>3. FunctionAt(s, m - 1) = Here
  <2>1. m - 1 \in Nat \ {0} /\ (m - 1) + 1 = m /\ m - 1 \in 1 .. m - 1
    BY <1>1
  <2>2. FunctionAt(ctl, m) = FunctionAt(ctl, m - 1)
    BY <2>1, FunctionNext
  <2>. QED  BY <1>2, <2>1, <2>2 DEF Here
<1>4. ASSUME NEW k \in 1 .. m - 2
      PROVE  /\ ~Declaring(s, k) => ~Declaring(ctl, k)
             /\ Linked(notes, seen, FunctionAt(s, k + 1), s[k], s[k + 1])
  <2>1. k + 1 \in 1 .. m - 1 /\ k \in 1 .. m - 1 /\ k < Len(s) /\ k \in 1 .. m - 1
    BY <1>1
  <2>2. s[k] = ctl[k] /\ s[k + 1] = ctl[k + 1] /\ FunctionAt(s, k + 1) = FunctionAt(ctl, k + 1)
    BY <1>1, <1>2, <2>1
  <2>3. Linked(notes, seen, FunctionAt(ctl, k + 1), ctl[k], ctl[k + 1])
    <3>1. StackTyped(notes, seen, S, ctl, envs)
      BY TopTyped
    <3>. QED  BY <2>1, <3>1 DEF StackTyped
  <2>. QED  BY <2>1, <2>2, <2>3 DEF Declaring
<1>5. /\ \A k \in 1 .. Len(s) : k = m - 1 \/ k \in 1 .. m - 2
      /\ \A k \in 1 .. Len(s) - 1 : k \in 1 .. m - 2
  BY <1>1
<1>6. s[m - 1] = ctl[m - 1]
  BY <1>1
<1>. HIDE DEF m
<1>7. \A k \in 1 .. Len(s) : InPlace(notes, seen, S2, h2, FunctionAt(s, k), s[k])
  BY <1>2, <1>3, <1>5, <1>6 DEF m
<1>8. \A k \in 1 .. Len(s) : ~Declaring(s, k) => Sees(seen, S2, h2, FunctionAt(s, k), s[k])
  BY <1>2, <1>3, <1>4, <1>5, <1>6 DEF m
<1>. QED  BY <1>4, <1>5, <1>7, <1>8 DEF StackTyped, s

-----------------------------------------------------------------------------
(* A call that promises a value is not left without a return.              *)

(* The new top goes on with what the old one has to do.                    *)
LEMMA PromiseBecome ==
  ASSUME NEW notes, NEW seen, NEW S, Setting(notes, seen, S), ~returning, NEW now,
         NEW u, MustEnd(Top) => MustEnd(u), u.k = "body" => u.i = 1
  PROVE  \A k \in 1 .. Len(Become(u)) : WillReturn(Become(u), k, now)
<1>. DEFINE m == Len(ctl)
            s == Become(u)
<1>1. m \in Nat \ {0} /\ Len(s) = m /\ s[m] = u /\ \A j \in 1 .. m - 1 : s[j] = ctl[j]
  BY TopTyped, BecomeShape DEF Setting
<1>2. Top = ctl[m] /\ \A k \in 1 .. m : WillReturn(ctl, k, returning)
  BY TopTyped
<1>. HIDE DEF s, m
<1>3. ASSUME NEW k \in 1 .. m PROVE WillReturn(s, k, now)
  <2>1. CASE k = m
    BY <1>1, <2>1 DEF WillReturn
  <2>2. CASE k # m
    <3>1. s[k] = ctl[k]
      BY <1>1, <2>2
    <3>2. ASSUME Owes(ctl, k) PROVE Owes(s, k)
      <4>1. PICK w \in k + 1 .. m :
               /\ MustEnd(ctl[w])
               /\ \A j \in k + 1 .. w - 1 : ctl[j].k = "loop" /\ Kind(ctl[j].n) = "BLOCK"
        BY <3>2 DEF Owes, m
      <4>2. MustEnd(s[w])
        <5>1. CASE w = m
          BY <1>1, <1>2, <4>1, <5>1
        <5>2. CASE w # m
          BY <1>1, <4>1, <5>2
        <5>. QED  BY <5>1, <5>2
      <4>3. \A j \in k + 1 .. w - 1 : s[j].k = "loop" /\ Kind(s[j].n) = "BLOCK"
        BY <1>1, <4>1
      <4>. QED  BY <1>1, <4>1, <4>2, <4>3 DEF Owes
    <3>. QED  BY <1>2, <3>1, <3>2 DEF WillReturn
  <2>. QED  BY <2>1, <2>2
<1>. QED  BY <1>1, <1>3 DEF s

LEMMA PromiseCall ==
  ASSUME NEW notes, NEW seen, NEW S, Setting(notes, seen, S), ~returning, NEW now,
         NEW u, NEW w, w.k # "body",
         MustEnd(Top) => \/ MustEnd(u)
                         \/ u.k = "loop" /\ Kind(u.n) = "BLOCK" /\ MustEnd(w),
         u.k = "body" /\ Ast[Callee(u.n)].type # "VOID" => MustEnd(w)
  PROVE  \A k \in 1 .. Len(Call(u, w)) : WillReturn(Call(u, w), k, now)
<1>. DEFINE m == Len(ctl)
            s == Call(u, w)
<1>1. m \in Nat \ {0} /\ Len(s) = m + 1 /\ s[m] = u /\ s[m + 1] = w
      /\ \A j \in 1 .. m - 1 : s[j] = ctl[j]
  BY TopTyped, CallShape DEF Setting
<1>2. Top = ctl[m] /\ \A k \in 1 .. m : WillReturn(ctl, k, returning)
  BY TopTyped
<1>. HIDE DEF s, m
<1>3. ASSUME NEW k \in 1 .. m + 1 PROVE WillReturn(s, k, now)
  <2>1. CASE k = m + 1
    BY <1>1, <2>1 DEF WillReturn
  <2>2. CASE k = m
    <3>1. MustEnd(w) => Owes(s, k)
      <4>1. m + 1 \in k + 1 .. Len(s) /\ \A j \in k + 1 .. (m + 1) - 1 : FALSE
        BY <1>1, <2>2
      <4>. QED  BY <1>1, <4>1 DEF Owes
    <3>. QED  BY <1>1, <2>2, <3>1 DEF WillReturn
  <2>3. CASE k # m /\ k # m + 1
    <3>1. s[k] = ctl[k] /\ k \in 1 .. m
      BY <1>1, <2>3
    <3>2. ASSUME Owes(ctl, k) PROVE Owes(s, k)
      <4>1. PICK v \in k + 1 .. m :
               /\ MustEnd(ctl[v])
               /\ \A j \in k + 1 .. v - 1 : ctl[j].k = "loop" /\ Kind(ctl[j].n) = "BLOCK"
        BY <3>2 DEF Owes, m
      <4>2. \A j \in k + 1 .. v - 1 : s[j].k = "loop" /\ Kind(s[j].n) = "BLOCK"
        BY <1>1, <4>1
      <4>3. v \in k + 1 .. Len(s) /\ m + 1 \in k + 1 .. Len(s)
        BY <1>1
      <4>4. CASE v # m \/ MustEnd(u)
        <5>1. MustEnd(s[v])
          <6>1. CASE v = m
            BY <1>1, <4>4, <6>1
          <6>2. CASE v # m
            BY <1>1, <4>1, <6>2
          <6>. QED  BY <6>1, <6>2
        <5>. QED  BY <4>2, <4>3, <5>1 DEF Owes
      <4>5. CASE v = m /\ u.k = "loop" /\ Kind(u.n) = "BLOCK" /\ MustEnd(w)
        <5>1. \A j \in k + 1 .. (m + 1) - 1 : s[j].k = "loop" /\ Kind(s[j].n) = "BLOCK"
          <6>1. ASSUME NEW j \in k + 1 .. (m + 1) - 1 PROVE j = m \/ j \in k + 1 .. v - 1
            BY <1>1, <4>5
          <6>. QED  BY <1>1, <4>2, <4>5, <6>1
        <5>. QED  BY <1>1, <4>3, <4>5, <5>1 DEF Owes
      <4>. QED  BY <1>2, <4>1, <4>4, <4>5
    <3>. QED  BY <1>2, <3>1, <3>2 DEF WillReturn
  <2>. QED  BY <2>1, <2>2, <2>3
<1>. QED  BY <1>1, <1>3 DEF s

LEMMA PromisePop ==
  ASSUME NEW notes, NEW seen, NEW S, Setting(notes, seen, S), NEW now,
         Top.k = "body" \/ (returning => now),
         MustEnd(Top) => now /\ Top.k # "body"
  PROVE  \A k \in 1 .. Len(Pop) : WillReturn(Pop, k, now)
<1>. DEFINE m == Len(ctl)
            s == Pop
<1>1. m \in Nat \ {0} /\ Len(s) = m - 1 /\ \A j \in 1 .. m - 1 : s[j] = ctl[j]
  <2>1. ctl \in Seq(Frame) /\ ctl # <<>>
    BY Activation DEF Setting, StackOK, WellNested
  <2>. QED  BY <2>1, TopTyped, PopStack
<1>2. Top = ctl[m] /\ \A k \in 1 .. m : WillReturn(ctl, k, returning)
  BY TopTyped
<1>. HIDE DEF s, m
<1>3. ASSUME NEW k \in 1 .. m - 1 PROVE WillReturn(s, k, now)
  <2>1. s[k] = ctl[k] /\ k \in 1 .. m /\ k < m /\ m \in k + 1 .. m
    BY <1>1
  <2>2. ASSUME Owes(ctl, k)
        PROVE  Owes(s, k) \/ (now /\ \A j \in k + 1 .. Len(s) : s[j].k # "body")
    <3>1. PICK w \in k + 1 .. m :
             /\ MustEnd(ctl[w])
             /\ \A j \in k + 1 .. w - 1 : ctl[j].k = "loop" /\ Kind(ctl[j].n) = "BLOCK"
      BY <2>2 DEF Owes, m
    <3>2. CASE w = m
      <4>1. \A j \in k + 1 .. Len(s) : s[j].k # "body"
        BY <1>1, <3>1, <3>2
      <4>. QED  BY <1>2, <3>1, <3>2, <4>1
    <3>3. CASE w # m
      <4>1. w \in k + 1 .. Len(s) /\ s[w] = ctl[w]
        BY <1>1, <3>3
      <4>2. \A j \in k + 1 .. w - 1 : s[j].k = "loop" /\ Kind(s[j].n) = "BLOCK"
        BY <1>1, <3>1, <3>3
      <4>. QED  BY <3>1, <4>1, <4>2 DEF Owes
    <3>. QED  BY <3>2, <3>3
  <2>3. ASSUME returning, \A j \in k + 1 .. Len(ctl) : ctl[j].k # "body"
        PROVE  now /\ \A j \in k + 1 .. Len(s) : s[j].k # "body"
    <3>1. Top.k # "body"
      BY <1>2, <2>1, <2>3 DEF m
    <3>2. \A j \in k + 1 .. Len(s) : j \in k + 1 .. m /\ s[j] = ctl[j]
      BY <1>1
    <3>. QED  BY <2>3, <3>1, <3>2 DEF m
  <2>. QED  BY <1>2, <2>1, <2>2, <2>3 DEF WillReturn
<1>. QED  BY <1>1, <1>3 DEF s

(* So a call that ends has a value of its type, if it has a type.          *)
LEMMA PromiseKept ==
  ASSUME NEW notes, NEW seen, NEW S, Setting(notes, seen, S), Top.k = "body",
         returning \/ Top.i > Children(Callee(Top.n))
  PROVE  ReturnFits(Callee(Top.n), return_val)
<1>. DEFINE m == Len(ctl)
            g == Callee(Top.n)
<1>1. m \in Nat \ {0} /\ Top = ctl[m] /\ m \in 1 .. m
  BY TopTyped
<1>2. FunctionAt(ctl, m + 1) = g
  BY <1>1, FunctionNext
<1>3. returning => ReturnFits(g, return_val)
  BY <1>2, TopTyped
<1>4. CASE ~returning /\ Ast[g].type # "VOID"
  <2>1. g \in FunctionsOf(root) /\ Top.i \in Nat
    <3>1. CallFrame(Top) /\ Top.i \in Nat
      BY Activation DEF Setting
    <3>. QED  BY <3>1, FoundIsFunction DEF CallFrame, Callee, Setting, Agreed
  <2>2. Top.i # 1
    BY <1>4, <2>1, FunctionIs DEF Setting, Agreed
  <2>3. ~Owes(ctl, m)
    BY <1>1 DEF Owes
  <2>4. WillReturn(ctl, m, returning)
    BY <1>1, TopTyped
  <2>. QED  BY <1>1, <1>4, <2>2, <2>3, <2>4 DEF WillReturn
<1>. QED  BY <1>3, <1>4 DEF ReturnFits

-----------------------------------------------------------------------------
(* The three ways in which a step changes the stack.                       *)

(* After the step the program is typed, with the description S2.           *)
Stays(notes, seen, S2) ==
    /\ StackTyped(notes, seen, S2, ctl', envs')
    /\ \A k \in 1 .. Len(ctl') : WillReturn(ctl', k, returning')
    /\ SlotsFit(S2, envs')
    /\ Arrived(notes, ctl'[Len(ctl')], val')
    /\ returning' => ReturnFits(FunctionAt(ctl', Len(ctl') + 1), return_val')

LEMMA BecomeStays ==
  ASSUME NEW notes, NEW seen, NEW S, NEW S2, Setting(notes, seen, S), ~returning, ~returning',
         NEW u, ctl' = Become(u),
         Untouched(S, S2, envs', Len(ctl)), Replaces(Here, Top, u),
         InPlace(notes, seen, S2, envs', Here, u), Sees(seen, S2, envs', Here, u),
         MustEnd(Top) => MustEnd(u), u.k = "body" => u.i = 1,
         SlotsFit(S2, envs'), ~AwaitsTyped(u)
  PROVE  Stays(notes, seen, S2)
<1>1. StackTyped(notes, seen, S2, ctl', envs')
  BY BecomeTyped
<1>2. \A k \in 1 .. Len(ctl') : WillReturn(ctl', k, returning')
  BY PromiseBecome
<1>3. ctl'[Len(ctl')] = u
  BY TopTyped, BecomeShape DEF Setting
<1>. QED  BY <1>1, <1>2, <1>3 DEF Stays, Arrived

LEMMA CallStays ==
  ASSUME NEW notes, NEW seen, NEW S, NEW S2, Setting(notes, seen, S), ~returning, ~returning',
         NEW u, NEW w, w.k \in {"eval", "exec"}, ctl' = Call(u, w),
         Untouched(S, S2, envs', Len(ctl)), Replaces(Here, Top, u),
         InPlace(notes, seen, S2, envs', Here, u),
         InPlace(notes, seen, S2, envs', Under(u), w),
         Sees(seen, S2, envs', Under(u), w), Linked(notes, seen, Under(u), u, w),
         ~DeclaresIn(Under(u), w) => Sees(seen, S2, envs', Here, u),
         MustEnd(Top) => \/ MustEnd(u)
                         \/ u.k = "loop" /\ Kind(u.n) = "BLOCK" /\ MustEnd(w),
         u.k = "body" /\ Ast[Callee(u.n)].type # "VOID" => MustEnd(w),
         SlotsFit(S2, envs')
  PROVE  Stays(notes, seen, S2)
<1>1. StackTyped(notes, seen, S2, ctl', envs')
  BY CallTypedNext
<1>2. \A k \in 1 .. Len(ctl') : WillReturn(ctl', k, returning')
  <2>1. w.k # "body"
    OBVIOUS
  <2>. QED  BY <2>1, PromiseCall
<1>3. ctl'[Len(ctl')] = w
  BY TopTyped, CallShape DEF Setting
<1>4. ~AwaitsTyped(w)
  BY DEF AwaitsTyped
<1>. QED  BY <1>1, <1>2, <1>3, <1>4 DEF Stays, Arrived

(* The frame under the top.                                                *)
LEMMA Below ==
  ASSUME NEW notes, NEW seen, NEW S, Setting(notes, seen, S), Top.k # "main"
  PROVE  /\ Len(ctl) \in Nat \ {0, 1} /\ Len(Pop) = Len(ctl) - 1
         /\ Pop[Len(Pop)] = ctl[Len(ctl) - 1] /\ OnTopOf(Top, ctl[Len(ctl) - 1])
         /\ Linked(notes, seen, Here, ctl[Len(ctl) - 1], Top)
         /\ FunctionAt(Pop, Len(Pop) + 1) = Here
         /\ ctl[Len(ctl) - 1] \in Frame
<1>1. StackOK(ctl) /\ ctl \in Seq(Frame) /\ ctl # <<>>
  BY Activation DEF Setting, StackOK, WellNested
<1>2. Len(ctl) \in Nat /\ Len(ctl) >= 2 /\ OnTopOf(Top, ctl[Len(ctl) - 1])
  BY <1>1, TopKinds
<1>3. Len(Pop) = Len(ctl) - 1 /\ \A i \in 1 .. Len(ctl) - 1 : Pop[i] = ctl[i]
  BY <1>1, PopStack
<1>4. PICK k \in 1 .. Len(ctl) - 1 : k = Len(ctl) - 1
  BY <1>2
<1>5. k + 1 = Len(ctl) /\ Len(ctl) \in Nat
  BY <1>2, <1>4
<1>6. Linked(notes, seen, Here, ctl[k], Top)
  <2>1. Linked(notes, seen, FunctionAt(ctl, k + 1), ctl[k], ctl[k + 1])
    BY TopTyped DEF StackTyped
  <2>. QED  BY <1>5, <2>1, TopTyped DEF Here
<1>7. FunctionAt(Pop, Len(ctl)) = Here
  <2>1. \A j \in 1 .. Len(ctl) - 1 : Pop[j].k = ctl[j].k /\ Pop[j].n = ctl[j].n
    BY <1>3
  <2>. QED  BY <1>5, <2>1, FunctionSame DEF Here
<1>8. Len(Pop) + 1 = Len(ctl)
  BY <1>3, <1>5
<1>9. ctl[Len(ctl) - 1] \in Frame
  BY <1>1, <1>2
<1>. QED  BY <1>2, <1>3, <1>4, <1>6, <1>7, <1>8, <1>9

(* An activation that returns, no call, hands over a value that fits.      *)
LEMMA PopArrives ==
  ASSUME NEW notes, NEW seen, NEW S, Setting(notes, seen, S), Top.k # "main",
         NEW v, Yields(Top) /\ ExprTyped(root, Here, notes, seen, Top.n)
                   => Conforms(v.type, TypeIn(notes, Top.n))
  PROVE  Arrived(notes, Pop[Len(Pop)], v)
<1>. DEFINE t == ctl[Len(ctl) - 1]
<1>1. Pop[Len(Pop)] = t /\ OnTopOf(Top, t) /\ Linked(notes, seen, Here, t, Top)
  BY Below
<1>. HIDE DEF t
<1>2. ASSUME AwaitsTyped(t) PROVE Conforms(v.type, TypeIn(notes, AwaitedOf(t)))
  <2>1. t.k \in {"after", "bind"}
    BY <1>2 DEF AwaitsTyped
  <2>2. Yields(Top)
    BY <1>1, <2>1 DEF OnTopOf, Unwinds
  <2>. QED  BY <1>1, <1>2, <2>1, <2>2 DEF Linked
<1>. QED  BY <1>1, <1>2 DEF Arrived

LEMMA PopStays ==
  ASSUME NEW notes, NEW seen, NEW S, NEW S2, Setting(notes, seen, S),
         Top.k \notin {"main", "body"}, ctl' = Pop, returning => returning',
         StackTyped(notes, seen, S2, Pop, envs'),
         MustEnd(Top) => returning',
         returning' => ReturnFits(Here, return_val'),
         Yields(Top) /\ ExprTyped(root, Here, notes, seen, Top.n)
            => Conforms(val'.type, TypeIn(notes, Top.n)),
         SlotsFit(S2, envs')
  PROVE  Stays(notes, seen, S2)
<1>1. \A k \in 1 .. Len(Pop) : WillReturn(Pop, k, returning')
  BY PromisePop
<1>2. Arrived(notes, Pop[Len(Pop)], val')
  BY PopArrives
<1>3. FunctionAt(Pop, Len(Pop) + 1) = Here
  BY Below
<1>. QED  BY <1>1, <1>2, <1>3 DEF Stays

-----------------------------------------------------------------------------
(* Looking a variable up.                                                  *)

LEMMA HolderAt ==
  ASSUME NEW e, NEW name, NEW c \in 1 .. Len(envs[e].chain), Len(envs[e].chain) \in Nat,
         envs[envs[e].chain[c]].vars[name] # Unset,
         \A d \in 1 .. c - 1 : envs[envs[e].chain[d]].vars[name] = Unset
  PROVE  Holder(e, name) = envs[e].chain[c]
<1>. DEFINE chain == envs[e].chain
            hits == {i \in 1 .. Len(chain) : envs[chain[i]].vars[name] # Unset}
            First(i) == i \in hits /\ \A j \in hits : i <= j
<1>1. First(c)
  OBVIOUS
<1>2. ASSUME NEW i, First(i) PROVE i = c
  BY <1>1, <1>2
<1>. HIDE DEF First
<1>3. \E i \in hits : First(i)
  BY <1>1 DEF First
<1>4. (CHOOSE i \in hits : First(i)) = c
  BY <1>2, <1>3
<1>. QED  BY <1>3, <1>4 DEF Holder, First

LEMMA HolderNone ==
  ASSUME NEW e, NEW name,
         \A d \in 1 .. Len(envs[e].chain) : envs[envs[e].chain[d]].vars[name] = Unset
  PROVE  Holder(e, name) = NoEnv
BY DEF Holder

(* Where the chain is first seen to hold the name, or that it never is.    *)
LEMMA HolderCases ==
  ASSUME NEW e, NEW name, Len(envs[e].chain) \in Nat
  PROVE  \/ Holder(e, name) = NoEnv
         \/ \E c \in 1 .. Len(envs[e].chain) :
               /\ envs[envs[e].chain[c]].vars[name] # Unset
               /\ Holder(e, name) = envs[e].chain[c]
<1>. DEFINE chain == envs[e].chain
            hits == {i \in 1 .. Len(chain) : envs[chain[i]].vars[name] # Unset}
            First(i) == i \in hits /\ \A j \in hits : i <= j
<1>. HIDE DEF First
<1>1. CASE \E i \in hits : First(i)
  <2>1. (CHOOSE i \in hits : First(i)) \in hits
    BY <1>1
  <2>. QED  BY <1>1, <2>1 DEF Holder, First
<1>2. CASE ~\E i \in hits : First(i)
  BY <1>2 DEF Holder, First
<1>. QED  BY <1>1, <1>2

(* A name that is not loose is where the checker saw it.                   *)
LEMMA FoundWhereSeen ==
  ASSUME NEW notes, NEW seen, NEW S, Setting(notes, seen, S), Kind(Top.n) # "LITERAL",
         NEW x \in VarName \ LooseNames(Here), NEW type, SeenBy(seen, Here, Top)[x] = type,
         type # NoType
  PROVE  /\ Holder(Top.e, x) \in EnvId /\ Live(Holder(Top.e, x))
         /\ S[Holder(Top.e, x)].types[x] = type
         /\ envs[Holder(Top.e, x)].vars[x] # Unset
         /\ Conforms(envs[Holder(Top.e, x)].vars[x].type, type)
<1>. DEFINE chain == envs[Top.e].chain
<1>1. /\ Len(chain) \in Nat
      /\ \A c \in 1 .. Len(chain) : chain[c] \in EnvId /\ Live(chain[c])
  <2>1. Len(ctl) \in 1 .. Len(ctl) /\ Top = ctl[Len(ctl)]
    BY TopTyped
  <2>. QED  BY <2>1, ChainOwned DEF Setting
<1>2. TypeSeen(S, chain, x, type)
  BY TopTyped DEF Sees, Models
<1>3. PICK c \in 1 .. Len(chain) : /\ S[chain[c]].types[x] = type
                                   /\ \A d \in 1 .. c - 1 : S[chain[d]].types[x] = NoType
  BY <1>2 DEF TypeSeen
<1>4. ASSUME NEW d \in 1 .. Len(chain)
      PROVE  SlotFits(S[chain[d]], envs[chain[d]].vars) /\ S[chain[d]].fun = Here
  <2>1. chain[d] \in EnvId /\ envs[chain[d]].chain # <<>>
    BY <1>1 DEF Live
  <2>. QED  BY <2>1, TopTyped DEF SlotsFit, Surrounded
<1>5. /\ envs[chain[c]].vars[x] # Unset
      /\ Conforms(envs[chain[c]].vars[x].type, type)
  BY <1>3, <1>4 DEF SlotFits
<1>6. \A d \in 1 .. c - 1 : envs[chain[d]].vars[x] = Unset
  <2>1. ASSUME NEW d \in 1 .. c - 1 PROVE envs[chain[d]].vars[x] = Unset
    <3>1. d \in 1 .. Len(chain)
      BY <1>1
    <3>. QED  BY <1>3, <1>4, <3>1 DEF SlotFits
  <2>. QED  BY <2>1
<1>7. Holder(Top.e, x) = chain[c]
  BY <1>1, <1>5, <1>6, HolderAt
<1>. QED  BY <1>1, <1>3, <1>5, <1>7

(* A loose name is an int, wherever it is found.                           *)
LEMMA LooseIsInt ==
  ASSUME NEW notes, NEW seen, NEW S, Setting(notes, seen, S),
         NEW x \in VarName, x \in LooseNames(Here)
  PROVE  \/ Holder(Top.e, x) = NoEnv
         \/ /\ Holder(Top.e, x) \in EnvId /\ S[Holder(Top.e, x)].fun = Here
            /\ S[Holder(Top.e, x)].types[x] \in {"INT", NoType}
            /\ S[Holder(Top.e, x)].types[x] = NoType => ~S[Holder(Top.e, x)].args
            /\ envs[Holder(Top.e, x)].vars[x].type = "INT"
<1>. DEFINE chain == envs[Top.e].chain
<1>1. /\ Len(chain) \in Nat
      /\ \A c \in 1 .. Len(chain) : chain[c] \in EnvId /\ Live(chain[c])
  <2>1. Len(ctl) \in 1 .. Len(ctl) /\ Top = ctl[Len(ctl)]
    BY TopTyped
  <2>. QED  BY <2>1, ChainOwned DEF Setting
<1>2. ASSUME NEW c \in 1 .. Len(chain), envs[chain[c]].vars[x] # Unset
      PROVE  /\ chain[c] \in EnvId /\ S[chain[c]].fun = Here
             /\ S[chain[c]].types[x] \in {"INT", NoType}
             /\ S[chain[c]].types[x] = NoType => ~S[chain[c]].args
             /\ envs[chain[c]].vars[x].type = "INT"
  <2>1. chain[c] \in EnvId /\ envs[chain[c]].chain # <<>>
    BY <1>1 DEF Live
  <2>2. SlotFits(S[chain[c]], envs[chain[c]].vars) /\ S[chain[c]].fun = Here
    BY <2>1, TopTyped DEF SlotsFit, Surrounded
  <2>. QED  BY <1>2, <2>1, <2>2 DEF SlotFits, Conforms
<1>. QED  BY <1>1, <1>2, HolderCases

LEMMA GetFits ==
  ASSUME NEW notes, NEW seen, NEW S, Setting(notes, seen, S),
         Top.k = "eval", Kind(Top.n) = "VAR_REF", ExprTyped(root, Here, notes, seen, Top.n)
  PROVE  Conforms(env_get(Top.e, Ast[Top.n].name).type, TypeIn(notes, Top.n))
<1>. DEFINE x == Ast[Top.n].name
<1>1. Top.n \in Node /\ x \in VarName
  BY Activation, AstAssumption DEF Setting
<1>2. /\ TypeIn(notes, Top.n) = TypeOfVariable(Here, seen[Top.n], x)
      /\ TypeIn(notes, Top.n) \in DataType
  <2>1. ExprRule(root, Here, notes, seen, Top.n) /\ HasType(notes, Top.n)
    BY <1>1, ExpressionDown
  <2>2. TypeIn(notes, Top.n) \in DataType
    BY <1>1, <2>1, TypeKnown DEF Setting
  <2>. QED  BY <2>1, <2>2 DEF ExprRule, TypeIn
<1>. HIDE DEF x
<1>3. CASE x \in LooseNames(Here)
  <2>1. TypeIn(notes, Top.n) = "INT"
    BY <1>2, <1>3 DEF TypeOfVariable
  <2>2. env_get(Top.e, x).type = "INT"
    <3>. QED  BY <1>1, <1>3, EnvAssumption, LooseIsInt DEF env_get, IntZero, Typed
  <2>. QED  BY <2>1, <2>2 DEF Conforms, x
<1>4. CASE x \notin LooseNames(Here)
  <2>1. SeenBy(seen, Here, Top)[x] = TypeIn(notes, Top.n)
    BY <1>2, <1>4 DEF TypeOfVariable, SeenBy
  <2>2. TypeIn(notes, Top.n) # NoType
    BY <1>2 DEF DataType, NoType
  <2>3. /\ Holder(Top.e, x) \in EnvId
        /\ Conforms(envs[Holder(Top.e, x)].vars[x].type, TypeIn(notes, Top.n))
    BY <1>1, <1>4, <2>1, <2>2, FoundWhereSeen
  <2>4. Holder(Top.e, x) # NoEnv
    BY <2>3, EnvAssumption
  <2>. QED  BY <2>3, <2>4 DEF env_get, x
<1>. QED  BY <1>3, <1>4

-----------------------------------------------------------------------------
(* Changes of the environments.                                            *)

LEMMA DefineFits ==
  ASSUME TypeInv, NEW S, SlotsFit(S, envs), NEW e \in EnvId, NEW x \in VarName,
         NEW v \in Value, NEW S2, \A d \in EnvId : d # e => S2[d] = S[d],
         S2[e].fun = S[e].fun, S2[e].args = S[e].args,
         \A y \in VarName : y # x => S2[e].types[y] = S[e].types[y],
         S2[e].types[x] # NoType =>
            /\ Conforms(v.type, S2[e].types[x])
            /\ x \in LooseNames(S2[e].fun) => S2[e].types[x] = "INT",
         S2[e].types[x] = NoType =>
            x \in LooseNames(S2[e].fun) /\ ~S2[e].args /\ v.type = "INT"
  PROVE  SlotsFit(S2, env_define(e, x, v))
<1>. DEFINE h == env_define(e, x, v)
<1>1. envs \in [EnvId -> Env]
  BY Same
<1>2. \A d \in EnvId : d # e => h[d] = envs[d]
  BY <1>1 DEF env_define
<1>3. /\ h[e].chain = envs[e].chain
      /\ \A y \in VarName : h[e].vars[y] = IF y = x THEN v ELSE envs[e].vars[y]
  BY <1>1 DEF env_define, Env
<1>. HIDE DEF h
<1>4. v # Unset
  BY DEF Value, Unset, DataType
<1>5. ASSUME NEW d \in EnvId, h[d].chain # <<>> PROVE SlotFits(S2[d], h[d].vars)
  <2>1. CASE d # e
    BY <1>2, <1>5, <2>1 DEF SlotsFit
  <2>2. CASE d = e
    <3>1. SlotFits(S[e], envs[e].vars)
      BY <1>3, <1>5, <2>2 DEF SlotsFit
    <3>2. ASSUME NEW y \in VarName
          PROVE  LET loose == y \in LooseNames(S2[e].fun)
                 IN  /\ S2[e].types[y] # NoType =>
                            /\ h[e].vars[y] # Unset
                            /\ Conforms(h[e].vars[y].type, S2[e].types[y])
                            /\ loose => S2[e].types[y] = "INT"
                     /\ S2[e].types[y] = NoType =>
                            \/ h[e].vars[y] = Unset
                            \/ (loose /\ ~S2[e].args /\ h[e].vars[y].type = "INT")
      <4>1. CASE y = x
        BY <1>3, <1>4, <4>1
      <4>2. CASE y # x
        BY <1>3, <3>1, <4>2 DEF SlotFits
      <4>. QED  BY <4>1, <4>2
    <3>. QED  BY <2>2, <3>2 DEF SlotFits
  <2>. QED  BY <2>1, <2>2
<1>. QED  BY <1>5 DEF SlotsFit, h

LEMMA FreeFits ==
  ASSUME TypeInv, NEW S, SlotsFit(S, envs), NEW e
  PROVE  SlotsFit(S, env_free(e))
<1>1. envs \in [EnvId -> Env]
  BY Same
<1>2. \A d \in EnvId : env_free(e)[d] = IF d = e THEN Freed ELSE envs[d]
  BY <1>1 DEF env_free
<1>. QED  BY <1>2 DEF SlotsFit, Freed

(* Described(f, args) is a new Env of the function f.                      *)
Described(f, args) == [fun |-> f, args |-> args, types |-> [x \in VarName |-> NoType]]

LEMMA DescribedIs ==
  ASSUME root \in Roots, NEW f \in FunctionsOf(root), NEW args \in BOOLEAN
  PROVE  /\ Described(f, args) \in Desc /\ Described(f, args).fun = f
         /\ Described(f, args).args = args /\ NothingIn(Described(f, args).types)
BY FunctionIs DEF Described, Desc, VarTypes, NothingIn

(* A new Env, empty, and nothing else changes.                             *)
LEMMA Created ==
  ASSUME NEW notes, NEW seen, NEW S, Setting(notes, seen, S), ~HeapFull,
         NEW p \in EnvId \cup {NoEnv}, NEW f \in FunctionsOf(root), NEW args \in BOOLEAN
  PROVE  LET S2 == [S EXCEPT ![FreshEnv] = Described(f, args)]
             h2 == env_create(p)
         IN  /\ S2 \in [EnvId -> Desc] /\ S2[FreshEnv] = Described(f, args)
             /\ \A d \in EnvId : d # FreshEnv => S2[d] = S[d] /\ h2[d] = envs[d]
             /\ h2[FreshEnv].chain = <<FreshEnv>> \o IF p = NoEnv THEN <<>> ELSE envs[p].chain
             /\ FreshEnv \in EnvId /\ ~Live(FreshEnv)
             /\ Untouched(S, S2, h2, Len(ctl)) /\ SlotsFit(S2, h2)
<1>. DEFINE S2 == [S EXCEPT ![FreshEnv] = Described(f, args)]
            h2 == env_create(p)
<1>1. FreshEnv \in EnvId /\ ~Live(FreshEnv)
  BY FreshIsFree
<1>2. envs \in [EnvId -> Env] /\ S \in [EnvId -> Desc] /\ SlotsFit(S, envs)
  BY Same, TopTyped DEF Setting
<1>3. Described(f, args) \in Desc /\ NothingIn(Described(f, args).types)
  BY DescribedIs DEF Setting, Agreed
<1>4. S2 \in [EnvId -> Desc] /\ S2[FreshEnv] = Described(f, args)
  BY <1>1, <1>2, <1>3
<1>5. \A d \in EnvId : d # FreshEnv => S2[d] = S[d] /\ h2[d] = envs[d]
  BY <1>1, <1>2 DEF env_create
<1>6. /\ h2[FreshEnv].chain = <<FreshEnv>> \o IF p = NoEnv THEN <<>> ELSE envs[p].chain
      /\ \A x \in VarName : h2[FreshEnv].vars[x] = Unset
  BY <1>1, <1>2 DEF env_create
<1>. HIDE DEF S2, h2
<1>7. Untouched(S, S2, h2, Len(ctl))
  BY <1>1, <1>5 DEF Untouched
<1>8. SlotsFit(S2, h2)
  <2>1. SlotFits(S2[FreshEnv], h2[FreshEnv].vars)
    BY <1>3, <1>4, <1>6 DEF SlotFits, NothingIn
  <2>. QED  BY <1>2, <1>5, <2>1 DEF SlotsFit
<1>. QED  BY <1>1, <1>4, <1>5, <1>6, <1>7, <1>8 DEF S2, h2

(* Nothing more is seen from a new Env than from the one around it.        *)
LEMMA NewSeesSame ==
  ASSUME NEW S, NEW S2, NEW chain \in Seq(EnvId), NEW new, NEW f, NEW types,
         \A c \in 1 .. Len(chain) : S2[chain[c]] = S[chain[c]],
         NothingIn(S2[new].types), Models(S, chain, f, types)
  PROVE  Models(S2, <<new>> \o chain, f, types)
<1>. DEFINE both == <<new>> \o chain
<1>1. /\ Len(chain) \in Nat /\ Len(both) = Len(chain) + 1 /\ both[1] = new
      /\ \A c \in 1 .. Len(chain) : both[c + 1] = chain[c]
  OBVIOUS
<1>. HIDE DEF both
<1>2. ASSUME NEW x \in VarName \ LooseNames(f) PROVE TypeSeen(S2, both, x, types[x])
  <2>1. TypeSeen(S, chain, x, types[x]) /\ S2[new].types[x] = NoType
    BY DEF Models, NothingIn
  <2>2. CASE types[x] = NoType
    <3>1. ASSUME NEW c \in 1 .. Len(both) PROVE S2[both[c]].types[x] = NoType
      <4>1. CASE c = 1
        BY <1>1, <2>1, <4>1
      <4>2. CASE c # 1
        <5>1. PICK d \in 1 .. Len(chain) : c = d + 1
          <6>1. c - 1 \in 1 .. Len(chain) /\ c = (c - 1) + 1
            BY <1>1, <4>2
          <6>. QED  BY <6>1
        <5>. QED  BY <1>1, <2>1, <2>2, <5>1 DEF TypeSeen
      <4>. QED  BY <4>1, <4>2
    <3>. QED  BY <2>2, <3>1 DEF TypeSeen
  <2>3. CASE types[x] # NoType
    <3>1. PICK c \in 1 .. Len(chain) : /\ S[chain[c]].types[x] = types[x]
                                       /\ \A d \in 1 .. c - 1 : S[chain[d]].types[x] = NoType
      BY <2>1, <2>3 DEF TypeSeen
    <3>2. c + 1 \in 1 .. Len(both) /\ S2[both[c + 1]].types[x] = types[x]
      BY <1>1, <3>1
    <3>3. ASSUME NEW d \in 1 .. (c + 1) - 1 PROVE S2[both[d]].types[x] = NoType
      <4>1. CASE d = 1
        BY <1>1, <2>1, <4>1
      <4>2. CASE d # 1
        <5>1. PICK b \in 1 .. c - 1 : d = b + 1
          <6>1. d - 1 \in 1 .. c - 1 /\ d = (d - 1) + 1
            BY <1>1, <4>2
          <6>. QED  BY <6>1
        <5>2. b \in 1 .. Len(chain)
          BY <1>1
        <5>. QED  BY <1>1, <3>1, <5>1, <5>2
      <4>. QED  BY <4>1, <4>2
    <3>. QED  BY <2>3, <3>2, <3>3 DEF TypeSeen
  <2>. QED  BY <2>2, <2>3
<1>. QED  BY <1>2 DEF Models, both

-----------------------------------------------------------------------------
(* Activations that a step makes.                                          *)

LEMMA PlaceNew ==
  ASSUME NEW notes, NEW seen, NEW S2, NEW h2, NEW f \in FunctionsOf(root),
         NEW k \in {"eval", "exec"}, NEW n \in Subtree(f), NEW e,
         k = "eval" => Typable(notes, seen, f, n),
         k = "exec" /\ Kind(n) = "CALL" => n \in CallStatements(f),
         \A c \in 1 .. Len(h2[e].chain) : S2[h2[e].chain[c]].fun = f,
         S2[e].args => k = "exec" /\ Kind(n) = "BLOCK"
  PROVE  InPlace(notes, seen, S2, h2, f, NewFrame(k, n, e))
<1>. DEFINE t == NewFrame(k, n, e)
<1>1. t.k = k /\ t.n = n /\ t.e = e /\ t.i = 1
  BY DEF NewFrame
<1>. HIDE DEF t
<1>2. Stands(notes, seen, f, t)
  BY <1>1 DEF Stands, Yields, RunsAsStmt, Callers, Operator
<1>3. Knows(S2, t) /\ Surrounded(S2, h2, f, t)
  BY <1>1 DEF Knows, Surrounded, Callers
<1>. QED  BY <1>2, <1>3 DEF InPlace, t

(* The running activation's Env holds no arguments of a call.              *)
Inner == Top.k # "exec" \/ Kind(Top.n) # "BLOCK"

LEMMA PlaceHere ==
  ASSUME NEW notes, NEW seen, NEW S, Setting(notes, seen, S), Inner,
         NEW k \in {"eval", "exec"}, NEW n \in Subtree(Here),
         k = "eval" => Typable(notes, seen, Here, n),
         k = "exec" /\ Kind(n) = "CALL" => n \in CallStatements(Here)
  PROVE  /\ InPlace(notes, seen, S, envs, Here, NewFrame(k, n, Top.e))
         /\ Kind(Top.n) # "LITERAL" /\ (Kind(n) = "LITERAL" \/ SeenBy(seen, Here, Top) = seen[n])
               => Sees(seen, S, envs, Here, NewFrame(k, n, Top.e))
<1>. DEFINE t == NewFrame(k, n, Top.e)
<1>1. t.k = k /\ t.n = n /\ t.e = Top.e
  BY DEF NewFrame
<1>2. InPlace(notes, seen, S, envs, Here, t)
  <2>1. /\ \A c \in 1 .. Len(envs[Top.e].chain) : S[envs[Top.e].chain[c]].fun = Here
        /\ ~S[Top.e].args /\ Here \in FunctionsOf(root)
    BY TopTyped DEF Surrounded, Inner
  <2>. QED  BY <2>1, PlaceNew
<1>3. SeenBy(seen, Here, t) = seen[n]
  BY <1>1 DEF SeenBy
<1>. HIDE DEF t
<1>. QED  BY <1>1, <1>2, <1>3, TopTyped DEF Sees, t

LEMMA Unchanging ==
  ASSUME TypeInv, NEW S, NEW b
  PROVE  /\ Untouched(S, S, envs, b)
         /\ \A e, x, v : Untouched(S, S, env_define(e, x, v), b)
         /\ Running /\ EnvInv /\ b = Len(ctl) /\ Owned(Top) # NoEnv
               => Untouched(S, S, env_free(Owned(Top)), b)
<1>1. \A e, x, v : Untouched(S, S, env_define(e, x, v), b)
  BY DefineKeepsChains DEF Untouched
<1>2. ASSUME Running, EnvInv, b = Len(ctl)
      PROVE  Untouched(S, S, env_free(Owned(Top)), b)
  <2>1. envs \in [EnvId -> Env]
    BY Same
  <2>2. \A d \in EnvId : d # Owned(Top) => env_free(Owned(Top))[d] = envs[d]
    BY <2>1 DEF env_free
  <2>3. Len(ctl) \in b .. Len(ctl) /\ Top = ctl[Len(ctl)]
    BY <1>2, HeapFacts
  <2>. QED  BY <2>2, <2>3 DEF Untouched
<1>. QED  BY <1>1, <1>2 DEF Untouched

-----------------------------------------------------------------------------
(* The steps, those that only continue or hand over a value first.         *)

(* An operand is about to be evaluated.                                    *)
LEMMA EvaluateStays ==
  ASSUME NEW notes, NEW seen, NEW S, Setting(notes, seen, S), ~returning,
         returning' = returning, envs' = envs, Inner,
         NEW u, NEW n \in Subtree(Here), ctl' = Call(u, Eval(n, Top.e)),
         u.k \in {"after", "bind"}, u.n = Top.n, u.e = Top.e,
         SeenBy(seen, Here, Top) = seen[Top.n], Kind(Top.n) # "LITERAL",
         DeclaresIn(Here, Top) <=> DeclaresIn(Here, u),
         Stands(notes, seen, Here, u), Knows(S, u), Surrounded(S, envs, Here, u),
         Typable(notes, seen, Here, n), Kind(n) = "LITERAL" \/ seen[n] = seen[Top.n],
         AwaitedOf(u) = n, AwaitsTyped(u) => ExprTyped(root, Here, notes, seen, n),
         MustEnd(Top) => MustEnd(u)
  PROVE  Stays(notes, seen, S)
<1>. DEFINE w == Eval(n, Top.e)
<1>1. w.k = "eval" /\ w.n = n /\ w = NewFrame("eval", n, Top.e)
  BY DEF Eval, NewFrame
<1>2. InPlace(notes, seen, S, envs, Here, w) /\ Sees(seen, S, envs, Here, w)
  BY <1>1, PlaceHere
<1>3. InPlace(notes, seen, S, envs, Here, u)
  BY TopTyped DEF InPlace
<1>4. Sees(seen, S, envs, Here, u)
  <2>1. SeenBy(seen, Here, u) = seen[Top.n]
    BY DEF SeenBy
  <2>. QED  BY <2>1, TopTyped DEF Sees
<1>5. Under(u) = Here /\ ~DeclaresIn(Here, w) /\ Replaces(Here, Top, u)
  BY <1>1 DEF Under, DeclaresIn, Replaces
<1>6. Linked(notes, seen, Here, u, w)
  BY <1>1, <1>5 DEF Linked
<1>7. Untouched(S, S, envs', Len(ctl)) /\ SlotsFit(S, envs')
  BY Unchanging, TopTyped DEF Setting
<1>. HIDE DEF w
<1>. QED  BY <1>1, <1>2, <1>3, <1>4, <1>5, <1>6, <1>7, CallStays DEF w

(* A value is handed over.                                                 *)
LEMMA DeliverStays ==
  ASSUME NEW notes, NEW seen, NEW S, Setting(notes, seen, S),
         Top.k \in {"eval", "after"}, Yields(Top), NEW v, Deliver(v), envs' = envs,
         ExprTyped(root, Here, notes, seen, Top.n) => Conforms(v.type, TypeIn(notes, Top.n))
  PROVE  Stays(notes, seen, S)
<1>1. ~returning
  BY Working DEF Setting, Unwinds
<1>2. ctl' = Pop /\ val' = v /\ ~returning'
  BY <1>1 DEF Deliver
<1>3. ~DeclaresIn(Here, Top) /\ ~MustEnd(Top)
  <2>1. Top.k = "eval" \/ Kind(Top.n) \in {"UNARY_OP", "BINARY_OP"}
    BY DEF Yields, Operator
  <2>2. Top.n \in Node
    BY Activation DEF Setting
  <2>. QED  BY <2>1, <2>2, StopsIs DEF DeclaresIn, MustEnd
<1>4. Untouched(S, S, envs', Len(ctl)) /\ SlotsFit(S, envs')
  BY Unchanging, TopTyped DEF Setting
<1>5. StackTyped(notes, seen, S, Pop, envs')
  BY <1>3, <1>4, PopTyped
<1>. QED  BY <1>1, <1>2, <1>3, <1>4, <1>5, PopStays

(* A statement is over, and has declared nothing.                          *)
LEMMA FinishStays ==
  ASSUME NEW notes, NEW seen, NEW S, Setting(notes, seen, S), RunsAsStmt(Top), ctl' = Pop,
         returning => returning' /\ return_val' = return_val,
         \/ envs' = envs
         \/ \E e, x, v : envs' = env_define(e, x, v)
         \/ Owned(Top) # NoEnv /\ envs' = env_free(Owned(Top)),
         SlotsFit(S, envs'), ~DeclaresIn(Here, Top),
         ~returning /\ MustEnd(Top) => returning',
         ~returning /\ returning' => ReturnFits(Here, return_val')
  PROVE  Stays(notes, seen, S)
<1>1. Untouched(S, S, envs', Len(ctl))
  BY Unchanging DEF Setting
<1>2. StackTyped(notes, seen, S, Pop, envs')
  BY <1>1, PopTyped
<1>3. Top.k \notin {"main", "body"} /\ ~Yields(Top)
  BY DEF RunsAsStmt, Yields
<1>4. returning' => ReturnFits(Here, return_val')
  <2>1. FunctionAt(ctl, Len(ctl) + 1) = Here
    BY <1>3, TopTyped, FunctionNext DEF Here
  <2>2. returning => ReturnFits(Here, return_val)
    BY <2>1, TopTyped
  <2>. QED  BY <2>2
<1>. QED  BY <1>2, <1>3, <1>4, PopStays

LEMMA CallSound ==
  ASSUME NEW notes, NEW seen, Agreed(notes, seen), NEW f \in FunctionsOf(root),
         NEW n \in Subtree(f), Kind(n) = "CALL", Typable(notes, seen, f, n)
  PROVE  LET g == Callee(n)
         IN  /\ g \in FunctionsOf(root) /\ g # NoNode
             /\ Len(Ast[n].args) = Len(ParamsOf(g)) /\ Len(ParamsOf(g)) \in Nat
             /\ \A i \in 1 .. Len(Ast[n].args) :
                   LET a == Ast[n].args[i]
                   IN  /\ a \in Subtree(f) /\ a \in Node /\ ExprTyped(root, f, notes, seen, a)
                       /\ Typable(notes, seen, f, a)
                       /\ Kind(a) = "LITERAL" \/ seen[a] = seen[n]
                       /\ Conforms(TypeIn(notes, a), ParamsOf(g)[i].type)
<1>. DEFINE g == Callee(n)
<1>1. n \in Node /\ root \in Roots
  BY Within DEF Agreed
<1>2. ASSUME NEW i \in 1 .. Len(Ast[n].args)
      PROVE  /\ Ast[n].args[i] \in Subtree(f) /\ Ast[n].args[i] \in Node
             /\ Ast[n].args[i] \in Parts(n) /\ Kind(Ast[n].args[i]) \in ExprKind
  BY <1>1, Within, AstAssumption DEF Parts, WellShaped
<1>3. CASE n \in CallStatements(f)
  <2>1. SoundCall(n, g)
    BY <1>3 DEF Agreed
  <2>2. g \in FunctionsOf(root) /\ g # NoNode /\ Len(ParamsOf(g)) \in Nat
    BY <1>1, <2>1, FoundIsFunction, FunctionIs DEF SoundCall, Callee
  <2>3. ASSUME NEW i \in 1 .. Len(Ast[n].args)
        PROVE  LET a == Ast[n].args[i]
               IN  /\ Kind(a) = "LITERAL" /\ Typable(notes, seen, f, a)
                   /\ ExprTyped(root, f, notes, seen, a)
                   /\ Conforms(TypeIn(notes, a), ParamsOf(g)[i].type)
    <3>1. Kind(Ast[n].args[i]) = "LITERAL" /\ Ast[Ast[n].args[i]].type = ParamsOf(g)[i].type
      BY <2>1 DEF SoundCall
    <3>2. ExprTyped(root, f, notes, seen, Ast[n].args[i])
      BY <1>2, <3>1, LiteralTyped
    <3>. QED  BY <1>2, <3>1, <3>2 DEF Typable, Conforms, TypeIn
  <2>. QED  BY <1>2, <2>1, <2>2, <2>3 DEF SoundCall
<1>4. CASE n \notin CallStatements(f)
  <2>1. ExprTyped(root, f, notes, seen, n)
    BY <1>4 DEF Typable
  <2>2. CallTyped(root, notes, n)
    BY <1>1, <2>1, ExpressionDown DEF ExprRule
  <2>3. g \in FunctionsOf(root) /\ g # NoNode /\ Len(ParamsOf(g)) \in Nat
    BY <1>1, <2>2, FoundIsFunction, FunctionIs DEF CallTyped, Callee
  <2>4. ASSUME NEW i \in 1 .. Len(Ast[n].args)
        PROVE  LET a == Ast[n].args[i]
               IN  /\ seen[a] = seen[n] /\ Typable(notes, seen, f, a)
                   /\ ExprTyped(root, f, notes, seen, a)
                   /\ Conforms(TypeIn(notes, a), ParamsOf(g)[i].type)
    <3>. DEFINE a == Ast[n].args[i]
    <3>1. ExprTyped(root, f, notes, seen, a) /\ seen[a] = seen[n] /\ a \in Node
      BY <1>1, <1>2, <2>1, ExpressionDown
    <3>2. TypeIn(notes, a) # "VOID"
      <4>1. HasType(notes, a)
        BY <3>1, ExpressionDown
      <4>. QED  BY <3>1, <4>1, TypeKnown
    <3>3. Takes(ParamsOf(g)[i].type, TypeIn(notes, a))
      BY <2>2 DEF CallTyped, Callee
    <3>. QED  BY <1>2, <3>1, <3>2, <3>3 DEF Typable, Takes
  <2>. QED  BY <1>2, <2>2, <2>3, <2>4 DEF CallTyped, Callee
<1>. QED  BY <1>3, <1>4

(* An operator and its operands.                                           *)
LEMMA OperandTyped ==
  ASSUME NEW notes, NEW seen, Agreed(notes, seen), NEW f \in FunctionsOf(root),
         NEW n \in Subtree(f), Kind(n) \in {"UNARY_OP", "BINARY_OP"},
         Typable(notes, seen, f, n), NEW i \in 1 .. Children(n)
  PROVE  /\ ExprTyped(root, f, notes, seen, n)
         /\ Child(n, i) \in Subtree(f) /\ Child(n, i) \in Node
         /\ ExprTyped(root, f, notes, seen, Child(n, i))
         /\ Typable(notes, seen, f, Child(n, i)) /\ seen[Child(n, i)] = seen[n]
         /\ TypeIn(notes, Child(n, i)) # "VOID"
<1>1. n \in Node /\ Child(n, i) \in Subtree(f) /\ Child(n, i) \in Node
  BY Within DEF Agreed
<1>2. n \notin CallStatements(f)
  BY DEF CallStatements
<1>3. ExprTyped(root, f, notes, seen, n)
  BY <1>2 DEF Typable
<1>4. Child(n, i) \in Parts(n)
  BY DEF Parts
<1>5. ExprTyped(root, f, notes, seen, Child(n, i)) /\ seen[Child(n, i)] = seen[n]
  BY <1>1, <1>3, <1>4, ExpressionDown
<1>6. Kind(Child(n, i)) \in ExprKind
  <2>1. WellShaped(n)
    BY <1>1, AstAssumption
  <2>2. i \in ExprChildren(n)
    BY DEF ExprChildren
  <2>. QED  BY <2>1, <2>2 DEF WellShaped
<1>7. TypeIn(notes, Child(n, i)) # "VOID"
  <2>1. HasType(notes, Child(n, i))
    BY <1>1, <1>5, ExpressionDown
  <2>. QED  BY <1>1, <2>1, TypeKnown
<1>. QED  BY <1>1, <1>3, <1>5, <1>6, <1>7 DEF Typable

(* What an operator's activation is.                                       *)
LEMMA OperatorHere ==
  ASSUME NEW notes, NEW seen, NEW S, Setting(notes, seen, S), Top.k \in {"eval", "after"},
         Kind(Top.n) \in {"UNARY_OP", "BINARY_OP"}
  PROVE  /\ Top.n \in Subtree(Here) /\ Top.n \in Node /\ Typable(notes, seen, Here, Top.n)
         /\ ExprTyped(root, Here, notes, seen, Top.n)
         /\ Here \in FunctionsOf(root) /\ ~returning /\ Yields(Top) /\ Inner
         /\ ~DeclaresIn(Here, Top) /\ ~MustEnd(Top) /\ SeenBy(seen, Here, Top) = seen[Top.n]
         /\ Children(Top.n) = IF Kind(Top.n) = "UNARY_OP" THEN 1 ELSE 2
         /\ Top.k = "after" =>
               /\ Top.i \in 1 .. Children(Top.n)
               /\ Conforms(val.type, TypeIn(notes, Child(Top.n, Top.i)))
         /\ ExprRule(root, Here, notes, seen, Top.n)
<1>1. Top.n \in Node /\ Stands(notes, seen, Here, Top) /\ Here \in FunctionsOf(root)
  BY TopTyped, Activation DEF Setting
<1>2. Yields(Top) /\ Operator(Top) /\ Inner
  BY DEF Yields, Operator, Inner
<1>3. Top.n \in Subtree(Here) /\ Typable(notes, seen, Here, Top.n)
  BY <1>1, <1>2 DEF Stands
<1>4. ~returning
  BY Working DEF Setting, Unwinds
<1>5. ~DeclaresIn(Here, Top) /\ ~MustEnd(Top) /\ SeenBy(seen, Here, Top) = seen[Top.n]
  BY <1>1, StopsIs DEF DeclaresIn, MustEnd, SeenBy
<1>6. Children(Top.n) = IF Kind(Top.n) = "UNARY_OP" THEN 1 ELSE 2
  BY <1>1, AstAssumption DEF WellShaped, WellCounted
<1>7. ASSUME Top.k = "after"
      PROVE  /\ Top.i \in 1 .. Children(Top.n)
             /\ Conforms(val.type, TypeIn(notes, Child(Top.n, Top.i)))
  <2>1. Top.i \in 1 .. Children(Top.n)
    BY <1>1, <1>2, <1>7 DEF Stands, StmtKind
  <2>2. AwaitsTyped(Top) /\ AwaitedOf(Top) = Child(Top.n, Top.i)
    BY <1>7 DEF AwaitsTyped, AwaitedOf, AwaitedIndex
  <2>. QED  BY <2>1, <2>2, TopTyped DEF Arrived
<1>9. ExprTyped(root, Here, notes, seen, Top.n)
  BY <1>3 DEF Typable, CallStatements
<1>10. ExprRule(root, Here, notes, seen, Top.n)
  BY <1>1, <1>9, ExpressionDown
<1>. QED  BY <1>1, <1>2, <1>3, <1>4, <1>5, <1>6, <1>7, <1>9, <1>10

LEMMA OperatorStays ==
  ASSUME NEW notes, NEW seen, NEW S, Setting(notes, seen, S),
         EvalOperand \/ AfterUnary \/ AfterLeft \/ AfterRight, status' = "running"
  PROVE  Stays(notes, seen, S)
<1>. DEFINE n == Top.n
<1>1. Top.k \in {"eval", "after"} /\ Kind(n) \in {"UNARY_OP", "BINARY_OP"}
  BY DEF EvalOperand, AfterUnary, AfterLeft, AfterRight, At, On
<1>2. /\ n \in Subtree(Here) /\ n \in Node /\ Typable(notes, seen, Here, n)
      /\ ExprTyped(root, Here, notes, seen, n)
      /\ Here \in FunctionsOf(root) /\ ~returning /\ Yields(Top) /\ Inner
      /\ ~DeclaresIn(Here, Top) /\ ~MustEnd(Top) /\ SeenBy(seen, Here, Top) = seen[n]
      /\ Children(n) = IF Kind(n) = "UNARY_OP" THEN 1 ELSE 2
      /\ Top.k = "after" =>
            /\ Top.i \in 1 .. Children(n)
            /\ Conforms(val.type, TypeIn(notes, Child(n, Top.i)))
      /\ ExprRule(root, Here, notes, seen, n)
  BY <1>1, OperatorHere
<1>3. \A i \in 1 .. Children(n) :
         /\ Child(n, i) \in Subtree(Here) /\ Child(n, i) \in Node
         /\ ExprTyped(root, Here, notes, seen, Child(n, i))
         /\ Typable(notes, seen, Here, Child(n, i)) /\ seen[Child(n, i)] = seen[n]
         /\ TypeIn(notes, Child(n, i)) # "VOID"
  BY <1>1, <1>2, OperandTyped DEF Setting
<1>4. /\ Top \in Frame /\ val \in Value /\ Top.v \in Value
      /\ Stands(notes, seen, Here, Top) /\ Knows(S, Top) /\ Surrounded(S, envs, Here, Top)
  BY TopTyped, Activation, Same DEF Setting
<1>5. TypeIn(notes, n) = notes[n]
  BY <1>1 DEF TypeIn
<1>. HIDE DEF n
<1>6. ASSUME NEW i \in 1 .. Children(n), NEW u, ctl' = Call(u, Eval(Child(n, i), Top.e)),
             u.k = "after", u.n = n, u.e = Top.e, u.i = i, returning' = returning, envs' = envs,
             i = 2 => Conforms(u.v.type, TypeIn(notes, Child(n, 1)))
      PROVE  Stays(notes, seen, S)
  <2>1. Stands(notes, seen, Here, u) /\ Knows(S, u) /\ Surrounded(S, envs, Here, u)
    <3>1. Stands(notes, seen, Here, u)
      BY <1>1, <1>2, <1>6 DEF n, Stands, Operator, Yields, RunsAsStmt, Callers
    <3>2. Knows(S, u)
      BY <1>1, <1>6 DEF n, Knows, Callers
    <3>3. Surrounded(S, envs, Here, u)
      BY <1>1, <1>2, <1>4, <1>6 DEF n, Surrounded, Inner
    <3>. QED  BY <3>1, <3>2, <3>3
  <2>2. AwaitedOf(u) = Child(n, i) /\ ~DeclaresIn(Here, u)
    BY <1>1, <1>6 DEF AwaitedOf, AwaitedIndex, DeclaresIn
  <2>3. n = Top.n /\ Kind(n) # "LITERAL"
    BY <1>1 DEF n
  <2>4. Child(n, i) \in Subtree(Here)
    BY <1>3
  <2>. QED  BY <1>2, <1>3, <1>6, <2>1, <2>2, <2>3, <2>4, EvaluateStays
<1>7. CASE EvalOperand
  <2>1. As("after") \in Frame /\ As("after").k = "after" /\ As("after").n = n
        /\ As("after").e = Top.e /\ As("after").i = Top.i
    BY <1>4, WithKind DEF As, n, FrameKind
  <2>2. Top.k = "eval"
    BY <1>7 DEF EvalOperand, At
  <2>3. Top.i = 1 /\ 1 \in 1 .. Children(n)
    BY <1>2, <1>4, <2>2 DEF Stands
  <2>. QED  BY <1>6, <1>7, <2>1, <2>3 DEF EvalOperand, Continue, n
<1>8. CASE AfterLeft
  <2>. DEFINE u == [Top EXCEPT !.i = 2, !.v = val]
  <2>1. u.k = "after" /\ u.n = n /\ u.e = Top.e /\ u.i = 2 /\ u.v = val
    BY <1>4, <1>8 DEF Frame, AfterLeft, At, n
  <2>2. 2 \in 1 .. Children(n) /\ Conforms(val.type, TypeIn(notes, Child(n, 1)))
    BY <1>2, <1>8 DEF AfterLeft, At, On, n
  <2>3. ctl' = Call(u, Eval(Child(n, 2), Top.e)) /\ returning' = returning /\ envs' = envs
    BY <1>8 DEF AfterLeft, Continue, n
  <2>. HIDE DEF u
  <2>. QED  BY <1>6, <2>1, <2>2, <2>3
<1>9. CASE AfterUnary
  <2>1. PICK res \in UnaryResults(Ast[n].op, val) :
           IF res = Fault THEN Crash ELSE Deliver(res) /\ UNCHANGED envs
    BY <1>9 DEF AfterUnary, n
  <2>2. res # Fault /\ Deliver(res) /\ envs' = envs
    BY <2>1 DEF Crash
  <2>3. Kind(n) = "UNARY_OP" /\ Top.k = "after"
    BY <1>9 DEF AfterUnary, At, On, n
  <2>4. Conforms(val.type, TypeIn(notes, Child(n, 1)))
    BY <1>2, <2>3
  <2>5. Conforms(res.type, notes[n])
    <3>1. UnaryTyped(Ast[n].op, TypeIn(notes, Child(n, 1)), notes[n])
      BY <1>2, <2>3 DEF ExprRule
    <3>. QED  BY <1>4, <2>2, <2>4, <3>1, UnaryFits
  <2>. QED  BY <1>1, <1>2, <1>5, <2>2, <2>5, DeliverStays DEF n
<1>10. CASE AfterRight
  <2>1. PICK res \in BinaryResults(Ast[n].op, Top.v, val) :
           IF res = Fault THEN Crash ELSE Deliver(res) /\ UNCHANGED envs
    BY <1>10 DEF AfterRight, n
  <2>2. res # Fault /\ Deliver(res) /\ envs' = envs
    BY <2>1 DEF Crash
  <2>3. Kind(n) = "BINARY_OP" /\ Top.k = "after" /\ Top.i = 2
    BY <1>10 DEF AfterRight, At, On, n
  <2>4. Conforms(val.type, TypeIn(notes, Child(n, 2)))
    BY <1>2, <2>3
  <2>5. Conforms(Top.v.type, TypeIn(notes, Child(n, 1)))
    BY <1>4, <2>3 DEF Stands, n
  <2>6. Conforms(res.type, notes[n])
    <3>1. BinaryTyped(Ast[n].op, TypeIn(notes, Child(n, 1)), TypeIn(notes, Child(n, 2)), notes[n])
      BY <1>2, <2>3 DEF ExprRule
    <3>2. TypeIn(notes, Child(n, 1)) # "VOID" /\ TypeIn(notes, Child(n, 2)) # "VOID"
      BY <1>2, <1>3, <2>3
    <3>. QED  BY <1>4, <2>2, <2>4, <2>5, <3>1, <3>2, BinaryFits
  <2>. QED  BY <1>1, <1>2, <1>5, <2>2, <2>6, DeliverStays DEF n
<1>. QED  BY <1>7, <1>8, <1>9, <1>10

LEMMA LeafStays ==
  ASSUME NEW notes, NEW seen, NEW S, Setting(notes, seen, S),
         EvalLiteral \/ EvalVarRef \/ EvalUnknownCall, status' = "running"
  PROVE  Stays(notes, seen, S)
<1>1. Top.k = "eval" /\ Yields(Top)
  BY DEF EvalLiteral, EvalVarRef, EvalUnknownCall, At, Yields
<1>2. CASE EvalLiteral
  <2>1. Deliver(Typed(Ast[Top.n].type, Ast[Top.n].num)) /\ envs' = envs /\ Kind(Top.n) = "LITERAL"
    BY <1>2 DEF EvalLiteral, On
  <2>2. Conforms(Typed(Ast[Top.n].type, Ast[Top.n].num).type, TypeIn(notes, Top.n))
    BY <2>1 DEF Conforms, TypeIn, Typed
  <2>. QED  BY <1>1, <2>1, <2>2, DeliverStays
<1>3. CASE EvalVarRef
  <2>1. Deliver(env_get(Top.e, Ast[Top.n].name)) /\ envs' = envs /\ Kind(Top.n) = "VAR_REF"
    BY <1>3 DEF EvalVarRef, On
  <2>. QED  BY <1>1, <2>1, GetFits, DeliverStays
<1>4. CASE EvalUnknownCall
  <2>1. Kind(Top.n) = "CALL" /\ Callee(Top.n) = NoNode
    BY <1>4 DEF EvalUnknownCall, On
  <2>2. /\ Typable(notes, seen, Here, Top.n) /\ Top.n \in Subtree(Here)
        /\ Here \in FunctionsOf(root)
    BY <1>1, TopTyped DEF Stands
  <2>. QED  BY <2>1, <2>2, CallSound DEF Setting
<1>. QED  BY <1>2, <1>3, <1>4

-----------------------------------------------------------------------------
(* Calls.                                                                  *)

LEMMA CallHere ==
  ASSUME NEW notes, NEW seen, NEW S, Setting(notes, seen, S),
         Top.k \in Callers \/ (Top.k = "eval" /\ Kind(Top.n) = "CALL")
  PROVE  LET n == Top.n
             g == Callee(n)
         IN  /\ Kind(n) = "CALL" /\ n \in Subtree(Here) /\ Typable(notes, seen, Here, n)
             /\ g \in FunctionsOf(root) /\ g # NoNode /\ Here \in FunctionsOf(root)
             /\ Len(Ast[n].args) = Len(ParamsOf(g)) /\ Len(ParamsOf(g)) \in Nat
             /\ \A i \in 1 .. Len(Ast[n].args) :
                   LET a == Ast[n].args[i]
                   IN  /\ a \in Subtree(Here) /\ a \in Node
                       /\ ExprTyped(root, Here, notes, seen, a)
                       /\ Typable(notes, seen, Here, a)
                       /\ Kind(a) = "LITERAL" \/ seen[a] = seen[n]
                       /\ Conforms(TypeIn(notes, a), ParamsOf(g)[i].type)
             /\ \A i \in 1 .. Len(ParamsOf(g)) :
                   /\ ParamsOf(g)[i].name \in VarName /\ ParamsOf(g)[i].type \in DataType
             /\ ~DeclaresIn(Here, Top) /\ ~MustEnd(Top) /\ SeenBy(seen, Here, Top) = seen[n]
             /\ Inner /\ Top.n \in Node /\ Top.i \in Nat \ {0} /\ Top \in Frame
             /\ Top.k # "body" => ~returning
<1>1. Stands(notes, seen, Here, Top) /\ Here \in FunctionsOf(root) /\ Top \in Frame
  BY TopTyped
<1>2. Kind(Top.n) = "CALL" /\ Yields(Top)
  BY <1>1 DEF Stands, Yields, Callers
<1>3. Top.n \in Subtree(Here) /\ Typable(notes, seen, Here, Top.n)
  BY <1>1, <1>2 DEF Stands, Callers
<1>4. ~DeclaresIn(Here, Top) /\ ~MustEnd(Top) /\ SeenBy(seen, Here, Top) = seen[Top.n] /\ Inner
  BY <1>2 DEF DeclaresIn, MustEnd, SeenBy, Inner, Callers
<1>5. Top.k # "body" => ~returning
  BY Working DEF Setting, Unwinds, Callers
<1>6. Top.n \in Node /\ Top.i \in Nat \ {0}
  BY Activation DEF Setting
<1>7. Callee(Top.n) \in FunctionsOf(root)
  BY <1>1, <1>2, <1>3, CallSound DEF Setting
<1>8. \A i \in 1 .. Len(ParamsOf(Callee(Top.n))) :
         /\ ParamsOf(Callee(Top.n))[i].name \in VarName
         /\ ParamsOf(Callee(Top.n))[i].type \in DataType
  BY <1>7, FunctionIs DEF Setting, Agreed
<1>. QED  BY <1>1, <1>2, <1>3, <1>4, <1>5, <1>6, <1>8, CallSound DEF Setting

(* Nothing changes but the Env `new', which the caller does not see.       *)
Aside(S, S2, h2, new) ==
    /\ \A d \in EnvId : d # new => S2[d] = S[d] /\ h2[d].chain = envs[d].chain
    /\ \A c \in 1 .. Len(envs[Top.e].chain) : envs[Top.e].chain[c] # new

LEMMA CallerSees ==
  ASSUME NEW notes, NEW seen, NEW S, Setting(notes, seen, S),
         Top.k \in Callers \/ Top.k = "eval",
         NEW S2, NEW h2, NEW new \in EnvId, Aside(S, S2, h2, new),
         NEW u, u.n = Top.n, u.e = Top.e, u.f = new, u.k \in Callers
  PROVE  Surrounded(S2, h2, Here, u) /\ Sees(seen, S2, h2, Here, u)
<1>. DEFINE chain == envs[Top.e].chain
<1>1. /\ Top.e \in EnvId /\ Len(chain) \in Nat \ {0} /\ chain[1] = Top.e
      /\ \A c \in 1 .. Len(chain) : chain[c] \in EnvId
  <2>1. Len(ctl) \in 1 .. Len(ctl) /\ Top = ctl[Len(ctl)]
    BY TopTyped
  <2>. QED  BY <2>1, ChainOwned DEF Setting
<1>2. /\ Surrounded(S, envs, Here, Top) /\ Sees(seen, S, envs, Here, Top)
  BY TopTyped
<1>. HIDE DEF chain
<1>3. Top.e # new
  BY <1>1 DEF chain, Aside
<1>4. h2[Top.e].chain = chain /\ \A c \in 1 .. Len(chain) : S2[chain[c]] = S[chain[c]]
  BY <1>1, <1>3 DEF chain, Aside
<1>5. Surrounded(S2, h2, Here, u)
  <2>1. ~S[Top.e].args
    BY <1>2 DEF Surrounded, Callers
  <2>2. \A c \in 1 .. Len(chain) : S2[chain[c]].fun = Here
    BY <1>2, <1>4 DEF Surrounded, chain
  <2>3. S2[Top.e] = S[Top.e]
    BY <1>1, <1>3 DEF Aside
  <2>4. \A c \in 1 .. Len(chain) : chain[c] # new
    BY DEF chain, Aside
  <2>. QED  BY <1>4, <2>1, <2>2, <2>3, <2>4 DEF Surrounded
<1>6. Sees(seen, S2, h2, Here, u)
  <2>1. SeenBy(seen, Here, u) = seen[Top.n] /\ SeenBy(seen, Here, Top) = seen[Top.n]
    BY DEF SeenBy, Callers
  <2>2. ASSUME NEW x, NEW type, TypeSeen(S, chain, x, type)
        PROVE  TypeSeen(S2, chain, x, type)
    BY <1>4, <2>2 DEF TypeSeen
  <2>. QED  BY <1>2, <1>4, <2>1, <2>2 DEF Sees, Models, chain
<1>. QED  BY <1>5, <1>6

LEMMA EvalCallStays ==
  ASSUME NEW notes, NEW seen, NEW S, Setting(notes, seen, S), EvalCall
  PROVE  \E S2 \in [EnvId -> Desc] : Stays(notes, seen, S2)
<1>. DEFINE n == Top.n
            g == Callee(n)
            u == [As("args") EXCEPT !.f = FreshEnv]
            S2 == [S EXCEPT ![FreshEnv] = Described(g, TRUE)]
<1>1. /\ Top.k = "eval" /\ Kind(n) = "CALL" /\ ~HeapFull /\ ctl' = Become(u)
      /\ envs' = env_create(NoEnv) /\ returning' = returning
  BY DEF EvalCall, At, On
<1>2. /\ n \in Subtree(Here) /\ Typable(notes, seen, Here, n) /\ Here \in FunctionsOf(root)
      /\ g \in FunctionsOf(root) /\ Len(ParamsOf(g)) \in Nat
      /\ ~DeclaresIn(Here, Top) /\ ~MustEnd(Top) /\ ~returning /\ Top \in Frame
  BY <1>1, CallHere
<1>3. /\ S2 \in [EnvId -> Desc] /\ S2[FreshEnv] = Described(g, TRUE)
      /\ \A d \in EnvId : d # FreshEnv => S2[d] = S[d] /\ envs'[d] = envs[d]
      /\ FreshEnv \in EnvId /\ ~Live(FreshEnv)
      /\ Untouched(S, S2, envs', Len(ctl)) /\ SlotsFit(S2, envs')
  BY <1>1, <1>2, Created
<1>4. u.k = "args" /\ u.n = n /\ u.e = Top.e /\ u.f = FreshEnv /\ u.i = Top.i
  <2>1. As("args") \in Frame /\ As("args").k = "args" /\ As("args").n = n
        /\ As("args").e = Top.e /\ As("args").i = Top.i
    BY <1>2, WithKind DEF As, FrameKind
  <2>. QED  BY <1>3, <2>1, WithCallee
<1>. HIDE DEF u, S2
<1>5. Surrounded(S2, envs', Here, u) /\ Sees(seen, S2, envs', Here, u)
  <2>1. \A c \in 1 .. Len(envs[Top.e].chain) : envs[Top.e].chain[c] # FreshEnv
    <3>1. Len(ctl) \in 1 .. Len(ctl) /\ Top = ctl[Len(ctl)]
      BY TopTyped
    <3>. QED  BY <1>3, <3>1, ChainOwned DEF Setting
  <2>2. \A d \in EnvId : d # FreshEnv => S2[d] = S[d] /\ envs'[d].chain = envs[d].chain
    BY <1>3
  <2>3. u.k \in Callers /\ FreshEnv \in EnvId /\ Top.k = "eval"
    BY <1>1, <1>3, <1>4 DEF Callers
  <2>4. Aside(S, S2, envs', FreshEnv)
    BY <2>1, <2>2 DEF Aside
  <2>. QED  BY <1>4, <2>3, <2>4, CallerSees
<1>6. Stands(notes, seen, Here, u)
  <2>1. Top.i = 1
    BY <1>1, TopTyped DEF Stands
  <2>. QED  BY <1>1, <1>2, <1>4, <2>1 DEF Stands, Yields, RunsAsStmt, Callers
<1>7. Knows(S2, u)
  <2>1. /\ Described(g, TRUE).fun = g /\ Described(g, TRUE).args
        /\ NothingIn(Described(g, TRUE).types)
    BY <1>2, DescribedIs DEF Setting, Agreed
  <2>2. u.i - 1 = 0
    BY <1>1, <1>4, TopTyped DEF Stands
  <2>3. FirstParams(g, S2[FreshEnv].types, 0)
    <3>1. NothingIn(S2[FreshEnv].types)
      BY <1>3, <2>1
    <3>2. \A j \in 1 .. 0 : FALSE
      OBVIOUS
    <3>. QED  BY <3>1, <3>2 DEF FirstParams, NothingIn
  <2>. QED  BY <1>3, <1>4, <2>1, <2>2, <2>3 DEF Knows, Callers
<1>8. InPlace(notes, seen, S2, envs', Here, u)
  BY <1>2, <1>5, <1>6, <1>7 DEF InPlace
<1>9. ~AwaitsTyped(u) /\ u.k # "body" /\ Replaces(Here, Top, u)
  BY <1>2, <1>4 DEF AwaitsTyped, Replaces, DeclaresIn
<1>10. Stays(notes, seen, S2)
  BY <1>1, <1>2, <1>3, <1>5, <1>8, <1>9, BecomeStays
<1>. QED  BY <1>3, <1>10

LEMMA EvalArgumentStays ==
  ASSUME NEW notes, NEW seen, NEW S, Setting(notes, seen, S), EvalArgument
  PROVE  Stays(notes, seen, S)
<1>. DEFINE n == Top.n
            a == Ast[n].args[Top.i]
            u == As("bind")
<1>1. /\ Top.k = "args" /\ MoreArguments /\ ctl' = Call(u, Eval(a, Top.e))
      /\ envs' = envs /\ returning' = returning
  BY DEF EvalArgument, At, Continue
<1>2. /\ n \in Subtree(Here) /\ Typable(notes, seen, Here, n) /\ Kind(n) = "CALL"
      /\ ~DeclaresIn(Here, Top) /\ ~MustEnd(Top) /\ ~returning /\ Top \in Frame /\ Inner
      /\ SeenBy(seen, Here, Top) = seen[n] /\ Top.i \in Nat \ {0}
  BY <1>1, CallHere DEF Callers
<1>3. /\ Top.i \in 1 .. Len(Ast[n].args) /\ Top.i <= Len(ParamsOf(Callee(n)))
      /\ a \in Subtree(Here)
      /\ ExprTyped(root, Here, notes, seen, a) /\ Typable(notes, seen, Here, a)
      /\ Kind(a) = "LITERAL" \/ seen[a] = seen[n]
  <2>1. Top.i \in 1 .. Len(Ast[n].args) /\ Top.i <= Len(ParamsOf(Callee(n)))
    <3>1. Len(Ast[n].args) \in Nat
      BY <1>1, CallHere DEF Callers
    <3>. QED  BY <1>1, <1>2, <3>1 DEF MoreArguments, ParamsOf
  <2>. QED  BY <1>1, <2>1, CallHere DEF Callers
<1>4. u.k = "bind" /\ u.n = n /\ u.e = Top.e /\ u.i = Top.i /\ u.f = Top.f
  BY <1>2, WithKind DEF As, FrameKind
<1>5. Stands(notes, seen, Here, Top) /\ Knows(S, Top) /\ Surrounded(S, envs, Here, Top)
  BY TopTyped
<1>. HIDE DEF u, a
<1>6. Stands(notes, seen, Here, u)
  BY <1>1, <1>2, <1>3, <1>4, <1>5 DEF Stands, Yields, RunsAsStmt, Callers
<1>7. Knows(S, u)
  BY <1>1, <1>4, <1>5 DEF Knows, Callers
<1>8. Surrounded(S, envs, Here, u)
  BY <1>1, <1>4, <1>5 DEF Surrounded
<1>9. AwaitedOf(u) = a /\ ~DeclaresIn(Here, u)
  BY <1>4 DEF AwaitedOf, DeclaresIn, a
<1>10. Kind(n) # "LITERAL" /\ a \in Subtree(Here)
  BY <1>2, <1>3
<1>. QED  BY <1>1, <1>2, <1>3, <1>4, <1>6, <1>7, <1>8, <1>9, <1>10, EvaluateStays

(* Parameters of the same name have the same type.                         *)
LEMMA SameParam ==
  ASSUME NEW notes, NEW seen, Agreed(notes, seen), NEW g \in FunctionsOf(root),
         NEW i \in 1 .. Len(ParamsOf(g)), NEW j \in 1 .. Len(ParamsOf(g)),
         ParamsOf(g)[i].name = ParamsOf(g)[j].name
  PROVE  ParamsOf(g)[i].type = ParamsOf(g)[j].type
<1>1. ParamsSeen(g, seen[Child(g, 1)])
  BY DEF Agreed, WellTyped, FunctionTyped
<1>. QED  BY <1>1 DEF ParamsSeen

LEMMA BindStays ==
  ASSUME NEW notes, NEW seen, NEW S, Setting(notes, seen, S), BindArgument
  PROVE  \E S2 \in [EnvId -> Desc] : Stays(notes, seen, S2)
<1>. DEFINE n == Top.n
            g == Callee(n)
            i == Top.i
            x == ParamsOf(g)[i].name
            type == ParamsOf(g)[i].type
            u == [As("args") EXCEPT !.i = @ + 1]
            S2 == [S EXCEPT ![Top.f].types[x] = type]
<1>1. /\ Top.k = "bind" /\ ctl' = Become(u)
      /\ envs' = env_define(Top.f, x, val) /\ returning' = returning
  BY DEF BindArgument, At, ParamsOf
<1>2. /\ n \in Subtree(Here) /\ Typable(notes, seen, Here, n) /\ Here \in FunctionsOf(root)
      /\ g \in FunctionsOf(root) /\ Len(ParamsOf(g)) \in Nat /\ Kind(n) = "CALL"
      /\ ~DeclaresIn(Here, Top) /\ ~MustEnd(Top) /\ ~returning /\ Top \in Frame
      /\ Len(Ast[n].args) = Len(ParamsOf(g)) /\ i \in Nat \ {0}
  BY <1>1, CallHere DEF Callers
<1>3. /\ Stands(notes, seen, Here, Top) /\ Knows(S, Top) /\ Surrounded(S, envs, Here, Top)
      /\ SlotsFit(S, envs) /\ val \in Value /\ S \in [EnvId -> Desc]
  BY TopTyped, Same DEF Setting
<1>4. i \in 1 .. Len(ParamsOf(g)) /\ i \in 1 .. Len(Ast[n].args)
  BY <1>1, <1>2, <1>3 DEF Stands
<1>5. /\ x \in VarName /\ type \in DataType /\ type # NoType
      /\ Conforms(val.type, type)
  <2>1. x \in VarName /\ type \in DataType
    BY <1>2, <1>4, FunctionIs DEF Setting, Agreed
  <2>2. Conforms(val.type, TypeIn(notes, Ast[n].args[i]))
    <3>1. AwaitsTyped(Top) /\ AwaitedOf(Top) = Ast[n].args[i]
      BY <1>1 DEF AwaitsTyped, AwaitedOf
    <3>. QED  BY <3>1, TopTyped DEF Arrived
  <2>3. Conforms(TypeIn(notes, Ast[n].args[i]), type)
    BY <1>1, <1>4, CallHere DEF Callers
  <2>4. Conforms(val.type, type)
    BY <2>2, <2>3, ConformsOn
  <2>. QED  BY <2>1, <2>4 DEF DataType, NoType
<1>6. Top.f \in EnvId /\ Owned(Top) = Top.f /\ S[Top.f].fun = g /\ S[Top.f].args
  <2>1. Top.f \in EnvId
    <3>1. CallFrame(Top)
      BY Activation DEF Setting
    <3>. QED  BY <1>1, <3>1 DEF CallFrame
  <2>. QED  BY <1>1, <1>3, <2>1 DEF Knows, Callers, Owned
<1>7. u.k = "args" /\ u.n = n /\ u.e = Top.e /\ u.f = Top.f /\ u.i = i + 1
  <2>1. As("args") \in Frame /\ As("args").k = "args" /\ As("args").n = n
        /\ As("args").e = Top.e /\ As("args").i = i /\ As("args").f = Top.f
    BY <1>2, WithKind DEF As, FrameKind
  <2>2. i + 1 \in Nat \ {0}
    BY <1>2
  <2>. QED  BY <2>1, <2>2, WithIndex
<1>. HIDE DEF u, x, type, i
<1>8. /\ S2 \in [EnvId -> Desc] /\ \A d \in EnvId : d # Top.f => S2[d] = S[d]
      /\ S2[Top.f].fun = S[Top.f].fun /\ S2[Top.f].args = S[Top.f].args
      /\ \A y \in VarName : S2[Top.f].types[y] = IF y = x THEN type ELSE S[Top.f].types[y]
  <2>1. S[Top.f] \in Desc /\ S[Top.f].types \in VarTypes
    BY <1>3, <1>6 DEF Desc
  <2>2. [S[Top.f].types EXCEPT ![x] = type] \in VarTypes
    BY <1>5, <2>1 DEF VarTypes
  <2>3. S2[Top.f] = [S[Top.f] EXCEPT !.types = [S[Top.f].types EXCEPT ![x] = type]]
    BY <1>3, <1>6
  <2>4. [S[Top.f] EXCEPT !.types = [S[Top.f].types EXCEPT ![x] = type]] \in Desc
    BY <2>1, <2>2 DEF Desc
  <2>5. \A d \in EnvId : d # Top.f => S2[d] = S[d]
    BY <1>3, <1>6
  <2>6. S2 \in [EnvId -> Desc]
    <3>1. S2 = [d \in EnvId |-> IF d = Top.f THEN S2[Top.f] ELSE S[d]]
      BY <1>3, <1>6
    <3>2. \A d \in EnvId : (IF d = Top.f THEN S2[Top.f] ELSE S[d]) \in Desc
      BY <1>3, <2>3, <2>4
    <3>. QED  BY <3>1, <3>2
  <2>7. S2[Top.f].types = [S[Top.f].types EXCEPT ![x] = type]
    BY <2>1, <2>3 DEF Desc
  <2>8. S2[Top.f].fun = S[Top.f].fun /\ S2[Top.f].args = S[Top.f].args
    BY <2>1, <2>3 DEF Desc
  <2>9. \A y \in VarName : S2[Top.f].types[y] = IF y = x THEN type ELSE S[Top.f].types[y]
    BY <2>1, <2>7 DEF VarTypes
  <2>. QED  BY <2>5, <2>6, <2>8, <2>9
<1>. HIDE DEF S2
<1>9. Surrounded(S2, envs', Here, u) /\ Sees(seen, S2, envs', Here, u)
  <2>1. \A d \in EnvId : envs'[d].chain = envs[d].chain
    BY <1>1, DefineKeepsChains DEF Setting
  <2>2. Aside(S, S2, envs', Top.f)
    BY <1>1, <1>3, <1>8, <2>1 DEF Aside, Surrounded
  <2>. QED  BY <1>1, <1>6, <1>7, <2>2, CallerSees DEF Callers
<1>10. Stands(notes, seen, Here, u)
  <2>1. u.i <= Len(ParamsOf(g)) + 1
    BY <1>2, <1>4, <1>7
  <2>. QED  BY <1>2, <1>7, <2>1 DEF Stands, Yields, RunsAsStmt, Callers
<1>11. Knows(S2, u)
  <2>1. u.i - 1 = i
    BY <1>2, <1>7
  <2>2. FirstParams(g, S[Top.f].types, i - 1)
    BY <1>1, <1>3 DEF Knows, Callers, i
  <2>3. FirstParams(g, S2[Top.f].types, i)
    <3>1. ASSUME NEW j \in 1 .. i
          PROVE  S2[Top.f].types[ParamsOf(g)[j].name] = ParamsOf(g)[j].type
      <4>1. j \in 1 .. Len(ParamsOf(g))
        BY <1>2, <1>4
      <4>2. ParamsOf(g)[j].name \in VarName
        BY <1>2, <4>1, FunctionIs DEF Setting, Agreed
      <4>3. CASE ParamsOf(g)[j].name = x
        <5>1. ParamsOf(g)[j].type = type
          BY <1>2, <1>4, <4>1, <4>3, SameParam DEF x, type, Setting
        <5>. QED  BY <1>8, <4>2, <4>3, <5>1
      <4>4. CASE ParamsOf(g)[j].name # x
        <5>1. j \in 1 .. i - 1
          BY <1>2, <4>4 DEF x
        <5>. QED  BY <1>8, <2>2, <4>2, <4>4, <5>1 DEF FirstParams
      <4>. QED  BY <4>3, <4>4
    <3>2. ASSUME NEW y \in VarName, y \notin {ParamsOf(g)[j].name : j \in 1 .. i}
          PROVE  S2[Top.f].types[y] = NoType
      <4>1. y # x /\ y \notin {ParamsOf(g)[j].name : j \in 1 .. i - 1}
        BY <1>2, <3>2 DEF x
      <4>. QED  BY <1>8, <2>2, <4>1 DEF FirstParams
    <3>. QED  BY <3>1, <3>2 DEF FirstParams
  <2>. QED  BY <1>6, <1>7, <1>8, <2>1, <2>3 DEF Knows, Callers
<1>12. InPlace(notes, seen, S2, envs', Here, u)
  BY <1>2, <1>9, <1>10, <1>11 DEF InPlace
<1>13. ~AwaitsTyped(u) /\ u.k # "body" /\ Replaces(Here, Top, u)
  BY <1>2, <1>7 DEF AwaitsTyped, Replaces, DeclaresIn
<1>14. Untouched(S, S2, envs', Len(ctl))
  <2>1. Len(ctl) \in Len(ctl) .. Len(ctl) /\ Top = ctl[Len(ctl)]
    BY TopTyped
  <2>2. \A d \in EnvId : envs'[d].chain = envs[d].chain
    BY <1>1, DefineKeepsChains DEF Setting
  <2>. QED  BY <1>6, <1>8, <2>1, <2>2 DEF Untouched
<1>15. SlotsFit(S2, envs')
  <2>1. x \in LooseNames(g) => type = "INT"
    BY <1>2, <1>4 DEF x, type, Setting, Agreed, LooseAreInts
  <2>2. S2[Top.f].types[x] = type
    BY <1>5, <1>8
  <2>3. \A y \in VarName : y # x => S2[Top.f].types[y] = S[Top.f].types[y]
    BY <1>8
  <2>. QED  BY <1>1, <1>3, <1>5, <1>6, <1>8, <2>1, <2>2, <2>3, DefineFits DEF Setting
<1>16. Stays(notes, seen, S2)
  BY <1>1, <1>2, <1>9, <1>12, <1>13, <1>14, <1>15, BecomeStays
<1>. QED  BY <1>8, <1>16

LEMMA EnterBodyStays ==
  ASSUME NEW notes, NEW seen, NEW S, Setting(notes, seen, S), EnterBody
  PROVE  Stays(notes, seen, S)
<1>. DEFINE n == Top.n
            g == Callee(n)
            u == [As("body") EXCEPT !.i = 1, !.v = return_val, !.r = returning]
<1>1. /\ Top.k = "args" /\ ~MoreArguments /\ ctl' = Become(u)
      /\ envs' = envs /\ returning' = FALSE
  BY DEF EnterBody, At
<1>2. /\ n \in Subtree(Here) /\ Typable(notes, seen, Here, n) /\ Here \in FunctionsOf(root)
      /\ g \in FunctionsOf(root) /\ Len(ParamsOf(g)) \in Nat /\ Kind(n) = "CALL"
      /\ ~DeclaresIn(Here, Top) /\ ~MustEnd(Top) /\ ~returning /\ Top \in Frame
      /\ Len(Ast[n].args) = Len(ParamsOf(g)) /\ Top.i \in Nat \ {0}
      /\ SeenBy(seen, Here, Top) = seen[n]
  BY <1>1, CallHere DEF Callers
<1>3. /\ Stands(notes, seen, Here, Top) /\ Knows(S, Top) /\ Surrounded(S, envs, Here, Top)
      /\ SlotsFit(S, envs) /\ Sees(seen, S, envs, Here, Top)
  BY TopTyped
<1>4. u.k = "body" /\ u.n = n /\ u.e = Top.e /\ u.f = Top.f /\ u.i = 1
  BY <1>2 DEF As, Frame
<1>. HIDE DEF u
<1>5. Top.i - 1 = Len(ParamsOf(g))
  <2>1. ~(Top.i <= Len(ParamsOf(g)))
    BY <1>1, <1>2 DEF MoreArguments, ParamsOf
  <2>2. Top.i <= Len(ParamsOf(g)) + 1
    BY <1>1, <1>3 DEF Stands
  <2>. QED  BY <1>2, <2>1, <2>2
<1>6. Stands(notes, seen, Here, u)
  BY <1>2, <1>4 DEF Stands, Yields, RunsAsStmt, Callers
<1>7. Knows(S, u)
  BY <1>1, <1>3, <1>4, <1>5 DEF Knows, Callers
<1>8. Surrounded(S, envs, Here, u)
  BY <1>1, <1>3, <1>4 DEF Surrounded
<1>9. Sees(seen, S, envs, Here, u)
  <2>1. SeenBy(seen, Here, u) = seen[n]
    BY <1>4 DEF SeenBy
  <2>. QED  BY <1>2, <1>3, <1>4, <2>1 DEF Sees
<1>10. InPlace(notes, seen, S, envs, Here, u)
  BY <1>2, <1>6, <1>7, <1>8 DEF InPlace
<1>11. ~AwaitsTyped(u) /\ u.i = 1 /\ Replaces(Here, Top, u)
  BY <1>2, <1>4 DEF AwaitsTyped, Replaces, DeclaresIn
<1>12. Untouched(S, S, envs', Len(ctl))
  BY <1>1, Unchanging DEF Setting
<1>. QED  BY <1>1, <1>2, <1>3, <1>9, <1>10, <1>11, <1>12, BecomeStays

LEMMA BodyStays ==
  ASSUME NEW notes, NEW seen, NEW S, Setting(notes, seen, S), BodyStatement
  PROVE  Stays(notes, seen, S)
<1>. DEFINE n == Top.n
            g == Callee(n)
            u == [Top EXCEPT !.i = @ + 1]
            w == Exec(Child(g, Top.i), Top.f)
<1>1. /\ Top.k = "body" /\ ~returning /\ Top.i <= Children(g) /\ ctl' = Call(u, w)
      /\ envs' = envs /\ returning' = returning
  BY DEF BodyStatement, At, Continue
<1>2. /\ n \in Subtree(Here) /\ Typable(notes, seen, Here, n) /\ Here \in FunctionsOf(root)
      /\ g \in FunctionsOf(root) /\ Len(ParamsOf(g)) \in Nat /\ Kind(n) = "CALL"
      /\ ~DeclaresIn(Here, Top) /\ ~MustEnd(Top) /\ Top \in Frame
      /\ SeenBy(seen, Here, Top) = seen[n] /\ Top.i \in Nat \ {0}
  BY <1>1, CallHere DEF Callers
<1>3. /\ Stands(notes, seen, Here, Top) /\ Knows(S, Top) /\ Surrounded(S, envs, Here, Top)
      /\ SlotsFit(S, envs) /\ Sees(seen, S, envs, Here, Top)
  BY TopTyped
<1>4. /\ Top.i = 1 /\ Child(g, 1) \in Subtree(g) /\ Kind(Child(g, 1)) = "BLOCK"
      /\ Child(g, 1) \in Node
  BY <1>1, <1>2, FunctionIs DEF Setting, Agreed
<1>5. u.k = "body" /\ u.n = n /\ u.e = Top.e /\ u.f = Top.f
  BY <1>1, <1>2 DEF Frame
<1>6. w.k = "exec" /\ w.n = Child(g, 1) /\ w.e = Top.f /\ w = NewFrame("exec", Child(g, 1), Top.f)
  BY <1>4 DEF Exec, NewFrame
<1>. HIDE DEF u, w
<1>7. InPlace(notes, seen, S, envs, Here, u)
  <2>1. Stands(notes, seen, Here, u)
    BY <1>2, <1>5 DEF Stands, Yields, RunsAsStmt, Callers
  <2>2. Knows(S, u)
    BY <1>1, <1>3, <1>5 DEF Knows, Callers
  <2>3. Surrounded(S, envs, Here, u)
    BY <1>1, <1>3, <1>5 DEF Surrounded
  <2>. QED  BY <1>2, <2>1, <2>2, <2>3 DEF InPlace
<1>8. Sees(seen, S, envs, Here, u)
  <2>1. SeenBy(seen, Here, u) = seen[n]
    BY <1>5 DEF SeenBy
  <2>. QED  BY <1>2, <1>3, <1>5, <2>1 DEF Sees
<1>9. /\ Top.f \in EnvId /\ envs[Top.f].chain = <<Top.f>>
      /\ S[Top.f].fun = g /\ FirstParams(g, S[Top.f].types, Len(ParamsOf(g)))
  <2>1. CallFrame(Top) /\ FrameOK(Top, envs)
    BY Activation, HeapFacts DEF Setting
  <2>. QED  BY <1>1, <1>3, <2>1 DEF CallFrame, FrameOK, Knows, Callers
<1>10. InPlace(notes, seen, S, envs, g, w)
  <2>1. \A c \in 1 .. Len(envs[Top.f].chain) : S[envs[Top.f].chain[c]].fun = g
    BY <1>9
  <2>. QED  BY <1>2, <1>4, <1>6, <2>1, PlaceNew
<1>11. Sees(seen, S, envs, g, w)
  <2>1. ParamsSeen(g, seen[Child(g, 1)])
    BY <1>2 DEF Setting, Agreed, WellTyped, FunctionTyped
  <2>2. ASSUME NEW x \in VarName \ LooseNames(g)
        PROVE  S[Top.f].types[x] = seen[Child(g, 1)][x]
    <3>1. CASE \E i \in 1 .. Len(ParamsOf(g)) : ParamsOf(g)[i].name = x
      BY <1>9, <2>1, <3>1 DEF ParamsSeen, TypeOfVariable, FirstParams
    <3>2. CASE ~\E i \in 1 .. Len(ParamsOf(g)) : ParamsOf(g)[i].name = x
      BY <1>9, <2>1, <3>2 DEF ParamsSeen, FirstParams
    <3>. QED  BY <3>1, <3>2
  <2>3. ASSUME NEW x \in VarName \ LooseNames(g)
        PROVE  TypeSeen(S, <<Top.f>>, x, seen[Child(g, 1)][x])
    <3>1. Len(<<Top.f>>) = 1 /\ <<Top.f>>[1] = Top.f
      OBVIOUS
    <3>2. S[Top.f].types[x] = seen[Child(g, 1)][x]
      BY <2>2
    <3>3. 1 \in 1 .. 1 /\ \A d \in 1 .. 1 - 1 : FALSE
      OBVIOUS
    <3>4. \A c \in 1 .. 1 : c = 1
      OBVIOUS
    <3>. HIDE DEF g
    <3>. QED  BY <3>1, <3>2, <3>3, <3>4 DEF TypeSeen
  <2>4. SeenBy(seen, g, w) = seen[Child(g, 1)]
    BY <1>6 DEF SeenBy
  <2>. QED  BY <1>6, <1>9, <2>3, <2>4 DEF Sees, Models
<1>12. Under(u) = g /\ ~DeclaresIn(g, w) /\ Replaces(Here, Top, u)
  BY <1>2, <1>4, <1>5, <1>6 DEF Under, DeclaresIn, Replaces
<1>13. Linked(notes, seen, g, u, w)
  BY <1>5, <1>12 DEF Linked, AwaitsTyped
<1>14. Ast[g].type # "VOID" => MustEnd(w)
  <2>1. AlwaysReturns(g)
    BY <1>2 DEF Setting, Agreed
  <2>. QED  BY <1>6, <2>1 DEF AlwaysReturns, MustEnd
<1>15. Untouched(S, S, envs', Len(ctl)) /\ SlotsFit(S, envs')
  BY <1>1, <1>3, Unchanging DEF Setting
<1>16. u.k = "body" /\ Ast[Callee(u.n)].type # "VOID" => MustEnd(w)
  BY <1>5, <1>14
<1>. HIDE DEF g, n
<1>. QED
  <2>1. InPlace(notes, seen, S, envs', Here, u) /\ InPlace(notes, seen, S, envs', Under(u), w)
    BY <1>1, <1>7, <1>10, <1>12
  <2>2. Sees(seen, S, envs', Under(u), w) /\ Sees(seen, S, envs', Here, u)
    BY <1>1, <1>8, <1>11, <1>12
  <2>3. Linked(notes, seen, Under(u), u, w) /\ w.k \in {"eval", "exec"} /\ ~returning'
    BY <1>1, <1>6, <1>12, <1>13
  <2>. QED  BY <1>1, <1>2, <1>12, <1>15, <1>16, <2>1, <2>2, <2>3, CallStays

LEMMA LeaveBodyStays ==
  ASSUME NEW notes, NEW seen, NEW S, Setting(notes, seen, S), LeaveBody
  PROVE  Stays(notes, seen, S)
<1>. DEFINE n == Top.n
            g == Callee(n)
<1>2. Top.k = "body"
  BY DEF LeaveBody, At
<1>3. ~returning'
  BY <1>2, TopIsQuiet DEF LeaveBody, Setting, Quiet
<1>4. /\ n \in Subtree(Here) /\ Typable(notes, seen, Here, n) /\ n \in Node
      /\ ~DeclaresIn(Here, Top) /\ ~MustEnd(Top) /\ Kind(n) = "CALL"
  BY <1>2, CallHere DEF Callers
<1>5. Owned(Top) = Top.f /\ Top.f # NoEnv
  <2>1. CallFrame(Top)
    BY Activation DEF Setting
  <2>. QED  BY <1>2, <2>1, EnvAssumption DEF CallFrame, Owned
<1>6. ctl' = Pop /\ envs' = env_free(Top.f) /\ val' = return_val
  BY DEF LeaveBody
<1>7. StackTyped(notes, seen, S, Pop, envs') /\ SlotsFit(S, envs')
  <2>1. Untouched(S, S, envs', Len(ctl))
    BY <1>5, <1>6, Unchanging DEF Setting
  <2>2. SlotsFit(S, envs')
    BY <1>6, FreeFits, TopTyped DEF Setting
  <2>. QED  BY <1>4, <2>1, <2>2, PopTyped
<1>8. \A k \in 1 .. Len(Pop) : WillReturn(Pop, k, returning')
  BY <1>2, <1>4, PromisePop
<1>9. ReturnFits(g, return_val)
  <2>1. returning \/ Top.i > Children(g)
    BY DEF LeaveBody
  <2>. QED  BY <1>2, <2>1, PromiseKept
<1>10. Arrived(notes, Pop[Len(Pop)], val')
  <2>1. ASSUME ExprTyped(root, Here, notes, seen, n)
        PROVE  Conforms(return_val.type, TypeIn(notes, n))
    <3>1. CallTyped(root, notes, n) /\ HasType(notes, n)
      BY <1>4, <2>1, ExpressionDown DEF ExprRule
    <3>2. TypeIn(notes, n) = Ast[g].type /\ TypeIn(notes, n) # "VOID"
      <4>1. TypeIn(notes, n) # "VOID"
        BY <1>4, <3>1, TypeKnown DEF Setting
      <4>. QED  BY <1>4, <3>1, <4>1 DEF CallTyped, Callee, TypeIn
    <3>. QED  BY <1>9, <3>2 DEF ReturnFits
  <2>. QED  BY <1>2, <1>6, <2>1, PopArrives
<1>. QED  BY <1>3, <1>6, <1>7, <1>8, <1>10 DEF Stays

-----------------------------------------------------------------------------
(* Statements.                                                             *)

LEMMA StmtHere ==
  ASSUME NEW notes, NEW seen, NEW S, Setting(notes, seen, S),
         Top.k \in {"exec", "after", "loop", "update"}, Kind(Top.n) \in StmtKind
  PROVE  LET n == Top.n
         IN  /\ n \in Subtree(Here) /\ n \in Node /\ RunsAsStmt(Top) /\ ~Yields(Top)
             /\ Here \in FunctionsOf(root) /\ Top \in Frame
             /\ StmtRule(root, Here, notes, seen, n)
             /\ Children(n) \in Nat /\ WellShaped(n)
             /\ \A i \in 1 .. Children(n) :
                   /\ Child(n, i) \in Subtree(Here) /\ Child(n, i) \in Node
                   /\ i \in ExprChildren(n) =>
                         /\ ExprTyped(root, Here, notes, seen, Child(n, i))
                         /\ Typable(notes, seen, Here, Child(n, i))
                         /\ TypeIn(notes, Child(n, i)) # "VOID"
                   /\ i \notin ExprChildren(n) /\ Kind(Child(n, i)) = "CALL"
                         => Child(n, i) \in CallStatements(Here)
                   /\ Kind(n) \in {"IF", "WHILE", "FOR"} /\ Kind(Child(n, i)) = "VAR_DECL"
                         => Ast[Child(n, i)].name \in LooseNames(Here)
                   /\ Kind(n) # "BLOCK" => seen[Child(n, i)] = seen[n]
             /\ Top.k = "after" =>
                   /\ Top.i = 1 /\ AwaitedIndex(Top) \in ExprChildren(n)
                   /\ Conforms(val.type, TypeIn(notes, Child(n, AwaitedIndex(Top))))
             /\ Top.k # "loop" => SeenBy(seen, Here, Top) = seen[n]
             /\ Top.k \in {"exec", "after"} => ~returning
<1>. DEFINE n == Top.n
<1>1. /\ n \in Node /\ Stands(notes, seen, Here, Top) /\ Here \in FunctionsOf(root)
      /\ Top \in Frame
  BY TopTyped, Activation DEF Setting
<1>2. n \in Subtree(Here) /\ RunsAsStmt(Top) /\ ~Yields(Top) /\ ~Operator(Top)
  BY <1>1 DEF Stands, RunsAsStmt, Yields, Operator, StmtKind
<1>3. StmtRule(root, Here, notes, seen, n)
  BY <1>1, <1>2, Statement DEF Setting
<1>4. Children(n) \in Nat /\ WellShaped(n)
  BY <1>1, ChildCount, AstAssumption
<1>5. ASSUME NEW i \in 1 .. Children(n)
      PROVE  /\ Child(n, i) \in Subtree(Here) /\ Child(n, i) \in Node
             /\ i \in ExprChildren(n) =>
                   /\ ExprTyped(root, Here, notes, seen, Child(n, i))
                   /\ Typable(notes, seen, Here, Child(n, i))
                   /\ TypeIn(notes, Child(n, i)) # "VOID"
  <2>1. Child(n, i) \in Subtree(Here) /\ Child(n, i) \in Node
    BY <1>1, <1>2, Within DEF Setting, Agreed
  <2>2. ASSUME i \in ExprChildren(n)
        PROVE  /\ ExprTyped(root, Here, notes, seen, Child(n, i))
               /\ Typable(notes, seen, Here, Child(n, i))
               /\ TypeIn(notes, Child(n, i)) # "VOID"
    <3>1. ExprTyped(root, Here, notes, seen, Child(n, i))
      BY <1>3, <2>2 DEF StmtRule
    <3>2. Kind(Child(n, i)) \in ExprKind
      BY <1>4, <2>2 DEF WellShaped, StmtKind
    <3>3. HasType(notes, Child(n, i))
      BY <2>1, <3>1, ExpressionDown
    <3>. QED  BY <2>1, <3>1, <3>2, <3>3, TypeKnown DEF Typable, Setting
  <2>. QED  BY <2>1, <2>2
<1>6. ASSUME NEW i \in 1 .. Children(n), i \notin ExprChildren(n), Kind(Child(n, i)) = "CALL"
      PROVE  Child(n, i) \in CallStatements(Here)
  <2>1. n \in Nodes(Here, StmtKind)
    BY <1>2 DEF Nodes
  <2>. QED  BY <1>6, <2>1 DEF CallStatements
<1>7. ASSUME NEW i \in 1 .. Children(n), Kind(n) \in {"IF", "WHILE", "FOR"},
             Kind(Child(n, i)) = "VAR_DECL"
      PROVE  Ast[Child(n, i)].name \in LooseNames(Here)
  <2>1. n \in Nodes(Here, {"IF", "WHILE", "FOR"})
    BY <1>2, <1>7 DEF Nodes
  <2>. QED  BY <1>7, <2>1 DEF LooseNames
<1>8. ASSUME NEW i \in 1 .. Children(n), Kind(n) # "BLOCK" PROVE seen[Child(n, i)] = seen[n]
  BY <1>3, <1>8 DEF StmtRule
<1>9. ASSUME Top.k = "after"
      PROVE  /\ Top.i = 1 /\ AwaitedIndex(Top) \in ExprChildren(n)
             /\ Conforms(val.type, TypeIn(notes, Child(n, AwaitedIndex(Top))))
  <2>1. Top.i = 1 /\ AwaitedIndex(Top) \in ExprChildren(n) /\ Kind(n) # "CALL"
    BY <1>1, <1>2, <1>9 DEF Stands, StmtKind
  <2>2. AwaitsTyped(Top) /\ AwaitedOf(Top) = Child(n, AwaitedIndex(Top))
    BY <1>9, <2>1 DEF AwaitsTyped, AwaitedOf
  <2>. QED  BY <2>1, <2>2, TopTyped DEF Arrived
<1>10. Top.k # "loop" => SeenBy(seen, Here, Top) = seen[n]
  BY DEF SeenBy
<1>11. Top.k \in {"exec", "after"} => ~returning
  BY Working DEF Setting, Unwinds
<1>. HIDE DEF n
<1>. QED  BY <1>1, <1>2, <1>3, <1>4, <1>5, <1>6, <1>7, <1>8, <1>9, <1>10, <1>11 DEF n

(* The statement is about to evaluate its expression.                      *)
LEMMA OperandStays ==
  ASSUME NEW notes, NEW seen, NEW S, Setting(notes, seen, S), ~returning,
         returning' = returning, envs' = envs, Inner, Top.k \in {"exec", "loop"},
         Kind(Top.n) \in StmtKind \ {"BLOCK"}, Kind(Top.n) = "FOR" => Top.k = "loop", Top.i = 1,
         NEW i \in ExprChildren(Top.n), i \in 1 .. Children(Top.n),
         i = IF Kind(Top.n) = "FOR" THEN 2 ELSE 1,
         ctl' = Call(As("after"), Eval(Child(Top.n, i), Top.e))
  PROVE  Stays(notes, seen, S)
<1>. DEFINE n == Top.n
            u == As("after")
<1>1. /\ n \in Subtree(Here) /\ Top \in Frame /\ n \in Node
      /\ Child(n, i) \in Subtree(Here)
      /\ ExprTyped(root, Here, notes, seen, Child(n, i))
      /\ Typable(notes, seen, Here, Child(n, i)) /\ seen[Child(n, i)] = seen[n]
  BY StmtHere
<1>2. u.k = "after" /\ u.n = n /\ u.e = Top.e /\ u.i = 1
  BY <1>1, WithKind DEF As, FrameKind
<1>3. SeenBy(seen, Here, Top) = seen[n]
  BY DEF SeenBy
<1>4. /\ Stands(notes, seen, Here, Top) /\ Knows(S, Top) /\ Surrounded(S, envs, Here, Top)
  BY TopTyped
<1>. HIDE DEF u
<1>5. AwaitedIndex(u) = i /\ AwaitedOf(u) = Child(n, i)
  BY <1>2 DEF AwaitedIndex, AwaitedOf, StmtKind
<1>6. Stands(notes, seen, Here, u)
  BY <1>1, <1>2, <1>5 DEF Stands, Yields, RunsAsStmt, Callers, StmtKind, Operator
<1>7. Knows(S, u)
  BY <1>2, <1>4 DEF Knows, Callers
<1>8. Surrounded(S, envs, Here, u)
  BY <1>2, <1>4 DEF Surrounded, Inner
<1>9. (DeclaresIn(Here, Top) <=> DeclaresIn(Here, u)) /\ (MustEnd(Top) => MustEnd(u))
  <2>1. CASE Top.k = "exec"
    BY <1>2, <2>1 DEF DeclaresIn, MustEnd
  <2>2. CASE Top.k = "loop"
    <3>1. Kind(n) \in {"WHILE", "FOR"}
      BY <1>4, <2>2 DEF Stands
    <3>. QED  BY <1>2, <2>2, <3>1 DEF DeclaresIn, MustEnd
  <2>. QED  BY <2>1, <2>2
<1>10. Kind(Top.n) # "LITERAL" /\ u.k \in {"after", "bind"}
  BY <1>2 DEF StmtKind
<1>. QED  BY <1>1, <1>2, <1>3, <1>5, <1>6, <1>7, <1>8, <1>9, <1>10, EvaluateStays DEF u

LEMMA ExecOperandStays ==
  ASSUME NEW notes, NEW seen, NEW S, Setting(notes, seen, S), ExecOperand \/ LoopTest
  PROVE  Stays(notes, seen, S)
<1>1. CASE ExecOperand
  <2>1. /\ Top.k = "exec" /\ Kind(Top.n) \in StmtKind \ {"BLOCK", "FOR"} /\ Inner
        /\ Kind(Top.n) \in {"ASSIGN", "IF", "PRINT", "VAR_DECL", "RETURN"}
        /\ Kind(Top.n) \in {"VAR_DECL", "RETURN"} => Children(Top.n) > 0
        /\ ctl' = Call(As("after"), Eval(Child(Top.n, 1), Top.e))
        /\ envs' = envs /\ returning' = returning
    BY <1>1 DEF ExecOperand, At, On, Continue, StmtKind, Inner
  <2>2. Top.n \in Node /\ ~returning /\ Top.i = 1
    BY <2>1, StmtHere, TopTyped DEF Stands
  <2>3. 1 \in 1 .. Children(Top.n) /\ 1 \in ExprChildren(Top.n)
    BY <2>1, <2>2, ChildCount DEF ExprChildren
  <2>. QED  BY <2>1, <2>2, <2>3, OperandStays
<1>2. CASE LoopTest
  <2>1. /\ Top.k = "loop" /\ Kind(Top.n) \in {"WHILE", "FOR"} /\ ~returning
        /\ Kind(Top.n) \in StmtKind \ {"BLOCK"} /\ Inner
        /\ ctl' = Call(As("after"), Eval(Condition(Top.n), Top.e))
        /\ envs' = envs /\ returning' = returning
    BY <1>2 DEF LoopTest, At, On, Continue, StmtKind, Inner
  <2>2. Top.n \in Node /\ Top.i = 1
    BY <2>1, StmtHere, TopTyped DEF Stands
  <2>. DEFINE i == IF Kind(Top.n) = "FOR" THEN 2 ELSE 1
  <2>3. i \in 1 .. Children(Top.n) /\ i \in ExprChildren(Top.n)
    BY <2>1, <2>2, ChildCount DEF ExprChildren
  <2>4. Condition(Top.n) = Child(Top.n, i)
    BY DEF Condition
  <2>. HIDE DEF i
  <2>5. i = IF Kind(Top.n) = "FOR" THEN 2 ELSE 1
    BY DEF i
  <2>. QED  BY <2>1, <2>2, <2>3, <2>4, <2>5, OperandStays
<1>. QED  BY <1>1, <1>2

LEMMA ExecCallStays ==
  ASSUME NEW notes, NEW seen, NEW S, Setting(notes, seen, S), ExecCall
  PROVE  Stays(notes, seen, S)
<1>. DEFINE n == Top.n
            u == As("after")
<1>1. /\ Top.k = "exec" /\ Kind(n) = "CALL" /\ ctl' = Call(u, Eval(n, Top.e))
      /\ envs' = envs /\ returning' = returning /\ Inner
  BY DEF ExecCall, At, On, Continue, Inner
<1>2. /\ Stands(notes, seen, Here, Top) /\ Knows(S, Top) /\ Surrounded(S, envs, Here, Top)
      /\ Top \in Frame /\ ~returning
  BY <1>1, TopTyped, Working DEF Setting, Unwinds
<1>3. n \in Subtree(Here) /\ n \in CallStatements(Here) /\ Typable(notes, seen, Here, n)
  BY <1>1, <1>2 DEF Stands, RunsAsStmt, Typable, ExprKind
<1>4. u.k = "after" /\ u.n = n /\ u.e = Top.e
  BY <1>2, WithKind DEF As, FrameKind
<1>. HIDE DEF u
<1>5. Stands(notes, seen, Here, u)
  BY <1>1, <1>3, <1>4 DEF Stands, Yields, RunsAsStmt, Callers, Operator
<1>6. Knows(S, u) /\ Surrounded(S, envs, Here, u)
  BY <1>1, <1>2, <1>4 DEF Knows, Surrounded, Callers
<1>7. AwaitedOf(u) = n /\ ~AwaitsTyped(u) /\ SeenBy(seen, Here, Top) = seen[n]
  BY <1>1, <1>4 DEF AwaitedOf, AwaitsTyped, SeenBy
<1>8. (DeclaresIn(Here, Top) <=> DeclaresIn(Here, u)) /\ (MustEnd(Top) => MustEnd(u))
  BY <1>1, <1>4 DEF DeclaresIn, MustEnd
<1>9. Kind(Top.n) # "LITERAL" /\ u.k \in {"after", "bind"}
  BY <1>1, <1>4
<1>. QED  BY <1>1, <1>2, <1>3, <1>4, <1>5, <1>6, <1>7, <1>8, <1>9, EvaluateStays

LEMMA IgnoredStays ==
  ASSUME NEW notes, NEW seen, NEW S, Setting(notes, seen, S),
         AfterPrint \/ AfterCall \/ ExecIgnored
  PROVE  Stays(notes, seen, S)
<1>1. /\ ctl' = Pop /\ envs' = envs /\ returning' = returning /\ return_val' = return_val
  BY DEF AfterPrint, AfterCall, ExecIgnored, Finish
<1>2. /\ Top.k \in {"exec", "after"} /\ Kind(Top.n) \in ExprKind \cup {"PRINT"}
      /\ Top.k = "after" => Kind(Top.n) \in {"PRINT", "CALL"}
  BY DEF AfterPrint, AfterCall, ExecIgnored, At, On, ExprKind
<1>3. RunsAsStmt(Top) /\ Top.n \in Node /\ SlotsFit(S, envs)
  BY <1>2, TopTyped, Activation DEF RunsAsStmt, Operator, Setting
<1>4. ~DeclaresIn(Here, Top) /\ ~MustEnd(Top)
  BY <1>2, <1>3, StopsIs DEF DeclaresIn, MustEnd, ExprKind
<1>5. ~returning
  BY <1>2, Working DEF Setting, Unwinds
<1>. QED  BY <1>1, <1>3, <1>4, <1>5, FinishStays

LEMMA ReturnStays ==
  ASSUME NEW notes, NEW seen, NEW S, Setting(notes, seen, S), ExecReturn \/ AfterReturn
  PROVE  Stays(notes, seen, S)
<1>1. /\ ctl' = Pop /\ envs' = envs /\ returning' = TRUE
      /\ Top.k \in {"exec", "after"} /\ Kind(Top.n) = "RETURN" /\ Kind(Top.n) \in StmtKind
  BY DEF ExecReturn, AfterReturn, Finish, At, On, StmtKind
<1>2. /\ RunsAsStmt(Top) /\ SlotsFit(S, envs) /\ ~returning
      /\ StmtRule(root, Here, notes, seen, Top.n) /\ Top.n \in Node
  BY <1>1, TopTyped, StmtHere
<1>3. ~DeclaresIn(Here, Top)
  BY <1>1 DEF DeclaresIn
<1>4. ReturnFits(Here, return_val')
  <2>1. CASE ExecReturn
    <3>1. Children(Top.n) = 0
      BY <2>1 DEF ExecReturn
    <3>. QED  BY <1>1, <1>2, <3>1 DEF StmtRule, ReturnFits
  <2>2. CASE AfterReturn
    <3>1. return_val' = val /\ Top.k = "after"
      BY <2>2 DEF AfterReturn, At
    <3>2. /\ AwaitedIndex(Top) = 1 /\ 1 \in ExprChildren(Top.n)
          /\ Conforms(val.type, TypeIn(notes, Child(Top.n, 1)))
      BY <1>1, <3>1, StmtHere DEF AwaitedIndex
    <3>3. 1 \in 1 .. Children(Top.n)
      BY <1>1, <3>2 DEF ExprChildren
    <3>4. TypeIn(notes, Child(Top.n, 1)) # "VOID"
      BY <1>1, <3>2, <3>3, StmtHere
    <3>5. Takes(Ast[Here].type, TypeIn(notes, Child(Top.n, 1)))
      <4>1. Children(Top.n) > 0
        BY <1>2, <3>3, ChildCount
      <4>. QED  BY <1>1, <1>2, <4>1 DEF StmtRule
    <3>. QED  BY <3>1, <3>2, <3>4, <3>5, ConformsOn DEF Takes, ReturnFits
  <2>. QED  BY <2>1, <2>2
<1>. QED  BY <1>1, <1>2, <1>3, <1>4, FinishStays

LEMMA LeaveStays ==
  ASSUME NEW notes, NEW seen, NEW S, Setting(notes, seen, S),
         LeaveBlock \/ LoopFails \/ LoopReturns
  PROVE  Stays(notes, seen, S)
<1>1. /\ ctl' = Pop /\ returning' = returning /\ return_val' = return_val
      /\ Top.k \in {"after", "loop", "update"} /\ Kind(Top.n) \in {"BLOCK", "WHILE", "FOR"}
      /\ Kind(Top.n) = "BLOCK" => Top.k = "loop" /\ (returning \/ Top.i > Children(Top.n))
      /\ envs' = IF Kind(Top.n) = "WHILE" THEN envs ELSE env_free(Top.e)
  <2>1. CASE LeaveBlock
    BY <2>1 DEF LeaveBlock, Finish, At, On
  <2>2. CASE LoopFails
    BY <2>2 DEF LoopFails, LeaveLoop, Finish, At, On
  <2>3. CASE LoopReturns
    <3>1. Top.k \in {"loop", "update"} /\ Kind(Top.n) \in {"WHILE", "FOR"}
      BY <2>3, TopTyped DEF LoopReturns, At, On, Stands
    <3>. QED  BY <2>3, <3>1 DEF LoopReturns, LeaveLoop, Finish, On
  <2>. QED  BY <2>1, <2>2, <2>3
<1>2. /\ RunsAsStmt(Top) /\ Top.n \in Node /\ SlotsFit(S, envs) /\ Stands(notes, seen, Here, Top)
      /\ Top.e \in EnvId /\ Top.i \in Nat
  BY <1>1, TopTyped, Activation DEF RunsAsStmt, Operator, Setting
<1>3. ~DeclaresIn(Here, Top)
  BY <1>1 DEF DeclaresIn
<1>4. ~returning => ~MustEnd(Top)
  <2>1. Kind(Top.n) # "BLOCK" => ~Stops(Top.n)
    BY <1>1, <1>2, StopsIs
  <2>2. Kind(Top.n) = "BLOCK" /\ ~returning => Top.i .. Children(Top.n) = {}
    BY <1>1, <1>2, ChildCount
  <2>. QED  BY <1>1, <2>1, <2>2 DEF MustEnd
<1>5. \/ envs' = envs
      \/ Owned(Top) # NoEnv /\ envs' = env_free(Owned(Top))
  <2>1. Kind(Top.n) # "WHILE" => Owned(Top) = Top.e
    BY <1>1 DEF Owned
  <2>2. Top.e # NoEnv
    BY <1>2, EnvAssumption
  <2>. QED  BY <1>1, <2>1, <2>2
<1>6. SlotsFit(S, envs')
  BY <1>1, <1>2, FreeFits DEF Setting
<1>. QED  BY <1>1, <1>2, <1>3, <1>4, <1>5, <1>6, FinishStays

(* A statement is followed by another, with its Env.                       *)
LEMMA BranchStays ==
  ASSUME NEW notes, NEW seen, NEW S, Setting(notes, seen, S), AfterIf
  PROVE  Stays(notes, seen, S)
<1>. DEFINE n == Top.n
<1>1. /\ Top.k = "after" /\ Kind(n) = "IF" /\ Kind(n) \in StmtKind /\ Inner
  BY DEF AfterIf, At, On, StmtKind, Inner
<1>2. /\ n \in Node /\ ~returning /\ RunsAsStmt(Top) /\ SlotsFit(S, envs)
      /\ SeenBy(seen, Here, Top) = seen[n] /\ Here \in FunctionsOf(root)
      /\ \A i \in 1 .. Children(n) :
            /\ Child(n, i) \in Subtree(Here) /\ seen[Child(n, i)] = seen[n]
            /\ i \notin ExprChildren(n) /\ Kind(Child(n, i)) = "CALL"
                         => Child(n, i) \in CallStatements(Here)
            /\ Kind(Child(n, i)) = "VAR_DECL" => Ast[Child(n, i)].name \in LooseNames(Here)
  BY <1>1, StmtHere, TopTyped
<1>3. PICK taken \in Truths(val) :
         IF taken \/ Children(n) > 2
         THEN Continue(Become(Exec(Child(n, IF taken THEN 2 ELSE 3), Top.e)))
         ELSE Finish /\ UNCHANGED <<envs, returning, return_val, out>>
  BY DEF AfterIf
<1>4. ~DeclaresIn(Here, Top) /\ (MustEnd(Top) => Stops(n))
  BY <1>1 DEF DeclaresIn, MustEnd
<1>5. CASE taken \/ Children(n) > 2
  <2>. DEFINE i == IF taken THEN 2 ELSE 3
              u == Exec(Child(n, i), Top.e)
  <2>1. ctl' = Become(u) /\ envs' = envs /\ returning' = returning
    BY <1>3, <1>5 DEF Continue
  <2>2. i \in 1 .. Children(n) /\ i \notin ExprChildren(n) /\ i \in {2, 3}
    BY <1>1, <1>2, <1>5, ChildCount DEF ExprChildren
  <2>. HIDE DEF i
  <2>3. u.k = "exec" /\ u.n = Child(n, i) /\ u.e = Top.e /\ u = NewFrame("exec", Child(n, i), Top.e)
    BY DEF Exec, NewFrame
  <2>4. Child(n, i) \in Subtree(Here) /\ seen[Child(n, i)] = seen[n]
    BY <1>2, <2>2
  <2>. HIDE DEF u
  <2>5. InPlace(notes, seen, S, envs, Here, u) /\ Sees(seen, S, envs, Here, u)
    BY <1>1, <1>2, <2>2, <2>3, <2>4, PlaceHere
  <2>6. ~DeclaresIn(Here, u)
    BY <1>2, <2>2, <2>3 DEF DeclaresIn
  <2>7. Replaces(Here, Top, u) /\ ~AwaitsTyped(u) /\ u.k # "body"
    BY <1>2, <1>4, <2>3, <2>6 DEF Replaces, AwaitsTyped
  <2>8. MustEnd(Top) => MustEnd(u)
    <3>1. Stops(n) => Stops(Child(n, i))
      BY <1>1, <1>2, <2>2, StopsIs
    <3>. QED  BY <1>4, <2>3, <3>1 DEF MustEnd
  <2>9. Untouched(S, S, envs', Len(ctl))
    BY <2>1, Unchanging DEF Setting
  <2>. QED  BY <1>2, <2>1, <2>5, <2>7, <2>8, <2>9, BecomeStays
<1>6. CASE ~(taken \/ Children(n) > 2)
  <2>1. ctl' = Pop /\ envs' = envs /\ returning' = returning /\ return_val' = return_val
    BY <1>3, <1>6 DEF Finish
  <2>2. ~MustEnd(Top)
    <3>1. Children(n) # 3
      BY <1>6
    <3>. QED  BY <1>1, <1>2, <1>4, <3>1, StopsIs
  <2>. QED  BY <1>2, <1>4, <2>1, <2>2, FinishStays
<1>. QED  BY <1>5, <1>6

LEMMA AssignStays ==
  ASSUME NEW notes, NEW seen, NEW S, Setting(notes, seen, S), AfterAssign
  PROVE  Stays(notes, seen, S)
<1>. DEFINE n == Top.n
            x == Ast[n].name
            type == TypeOfVariable(Here, seen[n], x)
            e == IF Holder(Top.e, x) = NoEnv THEN Top.e ELSE Holder(Top.e, x)
<1>1. /\ Top.k = "after" /\ Kind(n) = "ASSIGN" /\ Kind(n) \in StmtKind /\ Inner
      /\ ctl' = Pop /\ envs' = env_define(e, x, val)
      /\ returning' = returning /\ return_val' = return_val
  BY DEF AfterAssign, At, On, StmtKind, Inner, Finish, env_set
<1>2. /\ n \in Node /\ ~returning /\ RunsAsStmt(Top) /\ SlotsFit(S, envs)
      /\ SeenBy(seen, Here, Top) = seen[n] /\ StmtRule(root, Here, notes, seen, n)
      /\ Surrounded(S, envs, Here, Top) /\ val \in Value /\ Top.e \in EnvId
  BY <1>1, StmtHere, TopTyped, Same, Activation DEF Setting
<1>3. x \in VarName /\ Children(n) = 1
  BY <1>1, <1>2, AstAssumption DEF WellShaped, WellCounted
<1>4. type # NoType /\ Conforms(val.type, type)
  <2>1. 1 \in 1 .. Children(n) /\ 1 \in ExprChildren(n)
    BY <1>1, <1>3 DEF ExprChildren
  <2>2. TypeIn(notes, Child(n, 1)) # "VOID"
    BY <1>1, <2>1, StmtHere
  <2>3. Conforms(val.type, TypeIn(notes, Child(n, 1)))
    <3>1. AwaitedIndex(Top) = 1
      BY <1>1, StmtHere DEF AwaitedIndex
    <3>. QED  BY <1>1, <3>1, StmtHere
  <2>. QED  BY <1>1, <1>2, <2>2, <2>3, ConformsOn DEF StmtRule, Takes
<1>. HIDE DEF n, x, type, e
<1>5. SlotsFit(S, envs')
  <2>1. CASE x \in LooseNames(Here)
    <3>1. val.type = "INT"
      BY <1>4, <2>1 DEF Conforms, type, TypeOfVariable
    <3>2. /\ e \in EnvId /\ S[e].fun = Here /\ S[e].types[x] \in {"INT", NoType}
          /\ S[e].types[x] = NoType => ~S[e].args
      <4>1. CASE Holder(Top.e, x) = NoEnv
        <5>1. e = Top.e /\ envs[Top.e].chain # <<>> /\ ~S[Top.e].args
          <6>1. FrameOK(Top, envs)
            BY HeapFacts DEF Setting
          <6>. QED  BY <1>1, <1>2, <4>1, <6>1 DEF e, FrameOK, Surrounded
        <5>2. S[Top.e].fun = Here
          <6>1. Len(ctl) \in 1 .. Len(ctl) /\ Top = ctl[Len(ctl)]
            BY TopTyped
          <6>2. 1 \in 1 .. Len(envs[Top.e].chain) /\ envs[Top.e].chain[1] = Top.e
            BY <6>1, ChainOwned DEF Setting
          <6>. QED  BY <1>2, <6>2 DEF Surrounded
        <5>3. S[Top.e].types[x] \in {"INT", NoType}
          <6>1. SlotFits(S[Top.e], envs[Top.e].vars)
            BY <1>2, <5>1 DEF SlotsFit
          <6>. QED  BY <1>3, <2>1, <5>2, <6>1 DEF SlotFits
        <5>. QED  BY <1>2, <5>1, <5>2, <5>3
      <4>2. CASE Holder(Top.e, x) # NoEnv
        BY <1>3, <2>1, <4>2, LooseIsInt DEF e
      <4>. QED  BY <4>1, <4>2
    <3>3. /\ S[e].types[x] # NoType =>
               /\ Conforms(val.type, S[e].types[x])
               /\ x \in LooseNames(S[e].fun) => S[e].types[x] = "INT"
          /\ S[e].types[x] = NoType =>
               x \in LooseNames(S[e].fun) /\ ~S[e].args /\ val.type = "INT"
      BY <2>1, <3>1, <3>2 DEF Conforms
    <3>. QED  BY <1>1, <1>2, <1>3, <3>2, <3>3, DefineFits DEF Setting
  <2>2. CASE x \notin LooseNames(Here)
    <3>1. SeenBy(seen, Here, Top)[x] = type /\ Kind(Top.n) # "LITERAL"
      BY <1>1, <1>2, <2>2 DEF type, TypeOfVariable, n
    <3>2. Holder(Top.e, x) \in EnvId /\ Live(Holder(Top.e, x)) /\ S[Holder(Top.e, x)].types[x] = type
      BY <1>3, <1>4, <2>2, <3>1, FoundWhereSeen
    <3>3. e \in EnvId /\ S[e].types[x] = type /\ Live(e)
      BY <3>2, EnvAssumption DEF e
    <3>4. x \in LooseNames(S[e].fun) => S[e].types[x] = "INT"
      <4>1. SlotFits(S[e], envs[e].vars)
        BY <1>2, <3>3 DEF SlotsFit, Live
      <4>. QED  BY <1>3, <1>4, <3>3, <4>1 DEF SlotFits
    <3>. QED  BY <1>1, <1>2, <1>3, <1>4, <3>3, <3>4, DefineFits DEF Setting
  <2>. QED  BY <2>1, <2>2
<1>6. ~DeclaresIn(Here, Top) /\ ~MustEnd(Top)
  BY <1>1, <1>2, StopsIs DEF DeclaresIn, MustEnd, n
<1>7. \E d, y, v : envs' = env_define(d, y, v)
  BY <1>1
<1>. QED  BY <1>1, <1>2, <1>5, <1>6, <1>7, FinishStays

(* A declaration is over, and v is the variable's value.                   *)
LEMMA DeclaredStays ==
  ASSUME NEW notes, NEW seen, NEW S, Setting(notes, seen, S),
         Top.k \in {"exec", "after"}, Kind(Top.n) = "VAR_DECL",
         NEW v \in Value, Conforms(v.type, Ast[Top.n].type),
         Finish, envs' = env_define(Top.e, Ast[Top.n].name, v),
         returning' = returning, return_val' = return_val
  PROVE  \E S2 \in [EnvId -> Desc] : Stays(notes, seen, S2)
<1>. DEFINE n == Top.n
            x == Ast[n].name
            type == Ast[n].type
            e == Top.e
<1>1. /\ ctl' = Pop /\ val' = val /\ Kind(n) \in StmtKind /\ Inner
  BY DEF Finish, StmtKind, Inner
<1>2. /\ n \in Node /\ n \in Subtree(Here) /\ ~returning /\ RunsAsStmt(Top) /\ ~Yields(Top)
      /\ Here \in FunctionsOf(root)
      /\ SlotsFit(S, envs) /\ SeenBy(seen, Here, Top) = seen[n] /\ Sees(seen, S, envs, Here, Top)
      /\ Surrounded(S, envs, Here, Top) /\ e \in EnvId /\ S \in [EnvId -> Desc]
  BY <1>1, StmtHere, TopTyped, Activation DEF Setting
<1>3. x \in VarName /\ type \in DataType /\ type # NoType
  BY <1>2, AstAssumption DEF AstNode, DataType, NoType
<1>4. ~MustEnd(Top) /\ (DeclaresIn(Here, Top) <=> x \notin LooseNames(Here))
  BY <1>2, StopsIs DEF DeclaresIn, MustEnd
<1>5. /\ Len(envs[e].chain) \in Nat \ {0} /\ envs[e].chain[1] = e
      /\ \A c \in 1 .. Len(envs[e].chain) : envs[e].chain[c] \in EnvId
      /\ envs[e].chain # <<>> /\ S[e].fun = Here /\ ~S[e].args
      /\ SlotFits(S[e], envs[e].vars)
  <2>1. Len(ctl) \in 1 .. Len(ctl) /\ Top = ctl[Len(ctl)]
    BY TopTyped
  <2>2. /\ Len(envs[e].chain) \in Nat \ {0} /\ envs[e].chain[1] = e
        /\ \A c \in 1 .. Len(envs[e].chain) : envs[e].chain[c] \in EnvId
    BY <2>1, ChainOwned DEF Setting
  <2>3. FrameOK(Top, envs)
    BY HeapFacts DEF Setting
  <2>4. envs[e].chain # <<>> /\ ~S[e].args
    BY <1>1, <1>2, <2>3 DEF FrameOK, Surrounded, Inner
  <2>5. 1 \in 1 .. Len(envs[e].chain)
    BY <2>2
  <2>. QED  BY <1>2, <2>2, <2>4, <2>5 DEF Surrounded, SlotsFit
<1>6. \A d \in EnvId : envs'[d].chain = envs[d].chain
  BY DefineKeepsChains DEF Setting
<1>7. CASE x \in LooseNames(Here)
  <2>1. type = "INT"
    <3>1. n \in Nodes(Here, {"VAR_DECL"}) /\ LooseAreInts(Here)
      BY <1>2 DEF Nodes, Setting, Agreed
    <3>. QED  BY <1>7, <3>1 DEF LooseAreInts
  <2>2. /\ S[e].types[x] # NoType =>
             /\ Conforms(v.type, S[e].types[x])
             /\ x \in LooseNames(S[e].fun) => S[e].types[x] = "INT"
        /\ S[e].types[x] = NoType =>
             x \in LooseNames(S[e].fun) /\ ~S[e].args /\ v.type = "INT"
    BY <1>3, <1>5, <1>7, <2>1 DEF SlotFits, Conforms
  <2>3. SlotsFit(S, envs')
    BY <1>2, <1>3, <2>2, DefineFits DEF Setting
  <2>4. Stays(notes, seen, S)
    BY <1>1, <1>2, <1>4, <1>7, <2>3, FinishStays
  <2>. QED  BY <1>2, <2>4
<1>8. CASE x \notin LooseNames(Here)
  <2>. DEFINE S2 == [S EXCEPT ![e].types[x] = type]
              t == ctl[Len(ctl) - 1]
  <2>1. /\ S2 \in [EnvId -> Desc] /\ \A d \in EnvId : d # e => S2[d] = S[d]
        /\ S2[e].fun = S[e].fun /\ S2[e].args = S[e].args
        /\ \A y \in VarName : S2[e].types[y] = IF y = x THEN type ELSE S[e].types[y]
    <3>1. S[e] \in Desc /\ S[e].types \in VarTypes
      BY <1>2 DEF Desc
    <3>2. [S[e].types EXCEPT ![x] = type] \in VarTypes
      BY <1>3, <3>1 DEF VarTypes
    <3>3. S2[e] = [S[e] EXCEPT !.types = [S[e].types EXCEPT ![x] = type]]
      BY <1>2
    <3>4. S2[e] \in Desc
      BY <3>1, <3>2, <3>3 DEF Desc
    <3>5. \A d \in EnvId : d # e => S2[d] = S[d]
      BY <1>2
    <3>6. S2 \in [EnvId -> Desc]
      <4>1. S2 = [d \in EnvId |-> IF d = e THEN S2[e] ELSE S[d]]
        BY <1>2
      <4>2. \A d \in EnvId : (IF d = e THEN S2[e] ELSE S[d]) \in Desc
        BY <1>2, <3>4
      <4>. QED  BY <4>1, <4>2
    <3>7. S2[e].types = [S[e].types EXCEPT ![x] = type]
      BY <3>1, <3>3 DEF Desc
    <3>8. S2[e].fun = S[e].fun /\ S2[e].args = S[e].args
      BY <3>1, <3>3 DEF Desc
    <3>9. \A y \in VarName : S2[e].types[y] = IF y = x THEN type ELSE S[e].types[y]
      BY <3>1, <3>7 DEF VarTypes
    <3>. QED  BY <3>5, <3>6, <3>8, <3>9
  <2>. HIDE DEF S2
  <2>0. \E l \in Nat \ {0, 1} : l = Len(ctl)
    <3>1. Top.k # "main"
      OBVIOUS
    <3>. QED  BY <3>1, Below
  <2>2. /\ Len(ctl) \in Nat \ {0, 1} /\ t.k = "loop" /\ Kind(t.n) = "BLOCK"
        /\ t.i - 1 \in 1 .. Children(t.n) /\ n = Child(t.n, t.i - 1) /\ t.e = e
    <3>1. Top.k # "main"
      OBVIOUS
    <3>2. Linked(notes, seen, Here, t, Top) /\ Len(ctl) \in Nat \ {0, 1}
      BY <3>1, Below
    <3>. QED  BY <1>4, <1>8, <3>2 DEF Linked
  <2>3. /\ InPlace(notes, seen, S, envs, Here, t) /\ t \in Frame
    <3>1. Len(ctl) - 1 \in 1 .. Len(ctl) /\ Len(ctl) - 1 \in Nat \ {0}
          /\ (Len(ctl) - 1) + 1 = Len(ctl)
      BY <2>0
    <3>2. ctl[Len(ctl) - 1].k # "body"
      BY <2>2
    <3>3. FunctionAt(ctl, Len(ctl) - 1) = Here
      BY <3>1, <3>2, FunctionNext DEF Here
    <3>4. Top.k # "main"
      OBVIOUS
    <3>. QED  BY <3>1, <3>3, <3>4, TopTyped, Below DEF StackTyped
  <2>. HIDE DEF t
  <2>4. InPlace(notes, seen, S2, envs', Here, t)
    <3>1. Stands(notes, seen, Here, t) /\ Knows(S, t) /\ Surrounded(S, envs, Here, t)
      BY <2>3 DEF InPlace
    <3>2. Knows(S2, t)
      <4>1. ASSUME NEW y \in VarName, S2[e].types[y] # NoType
            PROVE  \E m \in Nodes(t.n, {"VAR_DECL"}) : /\ Ast[m].name = y
                                                       /\ Ast[m].type = S2[e].types[y]
        <5>1. CASE y = x
          <6>1. t.n \in Node /\ t.n \in Subtree(Here)
            BY <2>2, <2>3, <3>1 DEF Frame, Stands
          <6>2. n \in Subtree(t.n)
            <7>1. n \in Parts(t.n)
              BY <2>2 DEF Parts
            <7>2. Subtree(n) \subseteq Subtree(t.n) /\ n \in Subtree(n)
              BY <1>2, <6>1, <7>1, SubtreeIs
            <7>. QED  BY <7>2
          <6>3. n \in Nodes(t.n, {"VAR_DECL"})
            BY <6>2 DEF Nodes
          <6>. QED  BY <2>1, <5>1, <6>3
        <5>2. CASE y # x
          BY <2>1, <2>2, <3>1, <4>1, <5>2 DEF Knows
        <5>. QED  BY <5>1, <5>2
      <4>. QED  BY <2>2, <4>1 DEF Knows, Callers
    <3>3. Surrounded(S2, envs', Here, t)
      <4>1. \A d \in EnvId : S2[d].fun = S[d].fun /\ S2[d].args = S[d].args
        BY <2>1
      <4>2. envs'[t.e].chain = envs[e].chain /\ t.e = e /\ t.k \notin {"args", "bind"}
        BY <1>2, <1>6, <2>2
      <4>3. \A c \in 1 .. Len(envs[e].chain) : S2[envs[e].chain[c]].fun = Here
        BY <1>5, <2>2, <3>1, <4>1 DEF Surrounded
      <4>4. ~S2[e].args
        BY <1>5, <2>1
      <4>. QED  BY <4>2, <4>3, <4>4 DEF Surrounded
    <3>. QED  BY <1>2, <3>1, <3>2, <3>3 DEF InPlace
  <2>5. Sees(seen, S2, envs', Here, t)
    <3>1. SeenBy(seen, Here, t) = [seen[n] EXCEPT ![x] = type]
      <4>1. t.i > 1
        BY <2>2, <2>3 DEF Frame
      <4>. QED  BY <1>8, <2>2, <4>1 DEF SeenBy, SeenAfter
    <3>2. seen[n] \in VarTypes
      BY <1>2 DEF Setting, Agreed, WellTyped
    <3>3. Models(S, envs[e].chain, Here, seen[n])
      BY <1>2 DEF Sees
    <3>. DEFINE chain == envs[e].chain
    <3>4. ASSUME NEW y \in VarName \ LooseNames(Here)
          PROVE  TypeSeen(S2, chain, y, [seen[n] EXCEPT ![x] = type][y])
      <4>1. CASE y = x
        <5>1. [seen[n] EXCEPT ![x] = type][y] = type
          BY <3>2, <4>1 DEF VarTypes
        <5>2. 1 \in 1 .. Len(chain) /\ chain[1] = e /\ \A d \in 1 .. 1 - 1 : FALSE
          BY <1>5
        <5>3. S2[e].types[x] = type
          BY <1>3, <2>1
        <5>. QED  BY <1>3, <4>1, <5>1, <5>2, <5>3 DEF TypeSeen
      <4>2. CASE y # x
        <5>1. [seen[n] EXCEPT ![x] = type][y] = seen[n][y]
          BY <3>2, <4>2 DEF VarTypes
        <5>2. \A c \in 1 .. Len(chain) : S2[chain[c]].types[y] = S[chain[c]].types[y]
          BY <1>5, <2>1, <4>2
        <5>3. TypeSeen(S, chain, y, seen[n][y])
          BY <3>3 DEF Models
        <5>4. Len(chain) \in Nat
          BY <1>5
        <5>5. \A c \in 1 .. Len(chain) : \A d \in 1 .. c - 1 : d \in 1 .. Len(chain)
          BY <5>4
        <5>. HIDE DEF chain
        <5>. QED  BY <5>1, <5>2, <5>3, <5>5 DEF TypeSeen
      <4>. QED  BY <4>1, <4>2
    <3>5. envs'[t.e].chain = chain
      BY <1>2, <1>6, <2>2
    <3>. QED  BY <3>1, <3>4, <3>5 DEF Sees, Models
  <2>6. Untouched(S, S2, envs', Len(ctl) - 1)
    <3>1. Owned(t) = e /\ Len(ctl) - 1 \in Len(ctl) - 1 .. Len(ctl)
      BY <2>2 DEF Owned
    <3>. QED  BY <1>6, <2>1, <3>1 DEF Untouched, t
  <2>7. StackTyped(notes, seen, S2, Pop, envs')
    <3>1. Len(ctl) > 1 /\ ctl[Len(ctl) - 1].k # "body"
      <4>1. Len(ctl) > 1
        BY <2>0
      <4>2. t.k # "body"
        BY <2>2
      <4>. QED  BY <4>1, <4>2 DEF t
    <3>. QED  BY <2>4, <2>5, <2>6, <3>1, PopDeclared DEF t
  <2>8. SlotsFit(S2, envs')
    <3>1. S2[e].types[x] = type
      BY <1>3, <2>1
    <3>2. x \notin LooseNames(S2[e].fun)
      BY <1>5, <1>8, <2>1
    <3>3. \A y \in VarName : y # x => S2[e].types[y] = S[e].types[y]
      BY <2>1
    <3>. QED  BY <1>2, <1>3, <2>1, <3>1, <3>2, <3>3, DefineFits DEF Setting
  <2>9. Stays(notes, seen, S2)
    <3>1. Top.k \notin {"main", "body"} /\ ~returning'
      BY <1>2
    <3>. QED  BY <1>1, <1>2, <1>4, <2>7, <2>8, <3>1, PopStays
  <2>. QED  BY <2>1, <2>9
<1>. QED  BY <1>7, <1>8

LEMMA DeclareStays ==
  ASSUME NEW notes, NEW seen, NEW S, Setting(notes, seen, S), ExecVarDecl \/ AfterVarDecl
  PROVE  \E S2 \in [EnvId -> Desc] : Stays(notes, seen, S2)
<1>1. CASE ExecVarDecl
  <2>1. /\ Top.k = "exec" /\ Kind(Top.n) = "VAR_DECL" /\ Finish
        /\ envs' = env_define(Top.e, Ast[Top.n].name, Typed(Ast[Top.n].type, 0))
        /\ returning' = returning /\ return_val' = return_val
    BY <1>1 DEF ExecVarDecl, At, On
  <2>2. Typed(Ast[Top.n].type, 0) \in Value
    BY LiteralIsValue, Activation DEF Setting
  <2>3. Conforms(Typed(Ast[Top.n].type, 0).type, Ast[Top.n].type)
    BY DEF Conforms, Typed
  <2>. QED  BY <2>1, <2>2, <2>3, DeclaredStays
<1>2. CASE AfterVarDecl
  <2>1. /\ Top.k = "after" /\ Kind(Top.n) = "VAR_DECL" /\ Finish
        /\ envs' = env_define(Top.e, Ast[Top.n].name, val) /\ Kind(Top.n) \in StmtKind
        /\ returning' = returning /\ return_val' = return_val
    BY <1>2 DEF AfterVarDecl, At, On, StmtKind
  <2>2. /\ AwaitedIndex(Top) = 1 /\ 1 \in ExprChildren(Top.n)
        /\ Conforms(val.type, TypeIn(notes, Child(Top.n, 1)))
        /\ StmtRule(root, Here, notes, seen, Top.n) /\ Children(Top.n) \in Nat
    BY <2>1, StmtHere DEF AwaitedIndex
  <2>3. 1 \in 1 .. Children(Top.n) /\ Children(Top.n) > 0
    BY <2>1, <2>2 DEF ExprChildren
  <2>4. TypeIn(notes, Child(Top.n, 1)) # "VOID"
    BY <2>1, <2>2, <2>3, StmtHere
  <2>5. Conforms(val.type, Ast[Top.n].type)
    BY <2>1, <2>2, <2>3, <2>4, ConformsOn DEF StmtRule, Takes
  <2>6. val \in Value
    BY Same DEF Setting
  <2>. QED  BY <2>1, <2>5, <2>6, DeclaredStays
<1>. QED  BY <1>1, <1>2

(* A block or a for loop has made its Env: from there the same is seen.    *)
LEMMA Opened ==
  ASSUME NEW notes, NEW seen, NEW S, Setting(notes, seen, S), Top.k = "exec",
         Kind(Top.n) \in {"BLOCK", "FOR"}, ~HeapFull
  PROVE  LET S2 == [S EXCEPT ![FreshEnv] = Described(Here, FALSE)]
             h2 == env_create(Top.e)
         IN  /\ S2 \in [EnvId -> Desc] /\ FreshEnv \in EnvId
             /\ ~S2[FreshEnv].args /\ NothingIn(S2[FreshEnv].types)
             /\ \A c \in 1 .. Len(h2[FreshEnv].chain) : S2[h2[FreshEnv].chain[c]].fun = Here
             /\ Models(S2, h2[FreshEnv].chain, Here, seen[Top.n])
             /\ Untouched(S, S2, h2, Len(ctl)) /\ SlotsFit(S2, h2)
<1>. DEFINE S2 == [S EXCEPT ![FreshEnv] = Described(Here, FALSE)]
            h2 == env_create(Top.e)
            chain == envs[Top.e].chain
<1>1. /\ Here \in FunctionsOf(root) /\ Surrounded(S, envs, Here, Top)
      /\ Sees(seen, S, envs, Here, Top) /\ SeenBy(seen, Here, Top) = seen[Top.n]
  BY TopTyped, StmtHere DEF StmtKind
<1>2. /\ Top.e \in EnvId /\ chain \in Seq(EnvId) /\ Len(chain) \in Nat
      /\ \A c \in 1 .. Len(chain) : chain[c] \in EnvId /\ Live(chain[c])
  <2>1. Len(ctl) \in 1 .. Len(ctl) /\ Top = ctl[Len(ctl)]
    BY TopTyped
  <2>. QED  BY <2>1, ChainOwned DEF Setting
<1>3. /\ S2 \in [EnvId -> Desc] /\ S2[FreshEnv] = Described(Here, FALSE)
      /\ \A d \in EnvId : d # FreshEnv => S2[d] = S[d] /\ h2[d] = envs[d]
      /\ h2[FreshEnv].chain = <<FreshEnv>> \o IF Top.e = NoEnv THEN <<>> ELSE chain
      /\ FreshEnv \in EnvId /\ ~Live(FreshEnv)
      /\ Untouched(S, S2, h2, Len(ctl)) /\ SlotsFit(S2, h2)
  BY <1>1, <1>2, Created
<1>4. h2[FreshEnv].chain = <<FreshEnv>> \o chain
  BY <1>2, <1>3, EnvAssumption
<1>5. /\ Described(Here, FALSE).fun = Here /\ ~Described(Here, FALSE).args
      /\ NothingIn(Described(Here, FALSE).types)
  BY <1>1, DescribedIs DEF Setting, Agreed
<1>. HIDE DEF S2, h2
<1>6. \A c \in 1 .. Len(chain) : S2[chain[c]] = S[chain[c]]
  BY <1>2, <1>3
<1>7. Models(S2, <<FreshEnv>> \o chain, Here, seen[Top.n])
  <2>1. Models(S, chain, Here, seen[Top.n])
    BY <1>1 DEF Sees
  <2>2. NothingIn(S2[FreshEnv].types)
    BY <1>3, <1>5
  <2>3. chain \in Seq(EnvId)
    BY <1>2
  <2>. HIDE DEF chain
  <2>. QED  BY <1>6, <2>1, <2>2, <2>3, NewSeesSame
<1>8. ASSUME NEW c \in 1 .. Len(h2[FreshEnv].chain)
      PROVE  S2[h2[FreshEnv].chain[c]].fun = Here
  <2>. DEFINE both == <<FreshEnv>> \o chain
  <2>1. /\ Len(both) = Len(chain) + 1 /\ both[1] = FreshEnv
        /\ \A d \in 1 .. Len(chain) : both[d + 1] = chain[d]
    BY <1>2
  <2>. HIDE DEF both
  <2>2. CASE c = 1
    BY <1>3, <1>4, <1>5, <2>1, <2>2 DEF both
  <2>3. CASE c # 1
    <3>1. c - 1 \in 1 .. Len(chain) /\ c = (c - 1) + 1
      BY <1>2, <1>4, <2>1, <2>3 DEF both
    <3>2. both[c] = chain[c - 1]
      BY <2>1, <3>1
    <3>. QED  BY <1>1, <1>4, <1>6, <3>1, <3>2 DEF Surrounded, both
  <2>. QED  BY <2>2, <2>3
<1>. QED  BY <1>3, <1>4, <1>5, <1>7, <1>8 DEF S2, h2

LEMMA OpenStays ==
  ASSUME NEW notes, NEW seen, NEW S, Setting(notes, seen, S), ExecBlock \/ ExecFor
  PROVE  \E S2 \in [EnvId -> Desc] : Stays(notes, seen, S2)
<1>. DEFINE n == Top.n
            u == [As("loop") EXCEPT !.e = FreshEnv]
            w == Exec(Child(n, 1), FreshEnv)
            S2 == [S EXCEPT ![FreshEnv] = Described(Here, FALSE)]
<1>1. /\ Top.k = "exec" /\ Kind(n) \in {"BLOCK", "FOR"} /\ Kind(n) \in StmtKind /\ ~HeapFull
      /\ envs' = env_create(Top.e) /\ returning' = returning
      /\ ctl' = IF Kind(n) = "BLOCK" THEN Become(u) ELSE Call(u, w)
  BY DEF ExecBlock, ExecFor, At, On, StmtKind
<1>2. /\ n \in Subtree(Here) /\ n \in Node /\ RunsAsStmt(Top) /\ ~returning
      /\ Here \in FunctionsOf(root) /\ Top \in Frame
  BY <1>1, StmtHere
<1>3. /\ S2 \in [EnvId -> Desc] /\ FreshEnv \in EnvId
      /\ ~S2[FreshEnv].args /\ NothingIn(S2[FreshEnv].types)
      /\ \A c \in 1 .. Len(envs'[FreshEnv].chain) : S2[envs'[FreshEnv].chain[c]].fun = Here
      /\ Models(S2, envs'[FreshEnv].chain, Here, seen[n])
      /\ Untouched(S, S2, envs', Len(ctl)) /\ SlotsFit(S2, envs')
  BY <1>1, Opened
<1>4. u.k = "loop" /\ u.n = n /\ u.e = FreshEnv /\ u.i = 1
  <2>1. Top.i = 1
    BY <1>1, TopTyped DEF Stands
  <2>2. As("loop") \in Frame /\ As("loop").k = "loop" /\ As("loop").n = n /\ As("loop").i = Top.i
    BY <1>2, WithKind DEF As, FrameKind
  <2>. QED  BY <1>3, <2>1, <2>2, WithEnv
<1>. HIDE DEF u, S2
<1>5. InPlace(notes, seen, S2, envs', Here, u)
  <2>1. Stands(notes, seen, Here, u)
    BY <1>1, <1>2, <1>4 DEF Stands, Yields, RunsAsStmt, Callers
  <2>2. Knows(S2, u)
    BY <1>3, <1>4 DEF Knows, Callers, NothingIn
  <2>3. Surrounded(S2, envs', Here, u)
    BY <1>3, <1>4 DEF Surrounded
  <2>. QED  BY <1>2, <2>1, <2>2, <2>3 DEF InPlace
<1>6. Sees(seen, S2, envs', Here, u)
  <2>1. SeenBy(seen, Here, u) = seen[n]
    BY <1>4 DEF SeenBy
  <2>. QED  BY <1>3, <1>4, <2>1 DEF Sees
<1>7. ~DeclaresIn(Here, Top) /\ ~DeclaresIn(Here, u) /\ Replaces(Here, Top, u) /\ ~AwaitsTyped(u)
  BY <1>1, <1>2, <1>4 DEF DeclaresIn, Replaces, AwaitsTyped
<1>8. CASE Kind(n) = "BLOCK"
  <2>1. MustEnd(Top) => MustEnd(u)
    <3>1. Stops(n) => \E j \in 1 .. Children(n) : Stops(Child(n, j))
      BY <1>2, <1>8, StopsIs
    <3>. QED  BY <1>1, <1>4, <1>8, <3>1 DEF MustEnd
  <2>2. Stays(notes, seen, S2)
    BY <1>1, <1>2, <1>3, <1>4, <1>5, <1>6, <1>7, <1>8, <2>1, BecomeStays
  <2>. QED  BY <1>3, <2>2
<1>9. CASE Kind(n) = "FOR"
  <2>1. 1 \in 1 .. Children(n) /\ 1 \notin ExprChildren(n) /\ Kind(Child(n, 1)) \in {"VAR_DECL", "ASSIGN"}
    BY <1>1, <1>9, StmtHere DEF WellShaped, WellCounted, ExprChildren
  <2>2. /\ Child(n, 1) \in Subtree(Here) /\ seen[Child(n, 1)] = seen[n]
        /\ Kind(Child(n, 1)) = "VAR_DECL" => Ast[Child(n, 1)].name \in LooseNames(Here)
    BY <1>1, <1>9, <2>1, StmtHere
  <2>3. w = NewFrame("exec", Child(n, 1), FreshEnv) /\ w.k = "exec" /\ w.n = Child(n, 1)
        /\ w.e = FreshEnv
    BY DEF Exec, NewFrame
  <2>. HIDE DEF w
  <2>4. InPlace(notes, seen, S2, envs', Here, w)
    BY <1>2, <1>3, <2>1, <2>2, <2>3, PlaceNew
  <2>5. Sees(seen, S2, envs', Here, w)
    <3>1. SeenBy(seen, Here, w) = seen[n]
      BY <2>2, <2>3 DEF SeenBy
    <3>. QED  BY <1>3, <2>3, <3>1 DEF Sees
  <2>6. Under(u) = Here /\ ~DeclaresIn(Here, w) /\ Linked(notes, seen, Here, u, w)
    BY <1>4, <2>2, <2>3 DEF Under, DeclaresIn, Linked, AwaitsTyped
  <2>7. ~MustEnd(Top)
    BY <1>1, <1>2, <1>9, StopsIs DEF MustEnd
  <2>8. Stays(notes, seen, S2)
    <3>1. u.k # "body" /\ w.k \in {"eval", "exec"} /\ ctl' = Call(u, w) /\ ~returning'
      BY <1>1, <1>2, <1>4, <1>9, <2>3
    <3>. QED  BY <1>2, <1>3, <1>5, <1>6, <1>7, <2>4, <2>5, <2>6, <2>7, <3>1, CallStays
  <2>. QED  BY <1>3, <2>8
<1>. QED  BY <1>1, <1>8, <1>9

(* A block or a for loop goes on to a statement of its own.                *)
LEMMA OnwardStays ==
  ASSUME NEW notes, NEW seen, NEW S, Setting(notes, seen, S), ~returning,
         returning' = returning, envs' = envs, Top.k \in {"after", "loop", "update"},
         Kind(Top.n) \in StmtKind, NEW i \in 1 .. Children(Top.n), i \notin ExprChildren(Top.n),
         NEW u, u.n = Top.n, u.e = Top.e, u.k \in {"loop", "update"},
         ctl' = Call(u, Exec(Child(Top.n, i), Top.e)),
         Stands(notes, seen, Here, u), Knows(S, u), ~DeclaresIn(Here, Top),
         SeenBy(seen, Here, Top) = seen[Child(Top.n, i)],
         DeclaresIn(Here, Exec(Child(Top.n, i), Top.e))
            => u.k = "loop" /\ Kind(u.n) = "BLOCK" /\ u.i - 1 = i,
         ~DeclaresIn(Here, Exec(Child(Top.n, i), Top.e))
            => SeenBy(seen, Here, u) = SeenBy(seen, Here, Top),
         MustEnd(Top) => MustEnd(u) \/ (u.k = "loop" /\ Kind(u.n) = "BLOCK" /\ Stops(Child(Top.n, i)))
  PROVE  Stays(notes, seen, S)
<1>. DEFINE n == Top.n
            w == Exec(Child(n, i), Top.e)
<1>1. /\ n \in Node /\ Here \in FunctionsOf(root) /\ RunsAsStmt(Top) /\ Child(n, i) \in Subtree(Here)
      /\ Kind(Child(n, i)) = "CALL" => Child(n, i) \in CallStatements(Here)
  BY StmtHere
<1>2. /\ Surrounded(S, envs, Here, Top) /\ Sees(seen, S, envs, Here, Top) /\ SlotsFit(S, envs)
  BY TopTyped
<1>3. w = NewFrame("exec", Child(n, i), Top.e) /\ w.k = "exec" /\ w.n = Child(n, i) /\ w.e = Top.e
  BY DEF Exec, NewFrame
<1>4. Kind(n) # "LITERAL" /\ Inner
  BY DEF Inner, StmtKind
<1>. HIDE DEF w
<1>5. InPlace(notes, seen, S, envs, Here, w) /\ Sees(seen, S, envs, Here, w)
  BY <1>1, <1>3, <1>4, PlaceHere
<1>6. InPlace(notes, seen, S, envs, Here, u)
  <2>1. Surrounded(S, envs, Here, u)
    BY <1>2, <1>4 DEF Surrounded, Inner
  <2>. QED  BY <1>1, <2>1 DEF InPlace
<1>7. ~DeclaresIn(Here, w) => Sees(seen, S, envs, Here, u)
  BY <1>2, <1>4 DEF Sees, w
<1>8. Under(u) = Here /\ Replaces(Here, Top, u)
  BY <1>1 DEF Under, DeclaresIn, Replaces
<1>9. Linked(notes, seen, Here, u, w)
  BY <1>3 DEF Linked, AwaitsTyped, w
<1>10. MustEnd(Top) => \/ MustEnd(u)
                       \/ u.k = "loop" /\ Kind(u.n) = "BLOCK" /\ MustEnd(w)
  BY <1>3 DEF MustEnd
<1>11. Untouched(S, S, envs', Len(ctl)) /\ SlotsFit(S, envs')
  BY <1>2, Unchanging DEF Setting
<1>12. /\ InPlace(notes, seen, S, envs', Here, u) /\ InPlace(notes, seen, S, envs', Under(u), w)
       /\ Sees(seen, S, envs', Under(u), w) /\ Linked(notes, seen, Under(u), u, w)
       /\ ~DeclaresIn(Under(u), w) => Sees(seen, S, envs', Here, u)
  BY <1>5, <1>6, <1>7, <1>8, <1>9
<1>13. w.k \in {"eval", "exec"} /\ u.k # "body" /\ ~returning' /\ ctl' = Call(u, w)
  BY <1>3 DEF w
<1>. QED  BY <1>8, <1>10, <1>11, <1>12, <1>13, CallStays

LEMMA OnwardLoop ==
  ASSUME NEW notes, NEW seen, NEW S, Setting(notes, seen, S), EnterLoopBody \/ ForUpdate
  PROVE  Stays(notes, seen, S)
<1>. DEFINE n == Top.n
            k == IF Top.k = "after" /\ Kind(n) = "FOR" THEN "update" ELSE "loop"
            i == IF Top.k = "update" THEN 3 ELSE IF Kind(n) = "FOR" THEN 4 ELSE 2
            u == As(k)
<1>1. /\ Top.k \in {"after", "update"} /\ Kind(n) \in {"WHILE", "FOR"} /\ Kind(n) \in StmtKind
      /\ Top.k = "update" => Kind(n) = "FOR"
      /\ ctl' = Call(u, Exec(Child(n, i), Top.e)) /\ returning' = returning /\ envs' = envs
  BY DEF EnterLoopBody, ForUpdate, At, On, Continue, LoopBody, StmtKind
<1>2. ~returning
  <2>1. Top.k = "after" => ~returning
    BY <1>1, StmtHere
  <2>. QED  BY <2>1 DEF EnterLoopBody, ForUpdate, At
<1>3. /\ n \in Node /\ n \in Subtree(Here) /\ Top \in Frame /\ WellShaped(n) /\ Children(n) \in Nat
      /\ Here \in FunctionsOf(root) /\ SeenBy(seen, Here, Top) = seen[n]
      /\ Stands(notes, seen, Here, Top) /\ Knows(S, Top)
  BY <1>1, StmtHere, TopTyped
<1>4. i \in 1 .. Children(n) /\ i \notin ExprChildren(n)
  BY <1>1, <1>3 DEF WellShaped, WellCounted, ExprChildren
<1>5. /\ seen[Child(n, i)] = seen[n]
      /\ Kind(Child(n, i)) = "VAR_DECL" => Ast[Child(n, i)].name \in LooseNames(Here)
  BY <1>1, <1>4, StmtHere
<1>6. Top.i = 1
  BY <1>1, <1>3, StmtHere DEF Stands
<1>7. u.k = k /\ u.n = n /\ u.e = Top.e /\ u.i = 1 /\ k \in {"loop", "update"}
  BY <1>3, <1>6, WithKind DEF As, FrameKind
<1>8. k = "update" => Kind(n) = "FOR"
  OBVIOUS
<1>. HIDE DEF u, k, i
<1>9. Stands(notes, seen, Here, u)
  BY <1>1, <1>3, <1>7, <1>8 DEF Stands, Yields, RunsAsStmt, Callers
<1>10. Knows(S, u)
  BY <1>1, <1>3, <1>7 DEF Knows, Callers
<1>11. ~DeclaresIn(Here, Top) /\ ~DeclaresIn(Here, Exec(Child(n, i), Top.e))
  BY <1>1, <1>5 DEF DeclaresIn, Exec, NewFrame
<1>12. SeenBy(seen, Here, u) = seen[n]
  BY <1>1, <1>7 DEF SeenBy
<1>13. ~MustEnd(Top)
  BY <1>1, <1>3, StopsIs DEF MustEnd
<1>. QED  BY <1>1, <1>2, <1>3, <1>4, <1>5, <1>7, <1>9, <1>10, <1>11, <1>12, <1>13, OnwardStays

LEMMA OnwardBlock ==
  ASSUME NEW notes, NEW seen, NEW S, Setting(notes, seen, S), BlockStatement
  PROVE  Stays(notes, seen, S)
<1>. DEFINE n == Top.n
            i == Top.i
            u == [Top EXCEPT !.i = @ + 1]
            w == Exec(Child(n, i), Top.e)
<1>1. /\ Top.k = "loop" /\ Kind(n) = "BLOCK" /\ Kind(n) \in StmtKind /\ ~returning
      /\ ctl' = Call(u, Exec(Child(n, i), Top.e)) /\ returning' = returning /\ envs' = envs
      /\ i <= Children(n)
  BY DEF BlockStatement, At, On, Continue, StmtKind
<1>2. /\ n \in Node /\ n \in Subtree(Here) /\ Top \in Frame /\ Children(n) \in Nat
      /\ Here \in FunctionsOf(root) /\ StmtRule(root, Here, notes, seen, n)
      /\ Stands(notes, seen, Here, Top) /\ Knows(S, Top)
  BY <1>1, StmtHere, TopTyped
<1>3. i \in Nat \ {0} /\ i \in 1 .. Children(n)
  BY <1>1, <1>2 DEF Frame
<1>4. i \notin ExprChildren(n)
  BY <1>1 DEF ExprChildren
<1>5. u.k = "loop" /\ u.n = n /\ u.e = Top.e /\ u.i = i + 1
  BY <1>1, <1>2 DEF Frame
<1>6. w.k = "exec" /\ w.n = Child(n, i)
  BY DEF Exec, NewFrame
<1>7. SeenBy(seen, Here, Top) = seen[Child(n, i)]
  BY <1>1, <1>2, <1>3 DEF SeenBy, StmtRule
<1>. HIDE DEF u, w
<1>8. ~DeclaresIn(Here, w) => SeenBy(seen, Here, u) = seen[Child(n, i)]
  <2>1. SeenBy(seen, Here, u) = SeenAfter(Here, seen, Child(n, i))
    <3>1. u.i > 1 /\ u.i - 1 = i
      BY <1>3, <1>5
    <3>. QED  BY <1>1, <1>5, <3>1 DEF SeenBy
  <2>. QED  BY <1>6, <2>1 DEF SeenAfter, DeclaresIn
<1>9. Stands(notes, seen, Here, u)
  BY <1>1, <1>2, <1>5 DEF Stands, Yields, RunsAsStmt, Callers
<1>10. Knows(S, u)
  BY <1>1, <1>2, <1>5 DEF Knows, Callers
<1>11. ~DeclaresIn(Here, Top) /\ u.i - 1 = i
  BY <1>1, <1>3, <1>5 DEF DeclaresIn
<1>12. MustEnd(Top) => MustEnd(u) \/ Stops(Child(n, i))
  <2>1. ASSUME NEW j \in i .. Children(n), Stops(Child(n, j)), ~Stops(Child(n, i))
        PROVE  MustEnd(u)
    <3>1. j \in u.i .. Children(n)
      BY <1>3, <1>5, <2>1
    <3>. QED  BY <1>1, <1>5, <2>1, <3>1 DEF MustEnd
  <2>. QED  BY <1>1, <2>1 DEF MustEnd
<1>. HIDE DEF n, i
<1>. QED  BY <1>1, <1>3, <1>4, <1>5, <1>7, <1>8, <1>9, <1>10, <1>11, <1>12, OnwardStays DEF n, w

LEMMA WhileStays ==
  ASSUME NEW notes, NEW seen, NEW S, Setting(notes, seen, S), ExecWhile
  PROVE  Stays(notes, seen, S)
<1>. DEFINE n == Top.n
            u == As("loop")
<1>1. /\ Top.k = "exec" /\ Kind(n) = "WHILE" /\ Kind(n) \in StmtKind
      /\ ctl' = Become(u) /\ returning' = returning /\ envs' = envs
  BY DEF ExecWhile, At, On, Continue, StmtKind
<1>2. /\ n \in Node /\ n \in Subtree(Here) /\ Top \in Frame /\ ~returning
      /\ Here \in FunctionsOf(root) /\ SeenBy(seen, Here, Top) = seen[n] /\ RunsAsStmt(Top)
      /\ Stands(notes, seen, Here, Top) /\ Knows(S, Top) /\ Surrounded(S, envs, Here, Top)
      /\ Sees(seen, S, envs, Here, Top) /\ SlotsFit(S, envs)
  BY <1>1, StmtHere, TopTyped
<1>3. u.k = "loop" /\ u.n = n /\ u.e = Top.e /\ u.i = Top.i
  BY <1>2, WithKind DEF As, FrameKind
<1>. HIDE DEF u
<1>4. Stands(notes, seen, Here, u)
  BY <1>1, <1>2, <1>3 DEF Stands, Yields, RunsAsStmt, Callers
<1>5. Knows(S, u)
  BY <1>1, <1>2, <1>3 DEF Knows, Callers
<1>6. Surrounded(S, envs, Here, u)
  BY <1>1, <1>2, <1>3 DEF Surrounded
<1>7. Sees(seen, S, envs, Here, u)
  <2>1. SeenBy(seen, Here, u) = seen[n]
    BY <1>1, <1>3 DEF SeenBy
  <2>. QED  BY <1>2, <1>3, <2>1 DEF Sees
<1>8. InPlace(notes, seen, S, envs, Here, u)
  BY <1>2, <1>4, <1>5, <1>6 DEF InPlace
<1>9. ~MustEnd(Top) /\ ~DeclaresIn(Here, Top) /\ ~DeclaresIn(Here, u) /\ ~AwaitsTyped(u)
      /\ Replaces(Here, Top, u)
  BY <1>1, <1>2, <1>3, StopsIs DEF MustEnd, DeclaresIn, AwaitsTyped, Replaces
<1>10. Untouched(S, S, envs', Len(ctl)) /\ SlotsFit(S, envs')
  BY <1>1, <1>2, Unchanging DEF Setting
<1>. QED  BY <1>1, <1>2, <1>3, <1>7, <1>8, <1>9, <1>10, BecomeStays

LEMMA MainStays ==
  ASSUME NEW notes, NEW seen, NEW S, Setting(notes, seen, S), MainStatement
  PROVE  Stays(notes, seen, S)
<1>. DEFINE g == Top.n
            u == [Top EXCEPT !.i = @ + 1]
            w == Exec(Child(g, Top.i), Top.e)
<1>1. /\ Top.k = "main" /\ ~returning /\ Top.i <= Children(g) /\ ctl' = Call(u, w)
      /\ envs' = envs /\ returning' = returning
  BY DEF MainStatement, At
<1>2. /\ Here \in FunctionsOf(root) /\ g = Here /\ Top \in Frame
      /\ Stands(notes, seen, Here, Top) /\ Knows(S, Top) /\ Surrounded(S, envs, Here, Top)
      /\ SlotsFit(S, envs) /\ Sees(seen, S, envs, Here, Top)
  BY <1>1, TopTyped DEF Stands
<1>3. /\ Top.i = 1 /\ Child(g, 1) \in Subtree(g) /\ Kind(Child(g, 1)) = "BLOCK"
      /\ Child(g, 1) \in Node /\ Kind(g) = "FUNC_DECL"
  BY <1>1, <1>2, FunctionIs DEF Setting, Agreed, Frame
<1>4. u.k = "main" /\ u.n = g /\ u.e = Top.e
  BY <1>1, <1>2 DEF Frame
<1>5. w.k = "exec" /\ w.n = Child(g, 1) /\ w.e = Top.e /\ w = NewFrame("exec", Child(g, 1), Top.e)
  BY <1>3 DEF Exec, NewFrame
<1>6. SeenBy(seen, Here, Top) = seen[Child(g, 1)] /\ Inner
  BY <1>1 DEF SeenBy, Inner
<1>. HIDE DEF u, w
<1>7. InPlace(notes, seen, S, envs, Here, u)
  <2>1. Stands(notes, seen, Here, u)
    BY <1>1, <1>2, <1>3, <1>4 DEF Stands, Yields, RunsAsStmt, Callers
  <2>2. Knows(S, u)
    BY <1>1, <1>2, <1>4 DEF Knows, Callers
  <2>3. Surrounded(S, envs, Here, u)
    BY <1>1, <1>2, <1>4 DEF Surrounded
  <2>. QED  BY <1>2, <2>1, <2>2, <2>3 DEF InPlace
<1>8. Sees(seen, S, envs, Here, u)
  <2>1. SeenBy(seen, Here, u) = seen[Child(g, 1)]
    BY <1>4 DEF SeenBy
  <2>. QED  BY <1>2, <1>3, <1>4, <1>6, <2>1 DEF Sees
<1>9. InPlace(notes, seen, S, envs, Here, w) /\ Sees(seen, S, envs, Here, w)
  BY <1>2, <1>3, <1>5, <1>6, PlaceHere
<1>10. Under(u) = Here /\ ~DeclaresIn(Here, w) /\ Replaces(Here, Top, u) /\ ~MustEnd(Top)
  BY <1>1, <1>2, <1>3, <1>4, <1>5 DEF Under, DeclaresIn, Replaces, MustEnd
<1>11. Linked(notes, seen, Here, u, w)
  BY <1>4, <1>10 DEF Linked, AwaitsTyped
<1>12. Untouched(S, S, envs', Len(ctl)) /\ SlotsFit(S, envs')
  BY <1>1, <1>2, Unchanging DEF Setting
<1>13. w.k \in {"eval", "exec"} /\ u.k # "body" /\ ~returning'
  BY <1>1, <1>4, <1>5
<1>. QED  BY <1>1, <1>7, <1>8, <1>9, <1>10, <1>11, <1>12, <1>13, CallStays

-----------------------------------------------------------------------------
(* The whole run.                                                          *)

(* Every step but one that ends the process keeps the run typed.           *)
LEMMA StepStays ==
  ASSUME NEW notes, NEW seen, NEW S, Setting(notes, seen, S), Next, status' = "running"
  PROVE  \E S2 \in [EnvId -> Desc] : Stays(notes, seen, S2)
<1>1. S \in [EnvId -> Desc]
  BY DEF Setting
<1>2. CASE \/ EvalOperand \/ AfterUnary \/ AfterLeft \/ AfterRight
           \/ EvalLiteral \/ EvalVarRef \/ EvalUnknownCall
  BY <1>1, <1>2, OperatorStays, LeafStays
<1>3. CASE EvalCall \/ BindArgument
  BY <1>3, EvalCallStays, BindStays
<1>4. CASE EvalArgument \/ EnterBody \/ BodyStatement \/ LeaveBody
  BY <1>1, <1>4, EvalArgumentStays, EnterBodyStays, BodyStays, LeaveBodyStays
<1>5. CASE \/ ExecOperand \/ LoopTest \/ ExecCall \/ AfterPrint \/ AfterCall \/ ExecIgnored
           \/ ExecReturn \/ AfterReturn
  BY <1>1, <1>5, ExecOperandStays, ExecCallStays, IgnoredStays, ReturnStays
<1>6. CASE LeaveBlock \/ LoopFails \/ LoopReturns \/ AfterIf \/ AfterAssign
  BY <1>1, <1>6, LeaveStays, BranchStays, AssignStays
<1>7. CASE ExecVarDecl \/ AfterVarDecl \/ ExecBlock \/ ExecFor
  BY <1>7, DeclareStays, OpenStays
<1>8. CASE EnterLoopBody \/ ForUpdate \/ BlockStatement \/ ExecWhile \/ MainStatement
  BY <1>1, <1>8, OnwardLoop, OnwardBlock, WhileStays, MainStays
<1>9. ~(NoMain \/ StartMain \/ MainDone \/ OutOfMemory \/ Terminated)
  BY DEF Setting, Running, NoMain, StartMain, MainDone, OutOfMemory, Crash, Terminated
<1>. QED  BY <1>2, <1>3, <1>4, <1>5, <1>6, <1>7, <1>8, <1>9 DEF Next, Step, Evaluate, Execute

(* The run starts typed.                                                   *)
LEMMA StartStays ==
  ASSUME NEW notes, NEW seen, Agreed(notes, seen), TypeInv, EnvInv, StartMain
  PROVE  \E S2 \in [EnvId -> Desc] : Stays(notes, seen, S2)
<1>. DEFINE f == MainFunction
            t == NewFrame("main", f, FreshEnv)
            S2 == [d \in EnvId |-> Described(f, FALSE)]
<1>1. /\ status = "start" /\ f # NoNode /\ ctl' = <<t>> /\ envs' = env_create(NoEnv)
      /\ returning' = returning /\ return_val' = return_val
  BY DEF StartMain
<1>2. f \in FunctionsOf(root) /\ Kind(f) = "FUNC_DECL" /\ Child(f, 1) \in Node
      /\ Kind(Child(f, 1)) = "BLOCK" /\ f \in Node
  BY <1>1, FoundIsFunction, FunctionIs DEF MainFunction, Agreed
<1>3. /\ Described(f, FALSE) \in Desc /\ Described(f, FALSE).fun = f
      /\ ~Described(f, FALSE).args /\ NothingIn(Described(f, FALSE).types)
  BY <1>2, DescribedIs DEF Agreed
<1>4. S2 \in [EnvId -> Desc] /\ \A d \in EnvId : S2[d] = Described(f, FALSE)
  BY <1>3
<1>5. ~returning /\ \A e \in EnvId : ~Live(e)
  BY <1>1 DEF TypeInv, CleanStart
<1>6. FreshEnv \in EnvId /\ envs \in [EnvId -> Env]
  BY <1>5, EnvAssumption, FreshIsFree DEF HeapFull, TypeInv, TypeOK
<1>7. /\ envs'[FreshEnv].chain = <<FreshEnv>> /\ \A x \in VarName : envs'[FreshEnv].vars[x] = Unset
      /\ \A d \in EnvId : d # FreshEnv => envs'[d].chain = <<>>
  BY <1>1, <1>5, <1>6 DEF env_create, Live
<1>8. t.k = "main" /\ t.n = f /\ t.e = FreshEnv /\ t.i = 1 /\ Len(ctl') = 1 /\ ctl'[1] = t
  BY <1>1 DEF NewFrame
<1>9. FunctionAt(ctl', 1) = f /\ FunctionAt(ctl', Len(ctl') + 1) = f
  <2>1. 1 \in Nat \ {0} /\ Len(ctl') + 1 = 1 + 1 /\ ctl'[1].k # "body"
    BY <1>8
  <2>. QED  BY <2>1, FunctionNext
<1>. HIDE DEF S2, t
<1>10. Len(envs'[FreshEnv].chain) = 1 /\ envs'[FreshEnv].chain[1] = FreshEnv
  BY <1>7
<1>11. InPlace(notes, seen, S2, envs', f, t)
  <2>1. Stands(notes, seen, f, t)
    BY <1>2, <1>8 DEF Stands, Yields, RunsAsStmt, Callers
  <2>2. Knows(S2, t)
    BY <1>3, <1>4, <1>6, <1>8 DEF Knows, Callers
  <2>3. Surrounded(S2, envs', f, t)
    <3>1. \A c \in 1 .. 1 : c = 1
      OBVIOUS
    <3>2. S2[FreshEnv].fun = f /\ ~S2[FreshEnv].args
      BY <1>3, <1>4, <1>6
    <3>. QED  BY <1>8, <1>10, <3>1, <3>2 DEF Surrounded
  <2>. QED  BY <1>2, <2>1, <2>2, <2>3 DEF InPlace
<1>12. Sees(seen, S2, envs', f, t)
  <2>1. ParamsSeen(f, seen[Child(f, 1)]) /\ ParamsOf(f) = <<>>
    BY <1>1, <1>2 DEF Agreed, WellTyped, FunctionTyped, MainTakesNothing, MainFunction
  <2>2. ASSUME NEW x \in VarName \ LooseNames(f) PROVE seen[Child(f, 1)][x] = NoType
    <3>1. {ParamsOf(f)[i].name : i \in 1 .. Len(ParamsOf(f))} = {}
      BY <2>1
    <3>. QED  BY <2>1, <3>1 DEF ParamsSeen
  <2>3. ASSUME NEW x \in VarName PROVE S2[FreshEnv].types[x] = NoType
    BY <1>3, <1>4, <1>6 DEF NothingIn
  <2>4. SeenBy(seen, f, t) = seen[Child(f, 1)]
    BY <1>8 DEF SeenBy
  <2>5. \A c \in 1 .. 1 : c = 1
    OBVIOUS
  <2>. QED  BY <1>8, <1>10, <2>2, <2>3, <2>4, <2>5 DEF Sees, Models, TypeSeen
<1>13. StackTyped(notes, seen, S2, ctl', envs')
  <2>1. \A k \in 1 .. Len(ctl') : k = 1
    BY <1>8
  <2>2. \A k \in 1 .. Len(ctl') - 1 : FALSE
    BY <1>8
  <2>. QED  BY <1>8, <1>9, <1>11, <1>12, <2>1, <2>2 DEF StackTyped
<1>14. \A k \in 1 .. Len(ctl') : WillReturn(ctl', k, returning')
  <2>1. \A k \in 1 .. Len(ctl') : k = 1
    BY <1>8
  <2>. QED  BY <1>8, <2>1 DEF WillReturn
<1>15. SlotsFit(S2, envs')
  <2>1. SlotFits(S2[FreshEnv], envs'[FreshEnv].vars)
    BY <1>3, <1>4, <1>6, <1>7 DEF SlotFits, NothingIn
  <2>. QED  BY <1>7, <2>1 DEF SlotsFit
<1>16. Arrived(notes, ctl'[Len(ctl')], val')
  BY <1>8 DEF Arrived, AwaitsTyped
<1>. QED  BY <1>1, <1>4, <1>5, <1>13, <1>14, <1>15, <1>16 DEF Stays


-----------------------------------------------------------------------------
(* The invariant.  The program does not change while it runs.              *)

LEMMA FunctionAtNext ==
  ASSUME root' = root, NEW k
  PROVE  FunctionAt(ctl, k)' = FunctionAt(ctl', k)
BY DEF FunctionAt, MainFunction, Callee

LEMMA InPlaceNext ==
  ASSUME root' = root, NEW notes, NEW seen, NEW S, NEW k
  PROVE  InPlace(notes, seen, S, envs, FunctionAt(ctl, k), ctl[k])'
            <=> InPlace(notes, seen, S, envs', FunctionAt(ctl', k), ctl'[k])
BY FunctionAtNext DEF InPlace, Stands, Typable, Knows, Callee

LEMMA SeesNext ==
  ASSUME root' = root, NEW seen, NEW S, NEW k
  PROVE  Sees(seen, S, envs, FunctionAt(ctl, k), ctl[k])'
            <=> Sees(seen, S, envs', FunctionAt(ctl', k), ctl'[k])
BY FunctionAtNext

LEMMA StackNext ==
  ASSUME root' = root, NEW notes, NEW seen, NEW S
  PROVE  StackTyped(notes, seen, S, ctl, envs)' <=> StackTyped(notes, seen, S, ctl', envs')
BY FunctionAtNext, InPlaceNext, SeesNext DEF StackTyped, Linked, Declaring

LEMMA StaysNext ==
  ASSUME root' = root, NEW notes, NEW seen, NEW S, Stays(notes, seen, S)
  PROVE  RunTyped(notes, seen, S)'
<1>1. StackTyped(notes, seen, S, ctl, envs)'
  BY StackNext DEF Stays
<1>2. \A k \in 1 .. Len(ctl') : WillReturn(ctl, k, returning)'
  BY DEF Stays, WillReturn, Callee, Owes
<1>3. FunctionAt(ctl, Len(ctl) + 1)' = FunctionAt(ctl', Len(ctl') + 1)
  BY DEF FunctionAt, MainFunction, Callee
<1>. QED  BY <1>1, <1>2, <1>3 DEF RunTyped, Stays, SlotsFit, Arrived, Top

TypedRun(notes, seen) ==
    Agreed(notes, seen) /\ Running => \E S \in [EnvId -> Desc] : RunTyped(notes, seen, S)

LEMMA ProgramStays ==
  ASSUME Next
  PROVE  root' = root
<1>1. CASE NoMain \/ StartMain \/ MainStatement \/ MainDone \/ OutOfMemory \/ Terminated
  BY <1>1 DEF NoMain, StartMain, MainStatement, MainDone, OutOfMemory, Crash, Terminated, vars
<1>2. CASE Evaluate
  BY <1>2 DEF Evaluate, EvalLiteral, EvalVarRef, EvalOperand, AfterUnary, AfterLeft, AfterRight,
              EvalUnknownCall, EvalCall, EvalArgument, BindArgument, EnterBody, BodyStatement,
              LeaveBody, Deliver, Continue, Crash
<1>3. CASE Execute
  BY <1>3 DEF Execute, ExecOperand, ExecVarDecl, AfterVarDecl, AfterAssign, AfterIf, AfterPrint,
              ExecReturn, AfterReturn, ExecCall, AfterCall, ExecIgnored, ExecWhile, ExecBlock,
              ExecFor, BlockStatement, LeaveBlock, LoopTest, EnterLoopBody, LoopFails,
              LoopReturns, LeaveLoop, ForUpdate, Continue, Finish
<1>. QED  BY <1>1, <1>2, <1>3 DEF Next, Step

LEMMA OnlyStartsMain ==
  ASSUME Next, ~Running, status' = "running"
  PROVE  StartMain
<1>1. ~Evaluate
  BY DEF Running, At, Evaluate, EvalLiteral, EvalVarRef, EvalOperand, AfterUnary, AfterLeft,
         AfterRight, EvalUnknownCall, EvalCall, EvalArgument, BindArgument, EnterBody,
         BodyStatement, LeaveBody
<1>2. ~Execute
  BY DEF Running, At, Execute, ExecOperand, ExecVarDecl, AfterVarDecl, AfterAssign, AfterIf,
         AfterPrint, ExecReturn, AfterReturn, ExecCall, AfterCall, ExecIgnored, ExecWhile,
         ExecBlock, ExecFor, BlockStatement, LeaveBlock, LoopTest, EnterLoopBody, LoopFails,
         LoopReturns, ForUpdate
<1>3. ~(NoMain \/ MainStatement \/ MainDone \/ OutOfMemory \/ Terminated)
  BY DEF Running, At, NoMain, MainStatement, MainDone, OutOfMemory, Crash, Terminated, vars
<1>. QED  BY <1>1, <1>2, <1>3 DEF Next, Step

LEMMA TypedSteps ==
  ASSUME NEW notes, NEW seen, TypeInv, RetInv, EnvInv, TypedRun(notes, seen), [Next]_vars
  PROVE  TypedRun(notes, seen)'
<1>1. CASE UNCHANGED vars
  <2>. SUFFICES ASSUME Agreed(notes, seen)', Running'
                PROVE  (\E S \in [EnvId -> Desc] : RunTyped(notes, seen, S))'
    BY DEF TypedRun
  <2>1. Agreed(notes, seen) /\ Running
    BY <1>1 DEF vars, Agreed, MainTakesNothing, Callee, Running
  <2>2. PICK S \in [EnvId -> Desc] : RunTyped(notes, seen, S)
    BY <2>1 DEF TypedRun
  <2>3. Stays(notes, seen, S)
    BY <1>1, <2>2 DEF vars, RunTyped, Stays, Top
  <2>4. RunTyped(notes, seen, S)'
    BY <1>1, <2>3, StaysNext DEF vars
  <2>. QED  BY <2>2, <2>4
<1>2. CASE Next
  <2>1. root' = root
    BY <1>2, ProgramStays
  <2>. SUFFICES ASSUME Agreed(notes, seen)', Running'
                PROVE  (\E S \in [EnvId -> Desc] : RunTyped(notes, seen, S))'
    BY DEF TypedRun
  <2>2. Agreed(notes, seen)
    BY <2>1 DEF Agreed, MainTakesNothing, Callee
  <2>3. \E S \in [EnvId -> Desc] : Stays(notes, seen, S)
    <3>1. CASE Running
      <4>1. PICK S \in [EnvId -> Desc] : RunTyped(notes, seen, S)
        BY <2>2, <3>1 DEF TypedRun
      <4>2. Setting(notes, seen, S) /\ status' = "running"
        BY <2>2, <3>1, <4>1 DEF Setting, Running
      <4>. QED  BY <1>2, <4>2, StepStays
    <3>2. CASE ~Running
      <4>1. StartMain
        BY <1>2, <3>2, OnlyStartsMain DEF Running
      <4>. QED  BY <2>2, <4>1, StartStays
    <3>. QED  BY <3>1, <3>2
  <2>4. PICK S \in [EnvId -> Desc] : Stays(notes, seen, S)
    BY <2>3
  <2>5. RunTyped(notes, seen, S)'
    BY <2>1, <2>4, StaysNext
  <2>. QED  BY <2>4, <2>5
<1>. QED  BY <1>1, <1>2

(* The values and the variables of a typed run.                            *)

LEMMA UseBound ==
  ASSUME NEW notes, NEW seen, NEW S, Setting(notes, seen, S),
         \/ Top.k = "eval" /\ Kind(Top.n) = "VAR_REF"
         \/ Top.k = "after" /\ Kind(Top.n) = "ASSIGN",
         Ast[Top.n].name \notin LooseNames(Here)
  PROVE  Holder(Top.e, Ast[Top.n].name) # NoEnv
<1>. DEFINE n == Top.n
            x == Ast[n].name
<1>1. n \in Node /\ x \in VarName
  BY Activation, AstAssumption DEF Setting
<1>2. SeenBy(seen, Here, Top)[x] # NoType
  <2>0. SeenBy(seen, Here, Top) = seen[n]
    BY DEF SeenBy
  <2>1. CASE Top.k = "eval" /\ Kind(n) = "VAR_REF"
    <3>1. ExprTyped(root, Here, notes, seen, n)
      <4>1. Typable(notes, seen, Here, n)
        BY <2>1, TopTyped DEF Stands, Yields
      <4>2. n \notin CallStatements(Here)
        BY <2>1 DEF CallStatements
      <4>. QED  BY <4>1, <4>2 DEF Typable
    <3>2. ExprRule(root, Here, notes, seen, n) /\ HasType(notes, n)
      BY <1>1, <3>1, ExpressionDown
    <3>3. TypeIn(notes, n) \in DataType
      BY <1>1, <3>2, TypeKnown DEF Setting
    <3>. QED  BY <2>0, <2>1, <3>2, <3>3 DEF ExprRule, TypeIn, TypeOfVariable, DataType, NoType
  <2>2. CASE Top.k = "after" /\ Kind(n) = "ASSIGN"
    <3>1. StmtRule(root, Here, notes, seen, n)
      BY <2>2, StmtHere DEF StmtKind
    <3>. QED  BY <2>0, <2>2, <3>1 DEF StmtRule, TypeOfVariable
  <2>. QED  BY <2>1, <2>2
<1>3. Kind(n) # "LITERAL"
  OBVIOUS
<1>. HIDE DEF n, x
<1>4. Holder(Top.e, x) \in EnvId
  BY <1>1, <1>2, <1>3, FoundWhereSeen DEF n, x
<1>. QED  BY <1>4, EnvAssumption DEF n, x

LEMMA ArrivesTyped ==
  ASSUME NEW notes, NEW seen, NEW S, Setting(notes, seen, S)
  PROVE  /\ Top.k = "after" /\ Kind(Top.n) # "CALL"
              => Conforms(val.type, TypeIn(notes, Child(Top.n, AwaitedIndex(Top))))
         /\ Top.k = "bind"
              => Conforms(val.type, ParamsOf(Callee(Top.n))[Top.i].type)
<1>1. Arrived(notes, Top, val)
  BY TopTyped
<1>2. ASSUME Top.k = "bind" PROVE Conforms(val.type, ParamsOf(Callee(Top.n))[Top.i].type)
  <2>1. Top.i \in 1 .. Len(Ast[Top.n].args)
    <3>1. Top.i <= Len(Ast[Top.n].args) /\ Top.i \in Nat \ {0}
      BY <1>2, TopTyped DEF Stands, Frame
    <3>2. Len(Ast[Top.n].args) \in Nat
      BY <1>2, CallHere DEF Callers
    <3>. QED  BY <3>1, <3>2
  <2>2. Conforms(TypeIn(notes, Ast[Top.n].args[Top.i]), ParamsOf(Callee(Top.n))[Top.i].type)
    BY <1>2, <2>1, CallHere DEF Callers
  <2>3. Conforms(val.type, TypeIn(notes, Ast[Top.n].args[Top.i]))
    BY <1>1, <1>2 DEF Arrived, AwaitsTyped, AwaitedOf
  <2>. QED  BY <2>2, <2>3, ConformsOn
<1>. QED  BY <1>1, <1>2 DEF Arrived, AwaitsTyped, AwaitedOf

LEMMA SlotsTyped ==
  ASSUME NEW notes, NEW seen, NEW S, Setting(notes, seen, S), Owned(Top) # NoEnv,
         NEW x \in VarName \ LooseNames(Here), envs[Owned(Top)].vars[x] # Unset
  PROVE  LET type == envs[Owned(Top)].vars[x].type
         IN  IF Top.k \in Callers
             THEN \E j \in 1 .. Len(ParamsOf(Callee(Top.n))) :
                     /\ ParamsOf(Callee(Top.n))[j].name = x
                     /\ Conforms(type, ParamsOf(Callee(Top.n))[j].type)
             ELSE \E m \in Nodes(Top.n, {"VAR_DECL"}) :
                     Ast[m].name = x /\ Conforms(type, Ast[m].type)
<1>. DEFINE e == Owned(Top)
<1>1. e \in EnvId /\ envs[e].chain # <<>>
  BY HeapFacts DEF Setting, FrameOK
<1>2. SlotFits(S[e], envs[e].vars) /\ Knows(S, Top) /\ Surrounded(S, envs, Here, Top)
  BY <1>1, TopTyped DEF SlotsFit
<1>3. CASE Top.k \in Callers
  <2>. DEFINE g == Callee(Top.n)
              m == IF Top.k = "body" THEN Len(ParamsOf(g)) ELSE Top.i - 1
  <2>1. e = Top.f /\ S[e].args /\ FirstParams(g, S[e].types, m)
    BY <1>2, <1>3 DEF Owned, Knows, Callers
  <2>2. S[e].types[x] # NoType /\ Conforms(envs[e].vars[x].type, S[e].types[x])
    BY <1>2, <2>1 DEF SlotFits
  <2>3. PICK j \in 1 .. m : ParamsOf(g)[j].name = x /\ ParamsOf(g)[j].type = S[e].types[x]
    BY <2>1, <2>2 DEF FirstParams
  <2>4. j \in 1 .. Len(ParamsOf(g))
    <3>1. Len(ParamsOf(g)) \in Nat /\ Top.i \in Nat \ {0}
      BY <1>3, CallHere
    <3>2. m \in Int /\ m <= Len(ParamsOf(g))
      BY <1>3, <3>1, TopTyped DEF Stands, Callers
    <3>. HIDE DEF m, g
    <3>. QED  BY <3>1, <3>2
  <2>. QED  BY <1>3, <2>2, <2>3, <2>4
<1>4. CASE Top.k \notin Callers
  <2>1. e = Top.e
    BY <1>4 DEF Owned, Callers
  <2>2. S[e].fun = Here
    <3>1. Len(ctl) \in 1 .. Len(ctl) /\ Top = ctl[Len(ctl)]
      BY TopTyped
    <3>2. 1 \in 1 .. Len(envs[Top.e].chain) /\ envs[Top.e].chain[1] = Top.e
      BY <3>1, ChainOwned DEF Setting
    <3>. QED  BY <1>2, <2>1, <3>2 DEF Surrounded
  <2>3. S[e].types[x] # NoType /\ Conforms(envs[e].vars[x].type, S[e].types[x])
    BY <1>2, <2>2 DEF SlotFits
  <2>4. Top.k = "loop" /\ Kind(Top.n) = "BLOCK"
    <3>1. ~NothingIn(S[Top.e].types)
      BY <2>1, <2>3 DEF NothingIn
    <3>2. \/ Top.k \in {"main", "update"}
          \/ Top.k = "loop" /\ Kind(Top.n) \in {"BLOCK", "FOR"}
          \/ Top.k = "after" /\ Kind(Top.n) = "FOR"
      BY <1>4 DEF Owned, Callers
    <3>3. Top.k = "update" => Kind(Top.n) = "FOR"
      BY TopTyped DEF Stands
    <3>. QED  BY <1>2, <3>1, <3>2, <3>3 DEF Knows
  <2>. QED  BY <1>2, <1>4, <2>1, <2>3, <2>4 DEF Knows
<1>. QED  BY <1>3, <1>4


(* In every program: once its notes fit it and it keeps clear of the known *)
(* gaps, every activation stands where the typing allows it, sees the      *)
(* variables the checker saw there, and every value is of its type.        *)
THEOREM RunStaysTyped ==
  ASSUME NEW notes, NEW seen
  PROVE  Spec => []TypedRun(notes, seen)
<1>1. Init => TypedRun(notes, seen)
  BY DEF Init, TypedRun, Running
<1>2. /\ TypeInv /\ RetInv /\ EnvInv /\ TypedRun(notes, seen) /\ [Next]_vars
         => TypedRun(notes, seen)'
  BY TypedSteps
<1>. QED  BY <1>1, <1>2, ReturnsInvariant, EnvInvariant, PTL DEF Spec
=============================================================================
