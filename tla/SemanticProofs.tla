--------------------------- MODULE SemanticProofs ---------------------------
(***************************************************************************)
(* What holds of the checker for every program.  First, whatever           *)
(* check_expression finds: its scopes are those of the functions and       *)
(* blocks it is in, the static return type is that of the enclosing        *)
(* function, and the global scope is the program's list of functions.      *)
(* Then what check_expression finds in any expression, by induction over   *)
(* the tree, and what follows for the check of a whole program: the types  *)
(* of the checker's state, that no error is masked, and that nothing but   *)
(* expression statements is skipped.                                       *)
(***************************************************************************)
EXTENDS Semantic, TreeProofs

Activation == [n : Node, i : Nat]
Scope      == UNION {[names -> Symbol] : names \in SUBSET STRING}

Opens(t) == Kind(t.n) \in {"FUNC_DECL", "BLOCK"} /\ t.i > 0
Open(s)  == {j \in 1 .. Len(s) : Opens(s[j])}

(* The traversal is in the program, then in a function, then in that       *)
(* function's body; what it is not in last has begun.                      *)
Path(s) ==
    /\ s \in Seq(Activation)
    /\ \A j \in 1 .. Len(s) : /\ Kind(s[j].n) = "PROGRAM" <=> j = 1
                              /\ Kind(s[j].n) = "FUNC_DECL" <=> j = 2
                              /\ j < Len(s) => s[j].i > 0
    /\ s # <<>> => s[1].n = root

Mirrors(s, t) == Len(t) = 1 + Cardinality(Open(s))

ReturnsAs(s, type) == Len(s) >= 2 /\ s[2].i > 0 => type = Ast[s[2].n].type

HoldsFunctions(scope) ==
    /\ DOMAIN scope = {Ast[Child(root, i)].name : i \in 1 .. Children(root)}
    /\ \A name \in DOMAIN scope :
          LET f == FindFunction(root, name)
          IN  scope[name] = Signature(Ast[f].type, ParamTypes(f))

HasNoFunction(scope) == \A name \in DOMAIN scope : scope[name].kind # "FUNCTION"

Registered(s, t) ==
    /\ s # <<>> /\ s[1].i > 0 => HoldsFunctions(t[1])
    /\ \A d \in 2 .. Len(t) : HasNoFunction(t[d])

(* The inductive invariant.                                                *)
CheckInv ==
    /\ root \in Roots
    /\ phase = "start" => todo = <<>>
    /\ Path(todo)
    /\ tab \in Seq(Scope)
    /\ Mirrors(todo, tab)
    /\ ReturnsAs(todo, ret_type)
    /\ Registered(todo, tab)

-----------------------------------------------------------------------------
(* The tree.                                                               *)

LEMMA RootIsProgram ==
  ASSUME root \in Roots
  PROVE  root \in Node /\ Kind(root) = "PROGRAM"
BY AstAssumption

LEMMA NodeIs ==
  ASSUME NEW n \in Node
  PROVE  /\ Children(n) \in Nat
         /\ Ast[n].type \in DataType /\ Ast[n].name \in STRING
         /\ Kind(n) \in NodeKind
         /\ Ast[n].params \in Seq(Param)
<1>1. Ast[n] \in AstNode
  BY AstAssumption
<1>. QED  BY <1>1 DEF AstNode, Children, Kind

LEMMA ChildIs ==
  ASSUME NEW n \in Node, NEW i \in 1 .. Children(n)
  PROVE  /\ Child(n, i) \in Node
         /\ Kind(n) = "PROGRAM" <=> Kind(Child(n, i)) = "FUNC_DECL"
         /\ Kind(Child(n, i)) # "PROGRAM"
<1>1. Ast[n].children \in Seq(Node) /\ WellShaped(n)
  BY AstAssumption DEF AstNode
<1>2. Child(n, i) \in Node
  BY <1>1 DEF Child, Children
<1>3. Kind(Child(n, i)) \in
             IF Kind(n) = "PROGRAM"      THEN {"FUNC_DECL"}
             ELSE IF Kind(n) = "FUNC_DECL" THEN {"BLOCK"}
             ELSE IF i \in ExprChildren(n) THEN ExprKind
             ELSE StmtKind \cup ExprKind
  BY <1>1 DEF WellShaped
<1>4. {"PROGRAM", "FUNC_DECL"} \cap (StmtKind \cup ExprKind) = {}
  BY DEF StmtKind, ExprKind
<1>5. CASE Kind(n) = "PROGRAM"
  BY <1>2, <1>3, <1>5
<1>6. CASE Kind(n) = "FUNC_DECL"
  BY <1>2, <1>3, <1>6
<1>7. CASE Kind(n) \notin {"PROGRAM", "FUNC_DECL"}
  <2>1. Kind(Child(n, i)) \in StmtKind \cup ExprKind
    BY <1>3, <1>7, Zenon
  <2>. QED  BY <1>2, <1>4, <1>7, <2>1
<1>. QED  BY <1>5, <1>6, <1>7

-----------------------------------------------------------------------------
(* What a step does to the stack of the traversal.                         *)

LEMMA OpenIsFinite ==
  ASSUME NEW s \in Seq(Activation)
  PROVE  /\ IsFiniteSet(Open(s)) /\ Cardinality(Open(s)) \in Nat
         /\ Open(s) = {} => Cardinality(Open(s)) = 0
         /\ \A j \in Open(s) : Cardinality(Open(s)) >= 1
<1>1. IsFiniteSet(1 .. Len(s))
  BY FS_Interval
<1>2. Open(s) \in SUBSET (1 .. Len(s))
  BY DEF Open
<1>3. IsFiniteSet(Open(s))
  BY <1>1, <1>2, FS_Subset
<1>4. Cardinality(Open(s)) \in Nat
  BY <1>3, FS_CardinalityType
<1>5. Cardinality(Open(s)) = 0 <=> Open(s) = {}
  BY <1>3, FS_EmptySet
<1>. QED  BY <1>3, <1>4, <1>5

LEMMA TopIs ==
  ASSUME Path(todo), todo # <<>>
  PROVE  /\ Len(todo) \in Nat \ {0}
         /\ Top = todo[Len(todo)] /\ Top \in Activation
         /\ Top.n \in Node /\ Top.i \in Nat
         /\ Kind(Top.n) = "PROGRAM" <=> Len(todo) = 1
         /\ Kind(Top.n) = "FUNC_DECL" <=> Len(todo) = 2
         /\ Len(todo) \in Open(todo) <=> Opens(Top)
<1>1. Len(todo) \in Nat \ {0} /\ Len(todo) \in 1 .. Len(todo)
  BY DEF Path
<1>2. Top = todo[Len(todo)] /\ Top \in Activation
  BY <1>1 DEF Path, Top
<1>3. Top.n \in Node /\ Top.i \in Nat
  BY <1>2 DEF Activation
<1>4. /\ Kind(todo[Len(todo)].n) = "PROGRAM" <=> Len(todo) = 1
      /\ Kind(todo[Len(todo)].n) = "FUNC_DECL" <=> Len(todo) = 2
  BY <1>1 DEF Path
<1>. QED  BY <1>1, <1>2, <1>3, <1>4 DEF Open

LEMMA BelowIs ==
  ASSUME Path(todo), todo # <<>>
  PROVE  /\ Below \in Seq(Activation) /\ Len(Below) = Len(todo) - 1
         /\ \A j \in 1 .. Len(todo) - 1 : Below[j] = todo[j]
<1>1. Len(todo) \in Nat \ {0} /\ todo \in Seq(Activation)
  BY TopIs DEF Path
<1>2. \A j \in 1 .. Len(todo) - 1 : todo[j] \in Activation
  BY <1>1, ElementOfSeq
<1>3. 1 \in Int /\ Len(todo) - 1 \in Int
  BY <1>1
<1>4. /\ Below \in Seq(Activation)
      /\ Len(Below) = IF 1 <= Len(todo) - 1 THEN (Len(todo) - 1) - 1 + 1 ELSE 0
      /\ \A j \in 1 .. (Len(todo) - 1) - 1 + 1 : Below[j] = todo[1 + j - 1]
  BY ONLY <1>2, <1>3, SubSeqProperties DEF Below
<1>5. \A m \in Nat \ {0} : (IF 1 <= m - 1 THEN (m - 1) - 1 + 1 ELSE 0) = m - 1
  OBVIOUS
<1>6. Len(Below) = Len(todo) - 1
  BY <1>1, <1>4, <1>5, Zenon
<1>7. \A j \in 1 .. Len(todo) - 1 : 1 + j - 1 = j /\ j \in 1 .. (Len(todo) - 1) - 1 + 1
  BY <1>1
<1>. QED  BY <1>1, <1>4, <1>6, <1>7

(* The node on top is left.                                                *)
LEMMA Leaving ==
  ASSUME Path(todo), todo # <<>>
  PROVE  /\ Path(Below)
         /\ Open(Below) = Open(todo) \ {Len(todo)}
         /\ \A j \in 1 .. Len(Below) : j \in 1 .. Len(todo) /\ Below[j] = todo[j]
         /\ Below # <<>> => todo # <<>>
<1>1. /\ Len(todo) \in Nat \ {0}
      /\ Below \in Seq(Activation) /\ Len(Below) = Len(todo) - 1
      /\ \A j \in 1 .. Len(Below) : j \in 1 .. Len(todo) /\ Below[j] = todo[j]
  <2>1. Len(todo) \in Nat \ {0}
    BY TopIs
  <2>2. \A j \in 1 .. Len(todo) - 1 : j \in 1 .. Len(todo)
    BY <2>1
  <2>. QED  BY <2>1, <2>2, BelowIs
<1>2. \A j \in 1 .. Len(Below) : j < Len(todo)
  BY <1>1
<1>3. Below # <<>> => 1 \in 1 .. Len(Below)
  BY <1>1
<1>4. Path(Below)
  BY <1>1, <1>2, <1>3 DEF Path
<1>5. Open(Below) = Open(todo) \ {Len(todo)}
  <2>1. \A j : j \in 1 .. Len(todo) /\ j # Len(todo) <=> j \in 1 .. Len(Below)
    BY <1>1
  <2>. QED  BY <1>1, <2>1 DEF Open
<1>. QED  BY <1>1, <1>4, <1>5

(* The node on top goes on to its next child.                              *)
LEMMA Advancing ==
  ASSUME Path(todo), todo # <<>>
  PROVE  /\ Path(Advanced) /\ Len(Advanced) = Len(todo)
         /\ \A j \in 1 .. Len(todo) : /\ Advanced[j].n = todo[j].n
                                      /\ Advanced[j].i >= todo[j].i
                                      /\ j # Len(todo) => Advanced[j] = todo[j]
         /\ Advanced[Len(todo)].i = Top.i + 1
<1>. DEFINE t == [Top EXCEPT !.i = @ + 1]
<1>1. /\ Len(todo) \in Nat \ {0} /\ Top = todo[Len(todo)] /\ Top \in Activation
      /\ Top.i \in Nat
  BY TopIs
<1>2. t \in Activation /\ t.n = Top.n /\ t.i = Top.i + 1
  BY <1>1 DEF Activation
<1>3. /\ Advanced \in Seq(Activation) /\ Len(Advanced) = Len(todo)
      /\ Advanced[Len(todo)] = t
      /\ \A j \in 1 .. Len(todo) : j # Len(todo) => Advanced[j] = todo[j]
  <2>. HIDE DEF t
  <2>1. /\ Below \in Seq(Activation) /\ Len(Below) = Len(todo) - 1
        /\ \A j \in 1 .. Len(todo) - 1 : Below[j] = todo[j]
    BY BelowIs
  <2>2. Advanced = Append(Below, t)
    BY DEF Advanced, t
  <2>3. /\ Advanced \in Seq(Activation) /\ Len(Advanced) = Len(Below) + 1
        /\ \A j \in 1 .. Len(Below) : Advanced[j] = Below[j]
        /\ Advanced[Len(Below) + 1] = t
    BY <1>2, <2>1, <2>2, AppendProperties
  <2>4. Len(Below) + 1 = Len(todo)
    BY <1>1, <2>1
  <2>5. \A j \in 1 .. Len(todo) : j # Len(todo) => j \in 1 .. Len(todo) - 1
    BY <1>1
  <2>. QED  BY <2>1, <2>3, <2>4, <2>5
<1>4. \A j \in 1 .. Len(todo) : todo[j].i \in Nat
  <2>1. \A j \in 1 .. Len(todo) : todo[j] \in Activation
    BY ElementOfSeq DEF Path
  <2>. QED  BY <2>1 DEF Activation
<1>. HIDE DEF t
<1>5. \A j \in 1 .. Len(todo) : /\ Advanced[j].n = todo[j].n
                                /\ Advanced[j].i >= todo[j].i
  <2>. TAKE j \in 1 .. Len(todo)
  <2>1. CASE j = Len(todo)
    <3>1. Advanced[j].n = Top.n /\ Advanced[j].i = Top.i + 1 /\ todo[j] = Top
      BY <1>1, <1>2, <1>3, <2>1
    <3>. QED  BY <1>1, <3>1
  <2>2. CASE j # Len(todo)
    BY <1>3, <1>4, <2>2
  <2>. QED  BY <2>1, <2>2
<1>6. Path(Advanced)
  <2>1. \A j \in 1 .. Len(Advanced) :
            /\ Kind(Advanced[j].n) = "PROGRAM" <=> j = 1
            /\ Kind(Advanced[j].n) = "FUNC_DECL" <=> j = 2
            /\ j < Len(Advanced) => Advanced[j].i > 0
    BY <1>3, <1>5 DEF Path
  <2>2. Advanced[1].n = root
    BY <1>1, <1>5 DEF Path
  <2>. QED  BY <1>3, <2>1, <2>2 DEF Path
<1>. QED  BY <1>2, <1>3, <1>5, <1>6

LEMMA AdvancedOpen ==
  ASSUME Path(todo), todo # <<>>
  PROVE  Open(Advanced) = IF Kind(Top.n) \in {"FUNC_DECL", "BLOCK"}
                          THEN Open(todo) \cup {Len(todo)} ELSE Open(todo)
<1>1. /\ Len(todo) \in 1 .. Len(todo) /\ Top = todo[Len(todo)] /\ Top.i \in Nat
      /\ Len(todo) \in Nat
  BY TopIs
<1>2. \A j \in 1 .. Len(todo) : j # Len(todo) => (j \in Open(Advanced) <=> j \in Open(todo))
  BY Advancing DEF Open
<1>3. Len(todo) \in Open(Advanced) <=> Kind(Top.n) \in {"FUNC_DECL", "BLOCK"}
  <2>1. Advanced[Len(todo)].n = Top.n /\ Advanced[Len(todo)].i > 0
    BY <1>1, Advancing
  <2>2. Len(todo) \in 1 .. Len(Advanced)
    BY <1>1, Advancing
  <2>. QED  BY <2>1, <2>2 DEF Open, Opens
<1>4. Len(todo) \in Open(todo) => Kind(Top.n) \in {"FUNC_DECL", "BLOCK"}
  BY <1>1 DEF Open, Opens
<1>5. Open(Advanced) \subseteq 1 .. Len(todo) /\ Open(todo) \subseteq 1 .. Len(todo)
  BY Advancing DEF Open
<1>6. CASE Kind(Top.n) \in {"FUNC_DECL", "BLOCK"}
  <2>1. \A j : j \in Open(Advanced) <=> j \in Open(todo) \/ j = Len(todo)
    BY <1>1, <1>2, <1>3, <1>5, <1>6
  <2>. QED  BY <1>6, <2>1
<1>7. CASE Kind(Top.n) \notin {"FUNC_DECL", "BLOCK"}
  <2>1. \A j : j \in Open(Advanced) <=> j \in Open(todo)
    BY <1>1, <1>2, <1>3, <1>4, <1>5, <1>7
  <2>. QED  BY <1>7, <2>1
<1>. QED  BY <1>6, <1>7

(* The child whose turn it is is visited.                                  *)
LEMMA Descending ==
  ASSUME Path(todo), todo # <<>>, Top.i \in 1 .. Children(Top.n), NEW s,
         s = Append(Advanced, Visit(Child(Top.n, Top.i)))
  PROVE  /\ Path(s) /\ Len(s) = Len(todo) + 1 /\ Open(s) = Open(todo)
         /\ \A j \in 1 .. Len(todo) : s[j] = Advanced[j]
         /\ s[Len(todo) + 1] = Visit(Child(Top.n, Top.i))
         /\ Visit(Child(Top.n, Top.i)).i > 0
               => Kind(Visit(Child(Top.n, Top.i)).n) \notin {"FUNC_DECL", "PROGRAM"}
<1>. DEFINE c == Child(Top.n, Top.i)
            v == Visit(c)
            N == Len(todo)
<1>1. /\ N \in Nat \ {0} /\ Top = todo[N] /\ Top.n \in Node
      /\ Kind(Top.n) = "PROGRAM" <=> N = 1
      /\ Kind(Top.n) = "FUNC_DECL" <=> N = 2
      /\ N \in Open(todo) <=> Opens(Top)
      /\ Top.i > 0
  BY TopIs
<1>2. /\ c \in Node /\ Kind(c) # "PROGRAM"
      /\ Kind(c) = "FUNC_DECL" <=> N = 1
  BY <1>1, ChildIs
<1>3. /\ v \in Activation /\ v.n = c /\ ~Opens(v)
      /\ v.i > 0 => Kind(c) \in {"IF", "WHILE", "FOR"}
  BY <1>2 DEF Visit, Activation, Opens
<1>4. /\ Path(Advanced) /\ Len(Advanced) = N
      /\ \A j \in 1 .. N : Advanced[j].n = todo[j].n /\ Advanced[j].i >= todo[j].i
      /\ Advanced[N].i = Top.i + 1
      /\ \A j \in 1 .. N : j # N => Advanced[j] = todo[j]
  BY Advancing
<1>0. s = Append(Advanced, v)
  OBVIOUS
<1>. HIDE DEF c, v, N
<1>5. /\ s \in Seq(Activation) /\ Len(s) = N + 1
      /\ \A j \in 1 .. N : s[j] = Advanced[j]
      /\ s[N + 1] = v
  <2>1. Advanced \in Seq(Activation)
    BY <1>4 DEF Path
  <2>. QED  BY <1>0, <1>3, <1>4, <2>1, AppendProperties
<1>6. \A j \in 1 .. Len(s) : j \in 1 .. N \/ j = N + 1
  BY <1>1, <1>5
<1>7. \A j \in 1 .. N : s[j].i > 0
  <2>. TAKE j \in 1 .. N
  <2>1. CASE j = N
    BY <1>1, <1>4, <1>5, <2>1 DEF Path
  <2>2. CASE j # N
    BY <1>1, <1>4, <1>5, <2>2 DEF Path
  <2>. QED  BY <2>1, <2>2
<1>8. Path(s)
  <2>1. ASSUME NEW j \in 1 .. Len(s)
        PROVE  /\ Kind(s[j].n) = "PROGRAM" <=> j = 1
               /\ Kind(s[j].n) = "FUNC_DECL" <=> j = 2
               /\ j < Len(s) => s[j].i > 0
    <3>1. CASE j \in 1 .. N
      BY <1>4, <1>5, <1>7, <3>1 DEF Path
    <3>2. CASE j = N + 1
      <4>1. s[j].n = c /\ Len(s) = N + 1
        BY <1>3, <1>5, <3>2
      <4>2. j # 1 /\ ~(j < Len(s)) /\ (j = 2 <=> N = 1)
        BY <1>1, <3>2, <4>1
      <4>. QED  BY <1>2, <4>1, <4>2
    <3>. QED  BY <1>6, <3>1, <3>2
  <2>2. s[1].n = root
    <3>1. 1 \in 1 .. N /\ Advanced # <<>>
      BY <1>1, <1>4
    <3>. QED  BY <1>4, <1>5, <3>1 DEF Path
  <2>. QED  BY <1>5, <2>1, <2>2 DEF Path
<1>9. Open(s) = Open(todo)
  <2>1. \A j : j \in Open(s) <=> j \in Open(Advanced)
    <3>1. \A j : j \in 1 .. Len(s) /\ Opens(s[j]) <=> j \in 1 .. N /\ Opens(s[j])
      <4>1. \A j \in 1 .. N : j \in 1 .. Len(s)
        BY <1>1, <1>5
      <4>. QED  BY <1>3, <1>5, <1>6, <4>1
    <3>. QED  BY <1>4, <1>5, <3>1 DEF Open
  <2>2. Kind(Top.n) \in {"FUNC_DECL", "BLOCK"} => N \in Open(todo)
    BY <1>1 DEF Opens
  <2>3. Open(Advanced) = Open(todo)
    BY <2>2, AdvancedOpen DEF N
  <2>. QED  BY <2>1, <2>3 DEF Open
<1>10. v.i > 0 => Kind(v.n) \notin {"FUNC_DECL", "PROGRAM"}
  BY <1>3
<1>. USE DEF c, v, N
<1>. QED  BY ONLY <1>5, <1>8, <1>9, <1>10

-----------------------------------------------------------------------------
(* The table.                                                              *)

LEMMA EmptyIsScope == EmptyScope \in Scope /\ HasNoFunction(EmptyScope)
<1>1. EmptyScope \in [{} -> Symbol] /\ {} \in SUBSET STRING
  BY DEF EmptyScope
<1>. QED  BY <1>1 DEF Scope, HasNoFunction, EmptyScope

LEMMA VariableIsSymbol ==
  ASSUME NEW type \in DataType
  PROVE  /\ Variable(type) \in Symbol /\ Variable(type).kind # "FUNCTION"
         /\ Parameter(type) \in Symbol /\ Parameter(type).kind # "FUNCTION"
BY DEF Variable, Parameter, Symbol, SymKind

(* A variable goes into the innermost scope and nowhere else.              *)
LEMMA Inserting ==
  ASSUME tab \in Seq(Scope), Len(tab) >= 2, NEW name \in STRING, NEW type \in DataType,
         NEW t, t = symtab_insert(tab, name, Variable(type)),
         \A d \in 2 .. Len(tab) : HasNoFunction(tab[d])
  PROVE  /\ t \in Seq(Scope) /\ Len(t) = Len(tab) /\ t[1] = tab[1]
         /\ \A d \in 2 .. Len(t) : HasNoFunction(t[d])
<1>. DEFINE v    == Variable(type)
            cur  == tab[Len(tab)]
            more == [n \in DOMAIN cur \cup {name} |-> IF n \in DOMAIN cur THEN cur[n] ELSE v]
<1>1. CASE name \in DOMAIN cur
  BY <1>1 DEF symtab_insert, DeclaredHere, Current
<1>2. CASE name \notin DOMAIN cur
  <2>1. t = [tab EXCEPT ![Len(tab)] = more]
    BY <1>2 DEF symtab_insert, DeclaredHere, Current
  <2>2. Len(tab) \in 2 .. Len(tab) /\ Len(tab) \in 1 .. Len(tab) /\ Len(tab) \in Nat
    OBVIOUS
  <2>3. cur \in Scope /\ HasNoFunction(cur)
    BY <2>2, ElementOfSeq
  <2>4. v \in Symbol /\ v.kind # "FUNCTION"
    BY VariableIsSymbol
  <2>5. more \in Scope /\ HasNoFunction(more)
    <3>1. PICK names \in SUBSET STRING : cur \in [names -> Symbol]
      BY <2>3 DEF Scope
    <3>. HIDE DEF cur, v
    <3>2. DOMAIN cur = names
      BY <3>1
    <3>3. more \in [names \cup {name} -> Symbol] /\ names \cup {name} \in SUBSET STRING
      BY <2>4, <3>1, <3>2
    <3>4. more \in Scope
      BY <3>3 DEF Scope
    <3>5. HasNoFunction(more)
      BY <2>3, <2>4 DEF HasNoFunction
    <3>. QED  BY <3>4, <3>5
  <2>. HIDE DEF more, cur
  <2>6. t \in Seq(Scope) /\ Len(t) = Len(tab)
        /\ \A d \in 1 .. Len(tab) : t[d] = IF d = Len(tab) THEN more ELSE tab[d]
    BY ONLY tab \in Seq(Scope), <2>1, <2>2, <2>5, ExceptSeq
  <2>7. 1 \in 1 .. Len(tab) /\ 1 # Len(tab) /\ \A d \in 2 .. Len(tab) : d \in 1 .. Len(tab)
    BY <2>2
  <2>. QED  BY <2>5, <2>6, <2>7
<1>. QED  BY <1>1, <1>2

LEMMA ParamsAre ==
  ASSUME NEW f \in Node
  PROVE  /\ ParamScope(f) \in Scope /\ HasNoFunction(ParamScope(f))
         /\ DOMAIN ParamScope(f) = ParamNames(f)
         /\ \A name \in ParamNames(f) :
               \E i \in 1 .. Len(Ast[f].params) :
                  /\ Ast[f].params[i].name = name
                  /\ ParamScope(f)[name] = Parameter(Ast[f].params[i].type)
<1>. DEFINE params == Ast[f].params
            First(i, name) == /\ params[i].name = name
                              /\ \A j \in 1 .. i - 1 : params[j].name # name
            first(name) == CHOOSE i \in 1 .. Len(params) : First(i, name)
<1>1. /\ params \in Seq(Param) /\ Len(params) \in Nat
      /\ \A i \in 1 .. Len(params) : params[i].name \in STRING /\ params[i].type \in DataType
  <2>1. params \in Seq(Param)
    BY NodeIs
  <2>. HIDE DEF params
  <2>2. \A i \in 1 .. Len(params) : params[i] \in Param
    BY <2>1, ElementOfSeq
  <2>. QED  BY <2>1, <2>2 DEF Param
<1>2. ParamScope(f) = [name \in ParamNames(f) |-> Parameter(params[first(name)].type)]
  BY DEF ParamScope
<1>3. ParamNames(f) = {params[i].name : i \in 1 .. Len(params)}
  BY DEF ParamNames
<1>. HIDE DEF params
<1>4. ASSUME NEW name \in ParamNames(f)
      PROVE  first(name) \in 1 .. Len(params) /\ params[first(name)].name = name
  <2>. DEFINE hits == {i \in 1 .. Len(params) : params[i].name = name}
  <2>1. hits \in SUBSET Nat /\ hits # {}
    BY <1>1, <1>3, <1>4
  <2>. HIDE DEF hits
  <2>2. PICK i \in hits : \A j \in hits : i <= j
    BY <2>1, LeastOf
  <2>3. i \in 1 .. Len(params) /\ First(i, name)
    <3>1. i \in 1 .. Len(params) /\ params[i].name = name
      BY <2>2 DEF hits
    <3>2. ASSUME NEW j \in 1 .. i - 1, params[j].name = name PROVE FALSE
      <4>1. j \in hits /\ ~(i <= j)
        BY <1>1, <3>1, <3>2 DEF hits
      <4>. QED  BY <2>2, <4>1
    <3>. QED  BY <3>1, <3>2
  <2>4. first(name) \in 1 .. Len(params) /\ First(first(name), name)
    <3>. HIDE DEF First
    <3>. QED  BY <2>3
  <2>. HIDE DEF first
  <2>. QED  BY <2>4
<1>. HIDE DEF first
<1>5. \A name \in ParamNames(f) : /\ Parameter(params[first(name)].type) \in Symbol
                                  /\ Parameter(params[first(name)].type).kind # "FUNCTION"
  BY <1>1, <1>4, VariableIsSymbol
<1>6. ParamNames(f) \in SUBSET STRING
  BY <1>1, <1>3
<1>7. ParamScope(f) \in [ParamNames(f) -> Symbol]
  BY <1>2, <1>5
<1>8. DOMAIN ParamScope(f) = ParamNames(f)
  BY <1>2
<1>9. \A name \in ParamNames(f) :
         \E i \in 1 .. Len(params) : /\ params[i].name = name
                                    /\ ParamScope(f)[name] = Parameter(params[i].type)
  BY <1>2, <1>4
<1>10. ParamScope(f) \in Scope /\ HasNoFunction(ParamScope(f))
  BY <1>2, <1>5, <1>6, <1>7 DEF Scope, HasNoFunction
<1>. QED  BY <1>8, <1>9, <1>10 DEF params

(* The scope the first pass fills.                                         *)
Functions(names) == [name \in names |->
                        LET f == FindFunction(root, name)
                        IN  Signature(Ast[f].type, ParamTypes(f))]

LEMMA FunctionsAre ==
  ASSUME root \in Roots, NEW names,
         names = {Ast[Child(root, i)].name : i \in 1 .. Children(root)}
  PROVE  /\ Functions(names) \in Scope /\ HoldsFunctions(Functions(names))
         /\ \A name \in names : FindFunction(root, name) \in Node
<1>1. root \in Node /\ Kind(root) = "PROGRAM" /\ Children(root) \in Nat
  BY RootIsProgram, NodeIs
<1>2. \A i \in 1 .. Children(root) : /\ Child(root, i) \in Node
                                     /\ Kind(Child(root, i)) = "FUNC_DECL"
                                     /\ Ast[Child(root, i)].name \in STRING
  BY <1>1, ChildIs, NodeIs
<1>3. ASSUME NEW name \in names
      PROVE  FindFunction(root, name) \in Node
  <2>. DEFINE hits == {i \in 1 .. Children(root) :
                         /\ Kind(Child(root, i)) = "FUNC_DECL"
                         /\ Ast[Child(root, i)].name = name}
              First(i) == i \in hits /\ \A j \in hits : i <= j
              least == CHOOSE i \in hits : First(i)
  <2>1. FindFunction(root, name) = IF \E i \in hits : First(i)
                                   THEN Child(root, least) ELSE NoNode
    BY DEF FindFunction
  <2>2. hits \in SUBSET Nat /\ hits # {}
    BY <1>1, <1>2
  <2>3. \A i \in hits : Child(root, i) \in Node
    BY <1>2
  <2>. HIDE DEF hits
  <2>4. \E i \in hits : First(i)
    BY <2>2, LeastOf
  <2>5. least \in hits
    BY <2>4
  <2>. QED  BY <2>1, <2>3, <2>4, <2>5
<1>4. ASSUME NEW f \in Node
      PROVE  Signature(Ast[f].type, ParamTypes(f)) \in Symbol
  <2>. DEFINE params == Ast[f].params
              m == IF Len(params) < MaxParams THEN Len(params) ELSE MaxParams
  <2>1. params \in Seq(Param) /\ Ast[f].type \in DataType
    BY NodeIs
  <2>2. m \in Nat /\ Len(params) \in Nat /\ m <= Len(params)
    BY <2>1, MaxParamsAssumption
  <2>3. ParamTypes(f) = [i \in 1 .. m |-> params[i].type]
    BY DEF ParamTypes
  <2>. HIDE DEF params, m
  <2>4. \A i \in 1 .. m : params[i] \in Param
    <3>1. \A i \in 1 .. m : i \in 1 .. Len(params)
      <4>. DEFINE k == Len(params)
      <4>1. m \in Nat /\ k \in Nat /\ m <= k
        BY <2>2
      <4>. HIDE DEF k
      <4>2. \A i \in 1 .. m : i \in 1 .. k
        BY ONLY <4>1
      <4>. QED  BY <4>2 DEF k
    <3>. QED  BY <2>1, <3>1, ElementOfSeq
  <2>5. ParamTypes(f) \in Seq(DataType)
    BY <2>2, <2>3, <2>4 DEF Param
  <2>. QED  BY <2>1, <2>5 DEF Signature, Symbol, SymKind
<1>5. names \in SUBSET STRING
  BY <1>2
<1>6. Functions(names) \in [names -> Symbol]
  <2>1. \A name \in names : Functions(names)[name] \in Symbol
    BY <1>3, <1>4 DEF Functions
  <2>. QED  BY <2>1 DEF Functions
<1>7. HoldsFunctions(Functions(names))
  BY DEF HoldsFunctions, Functions
<1>. QED  BY <1>3, <1>5, <1>6, <1>7 DEF Scope

-----------------------------------------------------------------------------
(* The steps.                                                              *)

(* A statement, a declaration or an expression is in a function's body.    *)
LEMMA InBody ==
  ASSUME CheckInv, todo # <<>>, Kind(Top.n) \notin {"PROGRAM", "FUNC_DECL"}
  PROVE  Len(todo) >= 3 /\ Len(tab) >= 2
<1>1. Len(todo) \in Nat \ {0} /\ Len(todo) # 1 /\ Len(todo) # 2
  BY TopIs DEF CheckInv
<1>. DEFINE k == Len(todo)
<1>2. 2 \in 1 .. k /\ 2 < k /\ k >= 3
  <2>1. k \in Nat /\ k # 0 /\ k # 1 /\ k # 2
    BY <1>1
  <2>. HIDE DEF k
  <2>. QED  BY ONLY <2>1
<1>3. 2 \in Open(todo)
  BY <1>2 DEF CheckInv, Path, Open, Opens
<1>4. Cardinality(Open(todo)) \in Nat /\ Cardinality(Open(todo)) >= 1
  BY <1>3, OpenIsFinite DEF CheckInv, Path
<1>5. Len(tab) >= 2
  <2>1. Len(tab) = 1 + Cardinality(Open(todo))
    BY DEF CheckInv, Mirrors
  <2>. QED  BY <1>4, <2>1
<1>. QED  BY <1>2, <1>5

(* The invariant's parts about the stack and the table, after a step.      *)
Kept(s, t, type) ==
    /\ Path(s) /\ t \in Seq(Scope)
    /\ Mirrors(s, t) /\ ReturnsAs(s, type) /\ Registered(s, t)

LEMMA KeptIsInv ==
  ASSUME Kept(todo', tab', ret_type'), CheckInv, root' = root,
         phase' = "start" => todo' = <<>>
  PROVE  CheckInv'
<1>1. Path(todo') <=> Path(todo)'
  BY DEF Path
<1>2. Mirrors(todo', tab') <=> Mirrors(todo, tab)'
  BY DEF Mirrors, Open, Opens
<1>3. ReturnsAs(todo', ret_type') <=> ReturnsAs(todo, ret_type)'
  BY DEF ReturnsAs
<1>4. Registered(todo', tab') <=> Registered(todo, tab)'
  BY DEF Registered, HoldsFunctions, HasNoFunction
<1>. QED  BY <1>1, <1>2, <1>3, <1>4 DEF CheckInv, Kept

(* The node on top, which has no scope of its own, is left.                *)
LEMMA LeaveKeeps ==
  ASSUME CheckInv, todo # <<>>, ~Opens(Top), NEW t \in Seq(Scope),
         Len(t) = Len(tab), t[1] = tab[1],
         \A d \in 2 .. Len(t) : HasNoFunction(t[d])
  PROVE  Kept(Below, t, ret_type)
<1>1. Path(Below) /\ Open(Below) = Open(todo)
  BY Leaving, TopIs DEF CheckInv
<1>2. Mirrors(Below, t)
  BY <1>1 DEF CheckInv, Mirrors
<1>3. /\ Len(Below) \in Nat /\ Len(Below) >= 2 => Len(todo) >= 2
      /\ \A j \in 1 .. Len(Below) : Below[j] = todo[j]
      /\ Below # <<>> => 1 \in 1 .. Len(Below)
  <2>1. Len(Below) = Len(todo) - 1 /\ Len(todo) \in Nat \ {0} /\ Below \in Seq(Activation)
    BY BelowIs, TopIs DEF CheckInv
  <2>. QED  BY <2>1, Leaving DEF CheckInv
<1>4. ReturnsAs(Below, ret_type)
  BY <1>3 DEF CheckInv, ReturnsAs
<1>5. Registered(Below, t)
  BY <1>3 DEF CheckInv, Registered
<1>. QED  BY <1>1, <1>2, <1>4, <1>5 DEF Kept

LEMMA SameTable ==
  ASSUME CheckInv
  PROVE  tab \in Seq(Scope) /\ \A d \in 2 .. Len(tab) : HasNoFunction(tab[d])
BY DEF CheckInv, Registered

LEMMA TabNotEmpty ==
  ASSUME CheckInv
  PROVE  Len(tab) \in Nat \ {0} /\ 1 \in 1 .. Len(tab)
<1>1. Cardinality(Open(todo)) \in Nat
  BY OpenIsFinite DEF CheckInv, Path
<1>. QED  BY <1>1 DEF CheckInv, Mirrors

(* A node that has begun, or has no scope, goes on.                        *)
LEMMA AdvanceKeeps ==
  ASSUME CheckInv, todo # <<>>, Top.i > 0
  PROVE  Kept(Advanced, tab, ret_type)
<1>1. /\ Path(Advanced) /\ Len(Advanced) = Len(todo)
      /\ \A j \in 1 .. Len(todo) : /\ Advanced[j].n = todo[j].n
                                   /\ Advanced[j].i >= todo[j].i
                                   /\ j # Len(todo) => Advanced[j] = todo[j]
      /\ Len(todo) \in Nat \ {0} /\ Top = todo[Len(todo)]
  BY Advancing, TopIs DEF CheckInv
<1>2. Open(Advanced) = Open(todo)
  <2>1. Kind(Top.n) \in {"FUNC_DECL", "BLOCK"} => Len(todo) \in Open(todo)
    BY TopIs DEF CheckInv, Opens
  <2>. QED  BY <2>1, AdvancedOpen DEF CheckInv
<1>3. \A j \in 1 .. Len(todo) : todo[j].i > 0 \/ Advanced[j] = todo[j]
  BY <1>1
<1>4. 1 \in 1 .. Len(todo) /\ (Len(todo) >= 2 => 2 \in 1 .. Len(todo))
  BY <1>1
<1>5. ReturnsAs(Advanced, ret_type)
  BY <1>1, <1>3, <1>4 DEF CheckInv, ReturnsAs
<1>6. Registered(Advanced, tab)
  BY <1>1, <1>3, <1>4 DEF CheckInv, Registered
<1>7. Mirrors(Advanced, tab)
  BY <1>2 DEF CheckInv, Mirrors
<1>. QED  BY <1>1, <1>5, <1>6, <1>7 DEF Kept, CheckInv

(* A function or a block begins, with a scope of its own.                  *)
LEMMA EnterKeeps ==
  ASSUME CheckInv, todo # <<>>, Top.i = 0, Kind(Top.n) \in {"FUNC_DECL", "BLOCK"},
         NEW scope \in Scope, HasNoFunction(scope), NEW type,
         type = IF Kind(Top.n) = "FUNC_DECL" THEN Ast[Top.n].type ELSE ret_type
  PROVE  Kept(Advanced, Append(tab, scope), type)
<1>. DEFINE t == Append(tab, scope)
<1>1. /\ Path(Advanced) /\ Len(Advanced) = Len(todo)
      /\ \A j \in 1 .. Len(todo) : /\ Advanced[j].n = todo[j].n
                                   /\ j # Len(todo) => Advanced[j] = todo[j]
      /\ Len(todo) \in Nat \ {0} /\ Top = todo[Len(todo)]
      /\ Kind(Top.n) = "FUNC_DECL" <=> Len(todo) = 2
      /\ Kind(Top.n) = "PROGRAM" <=> Len(todo) = 1
      /\ Len(todo) \notin Open(todo)
  BY Advancing, TopIs DEF CheckInv, Opens
<1>2. Cardinality(Open(Advanced)) = Cardinality(Open(todo)) + 1
  <2>1. Open(Advanced) = Open(todo) \cup {Len(todo)}
    BY AdvancedOpen DEF CheckInv
  <2>2. IsFiniteSet(Open(todo))
    BY OpenIsFinite DEF CheckInv, Path
  <2>. QED  BY <1>1, <2>1, <2>2, FS_AddElement
<1>3. /\ t \in Seq(Scope) /\ Len(t) = Len(tab) + 1
      /\ \A d \in 1 .. Len(tab) : t[d] = tab[d]
      /\ t[Len(tab) + 1] = scope
      /\ Len(tab) \in Nat \ {0}
  BY TabNotEmpty, AppendProperties DEF CheckInv
<1>. HIDE DEF t
<1>4. Mirrors(Advanced, t)
  <2>1. Cardinality(Open(todo)) \in Nat /\ Len(tab) = 1 + Cardinality(Open(todo))
    BY OpenIsFinite DEF CheckInv, Path, Mirrors
  <2>. QED  BY <1>2, <1>3, <2>1 DEF Mirrors
<1>5. Len(todo) >= 2
  BY <1>1
<1>6. ReturnsAs(Advanced, type)
  <2>1. CASE Len(todo) = 2
    <3>1. Advanced[2].n = Top.n /\ type = Ast[Top.n].type
      BY <1>1, <2>1
    <3>. QED  BY <3>1 DEF ReturnsAs
  <2>2. CASE Len(todo) # 2
    <3>1. 2 \in 1 .. Len(todo) /\ Advanced[2] = todo[2] /\ type = ret_type
      BY <1>1, <1>5, <2>2
    <3>. QED  BY <1>5, <3>1 DEF CheckInv, ReturnsAs
  <2>. QED  BY <2>1, <2>2
<1>7. Registered(Advanced, t)
  <2>1. Advanced[1] = todo[1] /\ t[1] = tab[1]
    BY <1>1, <1>3, <1>5
  <2>2. HoldsFunctions(t[1]) \/ ~(Advanced[1].i > 0)
    BY <2>1 DEF CheckInv, Registered
  <2>3. ASSUME NEW d \in 2 .. Len(t) PROVE HasNoFunction(t[d])
    <3>1. CASE d = Len(tab) + 1
      BY <1>3, <3>1
    <3>2. CASE d # Len(tab) + 1
      <4>1. d \in 2 .. Len(tab) /\ t[d] = tab[d]
        BY <1>3, <3>2
      <4>. QED  BY <4>1, SameTable
    <3>. QED  BY <3>1, <3>2
  <2>. QED  BY <2>2, <2>3 DEF Registered
<1>. QED  BY <1>1, <1>3, <1>4, <1>6, <1>7 DEF Kept, t

(* It ends, and its scope with it.                                         *)
LEMMA EndKeeps ==
  ASSUME CheckInv, todo # <<>>, Opens(Top)
  PROVE  Kept(Below, symtab_leave_scope(tab), ret_type)
<1>. DEFINE t == symtab_leave_scope(tab)
<1>1. Path(Below) /\ Open(Below) = Open(todo) \ {Len(todo)} /\ Len(todo) \in Open(todo)
  BY Leaving, TopIs DEF CheckInv
<1>2. /\ Cardinality(Open(Below)) = Cardinality(Open(todo)) - 1
      /\ Cardinality(Open(todo)) \in Nat \ {0}
      /\ Len(tab) = 1 + Cardinality(Open(todo))
  <2>1. /\ IsFiniteSet(Open(todo)) /\ Cardinality(Open(todo)) \in Nat
        /\ Cardinality(Open(todo)) >= 1
    BY <1>1, OpenIsFinite DEF CheckInv, Path
  <2>2. Cardinality(Open(Below)) = Cardinality(Open(todo)) - 1
    BY <1>1, <2>1, FS_RemoveElement
  <2>. QED  BY <2>1, <2>2 DEF CheckInv, Mirrors
<1>3. /\ t \in Seq(Scope) /\ Len(t) = Len(tab) - 1
      /\ \A d \in 1 .. Len(t) : t[d] = tab[d] /\ d \in 1 .. Len(tab)
      /\ Len(t) \in Nat \ {0}
  <2>1. Len(tab) \in Nat /\ Len(tab) > 1
    BY <1>2
  <2>2. t = SubSeq(tab, 1, Len(tab) - 1)
    BY <2>1 DEF symtab_leave_scope
  <2>3. tab \in Seq(Scope)
    BY DEF CheckInv
  <2>4. \A d \in 1 .. Len(tab) - 1 : tab[d] \in Scope
    BY <2>1, <2>3, ElementOfSeq
  <2>. HIDE DEF t
  <2>. DEFINE k == Len(tab) - 1
  <2>5. 1 \in Int /\ k \in Int /\ 1 <= k /\ k - 1 + 1 = k
    BY <2>1
  <2>6. /\ t \in Seq(Scope) /\ Len(t) = IF 1 <= k THEN k - 1 + 1 ELSE 0
        /\ \A d \in 1 .. k - 1 + 1 : t[d] = tab[1 + d - 1]
    BY ONLY <2>2, <2>4, <2>5, SubSeqProperties
  <2>7. Len(t) = k /\ \A d \in 1 .. k : t[d] = tab[1 + d - 1]
    BY <2>5, <2>6
  <2>8. \A d \in 1 .. k : 1 + d - 1 = d /\ d \in 1 .. Len(tab)
    BY <2>1
  <2>. QED  BY <2>1, <2>6, <2>7, <2>8
<1>. HIDE DEF t
<1>4. Mirrors(Below, t)
  BY <1>2, <1>3 DEF Mirrors
<1>5. /\ Len(Below) \in Nat /\ Len(Below) >= 2 => Len(todo) >= 2
      /\ \A j \in 1 .. Len(Below) : Below[j] = todo[j]
      /\ Below # <<>> => 1 \in 1 .. Len(Below)
  <2>1. Len(Below) = Len(todo) - 1 /\ Len(todo) \in Nat \ {0} /\ Below \in Seq(Activation)
    BY BelowIs, TopIs DEF CheckInv
  <2>. QED  BY <2>1, Leaving DEF CheckInv
<1>6. ReturnsAs(Below, ret_type)
  BY <1>5 DEF CheckInv, ReturnsAs
<1>7. Registered(Below, t)
  <2>1. t[1] = tab[1] /\ \A d \in 2 .. Len(t) : d \in 2 .. Len(tab) /\ t[d] = tab[d]
    BY <1>2, <1>3
  <2>2. Below # <<>> /\ Below[1].i > 0 => HoldsFunctions(t[1])
    BY <1>5, <2>1 DEF CheckInv, Registered
  <2>. QED  BY <2>1, <2>2, SameTable DEF Registered
<1>. QED  BY <1>1, <1>3, <1>4, <1>6, <1>7 DEF Kept, t

LEMMA DescendKeeps ==
  ASSUME CheckInv, todo # <<>>, Top.i \in 1 .. Children(Top.n)
  PROVE  Kept(Append(Advanced, Visit(Child(Top.n, Top.i))), tab, ret_type)
<1>. DEFINE v == Visit(Child(Top.n, Top.i))
            s == Append(Advanced, v)
<1>1. /\ Path(s) /\ Len(s) = Len(todo) + 1 /\ Open(s) = Open(todo)
      /\ \A j \in 1 .. Len(todo) : s[j] = Advanced[j]
      /\ s[Len(todo) + 1] = v
      /\ v.i > 0 => Kind(v.n) \notin {"FUNC_DECL", "PROGRAM"}
  BY Descending DEF CheckInv
<1>2. Kept(Advanced, tab, ret_type) /\ Len(Advanced) = Len(todo)
      /\ Len(todo) \in Nat \ {0}
  BY TopIs, Advancing, AdvanceKeeps DEF CheckInv
<1>. HIDE DEF v, s
<1>3. Mirrors(s, tab)
  BY <1>1 DEF CheckInv, Mirrors
<1>4. ReturnsAs(s, ret_type)
  <2>1. CASE Len(todo) = 1
    <3>1. s[2] = v /\ 2 \in 1 .. Len(s)
      BY <1>1, <2>1
    <3>2. Kind(s[2].n) = "FUNC_DECL"
      BY <1>1, <3>1 DEF Path
    <3>3. ~(s[2].i > 0)
      BY <1>1, <3>1, <3>2
    <3>. QED  BY <3>3 DEF ReturnsAs
  <2>2. CASE Len(todo) # 1
    <3>1. 2 \in 1 .. Len(todo) /\ Len(todo) >= 2
      BY <1>2, <2>2
    <3>. QED  BY <1>1, <1>2, <3>1 DEF Kept, ReturnsAs
  <2>. QED  BY <2>1, <2>2
<1>5. Registered(s, tab)
  <2>1. s[1] = Advanced[1] /\ Advanced # <<>>
    BY <1>1, <1>2
  <2>. QED  BY <1>2, <2>1 DEF Kept, Registered
<1>. QED  BY <1>1, <1>3, <1>4, <1>5 DEF Kept, CheckInv, s, v

(* All functions are registered while nothing but the program has begun.   *)
LEMMA RegisterKeeps ==
  ASSUME CheckInv, todo # <<>>, Kind(Top.n) = "PROGRAM", NEW names,
         names = {Ast[Child(root, i)].name : i \in 1 .. Children(root)}
  PROVE  Kept(Advanced, [tab EXCEPT ![Len(tab)] = Functions(names)], ret_type)
<1>. DEFINE t == [tab EXCEPT ![Len(tab)] = Functions(names)]
<1>1. Len(todo) = 1 /\ Path(Advanced) /\ Len(Advanced) = 1 /\ Open(Advanced) = Open(todo)
  BY TopIs, Advancing, AdvancedOpen DEF CheckInv
<1>2. Open(todo) = {}
  BY <1>1 DEF CheckInv, Path, Open, Opens
<1>3. Len(tab) = 1
  <2>1. Cardinality(Open(todo)) = 0
    BY <1>2, OpenIsFinite DEF CheckInv, Path
  <2>. QED  BY <2>1 DEF CheckInv, Mirrors
<1>4. Functions(names) \in Scope /\ HoldsFunctions(Functions(names))
  BY FunctionsAre DEF CheckInv
<1>5. t \in Seq(Scope) /\ Len(t) = 1 /\ t[1] = Functions(names)
  <2>1. tab \in Seq(Scope) /\ 1 \in 1 .. Len(tab)
    BY <1>3 DEF CheckInv
  <2>. DEFINE F == Functions(names)
  <2>2. F \in Scope /\ t = [tab EXCEPT ![1] = F]
    BY <1>3, <1>4
  <2>. HIDE DEF F, t
  <2>3. t \in Seq(Scope) /\ Len(t) = Len(tab)
        /\ \A d \in 1 .. Len(tab) : t[d] = IF d = 1 THEN F ELSE tab[d]
    BY ONLY <2>1, <2>2, ExceptSeq
  <2>. QED  BY <1>3, <2>1, <2>3 DEF F
<1>. HIDE DEF t
<1>6. Mirrors(Advanced, t)
  BY <1>1, <1>3, <1>5 DEF CheckInv, Mirrors
<1>7. ReturnsAs(Advanced, ret_type)
  BY <1>1 DEF ReturnsAs
<1>8. Registered(Advanced, t)
  BY <1>4, <1>5 DEF Registered
<1>. QED  BY <1>1, <1>5, <1>6, <1>7, <1>8 DEF Kept, t

-----------------------------------------------------------------------------

LEMMA InitIsInv == Init => CheckInv
<1>. SUFFICES ASSUME Init PROVE CheckInv
  OBVIOUS
<1>1. /\ root \in Roots /\ todo = <<>> /\ tab = <<EmptyScope>>
      /\ todo \in Seq(Activation) /\ Len(todo) = 0
  BY DEF Init, symtab_init
<1>2. Path(todo) /\ Open(todo) = {}
  BY <1>1 DEF Path, Open
<1>3. tab \in Seq(Scope) /\ Len(tab) = 1
  BY <1>1, EmptyIsScope
<1>4. Mirrors(todo, tab)
  <2>1. Cardinality(Open(todo)) = 0
    BY <1>1, <1>2, OpenIsFinite
  <2>. QED  BY <1>3, <2>1 DEF Mirrors
<1>5. ReturnsAs(todo, ret_type) /\ Registered(todo, tab)
  BY <1>1, <1>3 DEF ReturnsAs, Registered
<1>. QED  BY <1>1, <1>2, <1>3, <1>4, <1>5 DEF CheckInv

LEMMA BeginKeeps ==
  ASSUME CheckInv, Begin
  PROVE  CheckInv'
<1>. DEFINE v == Visit(root)
            s == <<v>>
<1>1. /\ todo = <<>> /\ todo' = s /\ tab' = tab /\ ret_type' = ret_type
      /\ root' = root /\ phase' = "checking"
  BY DEF Begin, CheckInv
<1>2. v \in Activation /\ v.n = root /\ v.i = 0 /\ Kind(v.n) = "PROGRAM"
  BY RootIsProgram DEF CheckInv, Visit, Activation
<1>. HIDE DEF v
<1>3. s \in Seq(Activation) /\ Len(s) = 1 /\ s[1] = v
  BY <1>2
<1>. HIDE DEF s
<1>4. Path(s)
  BY <1>2, <1>3 DEF Path
<1>5. Open(s) = {} /\ Open(todo) = {}
  <2>1. Open(s) = {}
    BY <1>2, <1>3 DEF Open, Opens
  <2>2. 1 .. Len(todo) = {}
    BY <1>1
  <2>. QED  BY <2>1, <2>2 DEF Open
<1>6. Mirrors(s, tab) /\ ReturnsAs(s, ret_type)
  BY <1>3, <1>5 DEF CheckInv, Mirrors, ReturnsAs
<1>7. Registered(s, tab)
  BY <1>2, <1>3 DEF CheckInv, Registered
<1>8. Kept(todo', tab', ret_type')
  BY <1>1, <1>4, <1>6, <1>7 DEF Kept, CheckInv
<1>. QED  BY <1>1, <1>8, KeptIsInv

(* Statements and expressions that are left in the step that judges them.  *)
LEMMA JudgedKeeps ==
  ASSUME CheckInv, todo # <<>>, Kind(Top.n) \in StmtKind \cup ExprKind,
         Kind(Top.n) # "BLOCK", root' = root, phase' = phase, ret_type' = ret_type,
         todo' = Below,
         tab' \in {tab, symtab_insert(tab, Ast[Top.n].name, Variable(Ast[Top.n].type))}
  PROVE  phase # "start" => CheckInv'
<1>. SUFFICES ASSUME phase # "start" PROVE CheckInv'
  OBVIOUS
<1>1. Kind(Top.n) \notin {"PROGRAM", "FUNC_DECL", "BLOCK"}
  BY DEF StmtKind, ExprKind
<1>2. Top.n \in Node /\ ~Opens(Top)
  BY <1>1, TopIs DEF CheckInv, Opens
<1>3. Len(tab) >= 2
  BY <1>1, InBody
<1>4. /\ tab' \in Seq(Scope) /\ Len(tab') = Len(tab) /\ tab'[1] = tab[1]
      /\ \A d \in 2 .. Len(tab') : HasNoFunction(tab'[d])
  <2>1. CASE tab' = tab
    BY <2>1, SameTable
  <2>2. CASE tab' # tab
    <3>1. Ast[Top.n].name \in STRING /\ Ast[Top.n].type \in DataType
      BY <1>2, NodeIs
    <3>. DEFINE t == symtab_insert(tab, Ast[Top.n].name, Variable(Ast[Top.n].type))
    <3>2. tab' = t
      BY <2>2
    <3>. QED  BY <1>3, <3>1, <3>2, SameTable, Inserting
  <2>. QED  BY <2>1, <2>2
<1>5. Kept(Below, tab', ret_type)
  BY <1>2, <1>4, LeaveKeeps
<1>. QED  BY <1>5, KeptIsInv

LEMMA StepKeepsInv ==
  ASSUME CheckInv, [Next]_vars
  PROVE  CheckInv'
<1>1. CASE UNCHANGED vars
  BY <1>1 DEF vars, CheckInv, Path, Mirrors, Open, Opens, ReturnsAs, Registered,
              HoldsFunctions, HasNoFunction
<1>2. CASE Begin
  BY <1>2, BeginKeeps
<1>3. CASE Finish
  BY <1>3 DEF Finish, CheckInv, Path, Mirrors, Open, Opens, ReturnsAs, Registered,
              HoldsFunctions, HasNoFunction
<1>4. CASE RegisterFunctions
  <2>. DEFINE names == {Ast[Child(root, i)].name : i \in 1 .. Children(root)}
  <2>1. /\ phase = "checking" /\ todo # <<>> /\ Kind(Top.n) = "PROGRAM"
        /\ root' = root /\ phase' = phase /\ ret_type' = ret_type
        /\ todo' = Advanced
        /\ tab' = [tab EXCEPT ![Len(tab)] = Functions(names)]
    BY <1>4 DEF RegisterFunctions, On, Functions
  <2>2. Kept(todo', tab', ret_type')
    BY <2>1, RegisterKeeps
  <2>. QED  BY <2>1, <2>2, KeptIsInv
<1>5. CASE EnterFunction
  <2>1. /\ phase = "checking" /\ todo # <<>> /\ Kind(Top.n) = "FUNC_DECL"
        /\ Top.i = 0 /\ root' = root /\ phase' = phase
        /\ ret_type' = Ast[Top.n].type
        /\ todo' = Advanced /\ tab' = Append(tab, ParamScope(Top.n))
    BY <1>5 DEF EnterFunction, On
  <2>2. ParamScope(Top.n) \in Scope /\ HasNoFunction(ParamScope(Top.n))
    BY <2>1, TopIs, ParamsAre DEF CheckInv
  <2>3. Kept(todo', tab', ret_type')
    BY <2>1, <2>2, EnterKeeps
  <2>. QED  BY <2>1, <2>3, KeptIsInv
<1>6. CASE EnterBlock
  <2>1. /\ phase = "checking" /\ todo # <<>> /\ Kind(Top.n) = "BLOCK"
        /\ Top.i = 0 /\ root' = root /\ phase' = phase /\ ret_type' = ret_type
        /\ todo' = Advanced /\ tab' = Append(tab, EmptyScope)
    BY <1>6 DEF EnterBlock, On, symtab_enter_scope
  <2>2. Kept(todo', tab', ret_type')
    BY <2>1, EmptyIsScope, EnterKeeps
  <2>. QED  BY <2>1, <2>2, KeptIsInv
<1>7. CASE TraverseChild
  <2>1. /\ phase = "checking" /\ todo # <<>> /\ Top.i \in 1 .. Children(Top.n)
        /\ root' = root /\ phase' = phase /\ ret_type' = ret_type /\ tab' = tab
        /\ todo' = Append(Advanced, Visit(Child(Top.n, Top.i)))
    BY <1>7 DEF TraverseChild, On
  <2>2. Kept(todo', tab', ret_type')
    BY <2>1, DescendKeeps
  <2>. QED  BY <2>1, <2>2, KeptIsInv
<1>8. CASE LeaveScope
  <2>1. /\ phase = "checking" /\ todo # <<>> /\ Kind(Top.n) \in {"FUNC_DECL", "BLOCK"}
        /\ Top.i > Children(Top.n)
        /\ root' = root /\ phase' = phase /\ ret_type' = ret_type
        /\ todo' = Below /\ tab' = symtab_leave_scope(tab)
    BY <1>8 DEF LeaveScope, On
  <2>2. Top.i \in Nat /\ Children(Top.n) \in Nat
    BY <2>1, TopIs, NodeIs DEF CheckInv
  <2>3. Opens(Top)
    BY <2>1, <2>2 DEF Opens
  <2>4. Kept(todo', tab', ret_type')
    BY <2>1, <2>3, EndKeeps
  <2>. QED  BY <2>1, <2>4, KeptIsInv
<1>9. CASE LeaveNode
  <2>1. /\ phase = "checking" /\ todo # <<>>
        /\ Kind(Top.n) \in {"PROGRAM", "IF", "WHILE", "FOR"}
        /\ root' = root /\ phase' = phase /\ ret_type' = ret_type
        /\ todo' = Below /\ tab' = tab
    BY <1>9 DEF LeaveNode, On
  <2>2. ~Opens(Top)
    BY <2>1 DEF Opens
  <2>3. Kept(todo', tab', ret_type')
    BY <2>1, <2>2, SameTable, LeaveKeeps
  <2>. QED  BY <2>1, <2>3, KeptIsInv
<1>10. CASE CheckCondition
  <2>1. /\ phase = "checking" /\ todo # <<>> /\ Top.i \in ExprChildren(Top.n)
        /\ Kind(Top.n) \in {"IF", "WHILE", "FOR"}
        /\ root' = root /\ phase' = phase /\ ret_type' = ret_type
        /\ todo' = Advanced /\ tab' = tab
    BY <1>10 DEF CheckCondition, On, Judge
  <2>2. Top.i > 0
    BY <2>1 DEF ExprChildren
  <2>3. Kept(todo', tab', ret_type')
    BY <2>1, <2>2, AdvanceKeeps
  <2>. QED  BY <2>1, <2>3, KeptIsInv
<1>11. CASE CheckVarDecl
  <2>1. /\ phase = "checking" /\ todo # <<>> /\ Kind(Top.n) = "VAR_DECL"
        /\ root' = root /\ phase' = phase /\ ret_type' = ret_type
        /\ todo' = Below
        /\ tab' = symtab_insert(tab, Ast[Top.n].name, Variable(Ast[Top.n].type))
    BY <1>11 DEF CheckVarDecl, On, Judge
  <2>. QED  BY <2>1, JudgedKeeps DEF StmtKind
<1>12. CASE CheckAssign
  <2>1. /\ phase = "checking" /\ todo # <<>> /\ Kind(Top.n) = "ASSIGN"
        /\ root' = root /\ phase' = phase /\ ret_type' = ret_type
        /\ todo' = Below /\ tab' = tab
    BY <1>12 DEF CheckAssign, On, Judge
  <2>. QED  BY <2>1, JudgedKeeps DEF StmtKind
<1>13. CASE CheckReturn
  <2>1. /\ phase = "checking" /\ todo # <<>> /\ Kind(Top.n) = "RETURN"
        /\ root' = root /\ phase' = phase /\ ret_type' = ret_type
        /\ todo' = Below /\ tab' = tab
    BY <1>13 DEF CheckReturn, On, Judge
  <2>. QED  BY <2>1, JudgedKeeps DEF StmtKind
<1>14. CASE CheckPrint
  <2>1. /\ phase = "checking" /\ todo # <<>> /\ Kind(Top.n) = "PRINT"
        /\ root' = root /\ phase' = phase /\ ret_type' = ret_type
        /\ todo' = Below /\ tab' = tab
    BY <1>14 DEF CheckPrint, On, Judge
  <2>. QED  BY <2>1, JudgedKeeps DEF StmtKind
<1>15. CASE SkipExpression
  <2>1. /\ phase = "checking" /\ todo # <<>> /\ Kind(Top.n) \in ExprKind
        /\ root' = root /\ phase' = phase /\ ret_type' = ret_type
        /\ todo' = Below /\ tab' = tab
    BY <1>15 DEF SkipExpression, On
  <2>. QED  BY <2>1, JudgedKeeps DEF ExprKind
<1>. QED
  BY <1>1, <1>2, <1>3, <1>4, <1>5, <1>6, <1>7, <1>8, <1>9, <1>10, <1>11, <1>12,
     <1>13, <1>14, <1>15 DEF Next, Step, Checked

LEMMA CheckInvariant == Spec => []CheckInv
BY InitIsInv, StepKeepsInv, PTL DEF Spec

-----------------------------------------------------------------------------
(* The expressions that are parts of statements.                           *)

LEMMA ExprChildrenAre ==
  ASSUME NEW n \in Node
  PROVE  /\ Kind(n) \in {"VAR_DECL", "RETURN", "ASSIGN", "PRINT", "UNARY_OP", "BINARY_OP"}
               => ExprChildren(n) = 1 .. Children(n)
         /\ Kind(n) \in {"IF", "WHILE"} => ExprChildren(n) = {1}
         /\ Kind(n) = "FOR" => ExprChildren(n) = {2}
         /\ Kind(n) \in {"PROGRAM", "FUNC_DECL", "BLOCK", "CALL", "LITERAL", "VAR_REF"}
               => ExprChildren(n) = {}
BY Zenon DEF ExprChildren

LEMMA ExprChildIs ==
  ASSUME NEW n \in Node, NEW i \in ExprChildren(n)
  PROVE  /\ i \in 1 .. Children(n) /\ Child(n, i) \in Expression
         /\ Child(n, i) \in Node
<1>1. Kind(n) \in NodeKind /\ Children(n) \in Nat /\ WellShaped(n)
  BY NodeIs, AstAssumption
<1>2. WellCounted(Kind(n), Children(n))
  BY <1>1 DEF WellShaped
<1>3. Kind(n) \notin {"PROGRAM", "FUNC_DECL"}
  BY ExprChildrenAre
<1>4. i \in 1 .. Children(n)
  <2>1. CASE Kind(n) \in {"VAR_DECL", "RETURN", "ASSIGN", "PRINT", "UNARY_OP", "BINARY_OP"}
    BY <2>1, ExprChildrenAre
  <2>2. CASE Kind(n) \in {"IF", "WHILE"}
    <3>1. i = 1 /\ Children(n) \in {2, 3}
      BY <1>2, <2>2, ExprChildrenAre DEF WellCounted
    <3>. QED  BY <3>1
  <2>3. CASE Kind(n) = "FOR"
    <3>1. i = 2 /\ Children(n) = 4
      BY <1>2, <2>3, ExprChildrenAre DEF WellCounted
    <3>. QED  BY <3>1
  <2>4. Kind(n) \notin {"PROGRAM", "FUNC_DECL", "BLOCK", "CALL", "LITERAL", "VAR_REF"}
    BY ExprChildrenAre
  <2>. QED  BY <1>1, <2>1, <2>2, <2>3, <2>4 DEF NodeKind, StmtKind, ExprKind
<1>5. Child(n, i) \in Node
  BY <1>4, ChildIs
<1>6. Kind(Child(n, i)) \in ExprKind
  BY <1>1, <1>3, <1>4 DEF WellShaped
<1>. QED  BY <1>4, <1>5, <1>6 DEF Expression

-----------------------------------------------------------------------------
(* Where the traversal is: each activation's node is the child its parent  *)
(* turned to last, which is not one to be judged as an expression.         *)
Chain(s) ==
    \A k \in 1 .. Len(s) - 1 :
       /\ s[k].i - 1 \in 1 .. Children(s[k].n)
       /\ s[k].i - 1 \notin ExprChildren(s[k].n)
       /\ s[k + 1].n = Child(s[k].n, s[k].i - 1)

Descent == Append(Advanced, Visit(Child(Top.n, Top.i)))

Moves ==
    \/ todo' = todo
    \/ todo = <<>> /\ todo' = <<Visit(root)>>
    \/ todo # <<>> /\ todo' = Below
    \/ todo # <<>> /\ todo' = Advanced
    \/ /\ todo # <<>> /\ todo' = Descent
       /\ Top.i \in 1 .. Children(Top.n) /\ Top.i \notin ExprChildren(Top.n)

LEMMA StepMoves ==
  ASSUME CheckInv, [Next]_vars
  PROVE  root' = root /\ Moves
<1>1. CASE UNCHANGED vars
  BY <1>1 DEF vars, Moves
<1>2. CASE Begin
  BY <1>2 DEF Begin, Moves, CheckInv
<1>3. CASE Finish \/ Checked
  BY <1>3 DEF Finish, Checked, vars, Moves
<1>4. CASE RegisterFunctions \/ EnterFunction \/ EnterBlock \/ CheckCondition
  BY <1>4 DEF RegisterFunctions, EnterFunction, EnterBlock, CheckCondition, On, Moves, Judge
<1>5. CASE LeaveScope \/ LeaveNode \/ SkipExpression
  BY <1>5 DEF LeaveScope, LeaveNode, SkipExpression, On, Moves
<1>6. CASE CheckVarDecl \/ CheckAssign \/ CheckReturn \/ CheckPrint
  BY <1>6 DEF CheckVarDecl, CheckAssign, CheckReturn, CheckPrint, On, Moves, Judge
<1>7. CASE TraverseChild
  BY <1>7 DEF TraverseChild, On, Moves, Descent
<1>. QED  BY <1>1, <1>2, <1>3, <1>4, <1>5, <1>6, <1>7 DEF Next, Step

LEMMA ChainKept ==
  ASSUME CheckInv, Chain(todo), [Next]_vars
  PROVE  Chain(todo')
<1>1. Path(todo) /\ Moves
  BY StepMoves DEF CheckInv
<1>2. CASE todo = <<>> /\ todo' = <<Visit(root)>>
  <2>1. Len(todo') = 1
    BY <1>2
  <2>. QED  BY <2>1 DEF Chain
<1>3. CASE todo # <<>> /\ todo' = Below
  <2>1. /\ Len(todo) \in Nat \ {0} /\ Len(Below) = Len(todo) - 1
        /\ \A j \in 1 .. Len(Below) : Below[j] = todo[j]
    BY <1>1, <1>3, TopIs, BelowIs
  <2>2. \A k \in 1 .. Len(Below) - 1 : /\ k \in 1 .. Len(todo) - 1
                                       /\ Below[k] = todo[k] /\ Below[k + 1] = todo[k + 1]
    BY <2>1
  <2>. QED  BY <1>3, <2>2 DEF Chain
<1>4. CASE todo # <<>> /\ todo' = Advanced
  <2>1. /\ Len(todo) \in Nat \ {0} /\ Len(Advanced) = Len(todo)
        /\ \A j \in 1 .. Len(todo) : /\ Advanced[j].n = todo[j].n
                                     /\ j # Len(todo) => Advanced[j] = todo[j]
    BY <1>1, <1>4, TopIs, Advancing
  <2>2. \A k \in 1 .. Len(Advanced) - 1 :
           /\ k \in 1 .. Len(todo) - 1
           /\ Advanced[k] = todo[k] /\ Advanced[k + 1].n = todo[k + 1].n
    BY <2>1
  <2>. QED  BY <1>4, <2>2 DEF Chain
<1>5. CASE /\ todo # <<>> /\ todo' = Descent
           /\ Top.i \in 1 .. Children(Top.n) /\ Top.i \notin ExprChildren(Top.n)
  <2>. DEFINE N == Len(todo)
  <2>1. /\ N \in Nat \ {0} /\ Top = todo[N] /\ Top.i \in Nat /\ Len(Advanced) = N
        /\ \A j \in 1 .. N : /\ Advanced[j].n = todo[j].n
                             /\ j # N => Advanced[j] = todo[j]
        /\ Advanced[N].i = Top.i + 1
    BY <1>1, <1>5, TopIs, Advancing
  <2>2. /\ Len(Descent) = N + 1
        /\ \A j \in 1 .. N : Descent[j] = Advanced[j]
        /\ Descent[N + 1] = Visit(Child(Top.n, Top.i))
    BY <1>1, <1>5, Descending DEF Descent
  <2>3. Descent[N + 1].n = Child(Top.n, Top.i)
    BY <2>2 DEF Visit
  <2>. HIDE DEF N
  <2>4. ASSUME NEW k \in 1 .. Len(Descent) - 1
        PROVE  /\ Descent[k].i - 1 \in 1 .. Children(Descent[k].n)
               /\ Descent[k].i - 1 \notin ExprChildren(Descent[k].n)
               /\ Descent[k + 1].n = Child(Descent[k].n, Descent[k].i - 1)
    <3>1. CASE k = N
      <4>1. Descent[k].i - 1 = Top.i /\ Descent[k].n = Top.n
        BY <2>1, <2>2, <3>1
      <4>. QED  BY <1>5, <2>3, <3>1, <4>1
    <3>2. CASE k # N
      <4>1. k \in 1 .. N - 1 /\ k \in 1 .. N /\ k + 1 \in 1 .. N
        BY <2>1, <2>2, <3>2
      <4>2. Descent[k] = todo[k] /\ Descent[k + 1].n = todo[k + 1].n
        BY <2>1, <2>2, <3>2, <4>1
      <4>. QED  BY <4>1, <4>2 DEF Chain, N
    <3>. QED  BY <3>1, <3>2
  <2>. QED  BY <1>5, <2>4 DEF Chain
<1>. QED  BY <1>1, <1>2, <1>3, <1>4, <1>5 DEF Moves

(* A function that is traversed is one of the program's.                   *)
LEMMA FunctionIsChild ==
  ASSUME CheckInv, Chain(todo), todo # <<>>, Kind(Top.n) = "FUNC_DECL"
  PROVE  \E f \in 1 .. Children(root) : Top.n = Child(root, f)
<1>1. Len(todo) = 2 /\ Top = todo[2]
  BY TopIs DEF CheckInv
<1>2. todo[1].n = root
  BY DEF CheckInv, Path
<1>3. 1 \in 1 .. Len(todo) - 1 /\ 1 + 1 = 2
  BY <1>1
<1>. QED  BY <1>1, <1>2, <1>3 DEF Chain

-----------------------------------------------------------------------------
(* What the scopes hold.                                                   *)

Declared(n, names) ==
    IF Kind(n) = "VAR_DECL" THEN {Ast[n].name}
    ELSE IF Kind(n) \in {"IF", "WHILE", "FOR"}
    THEN UNION {names[Child(n, i)] : i \in 1 .. Children(n)}
    ELSE {}

LEMMA DeclaresIs ==
  ASSUME NEW n \in Node
  PROVE  Declares(n) = IF Kind(n) = "VAR_DECL" THEN {Ast[n].name}
                       ELSE IF Kind(n) \in {"IF", "WHILE", "FOR"}
                       THEN UNION {Declares(Child(n, i)) : i \in 1 .. Children(n)}
                       ELSE {}
<1>. DEFINE Rule(f) == [m \in Node |-> Declared(m, f)]
            V == SUBSET STRING
            F == [p \in [Node -> V] \X Node |-> Declared(p[2], p[1])]
            names == CHOOSE f : f = Rule(f)
<1>1. ASSUME NEW m \in Node
      PROVE  /\ \A i \in 1 .. Children(m) : Child(m, i) \in Parts(m) /\ Child(m, i) \in Node
             /\ Ast[m].name \in STRING
  BY ChildIs, NodeIs DEF Parts
<1>2. ASSUME NEW f \in [Node -> V], NEW m \in Node
      PROVE  F[<<f, m>>] = Declared(m, f) /\ Declared(m, f) \in V
  <2>1. Declared(m, f) \in V
    <3>1. \A i \in 1 .. Children(m) : f[Child(m, i)] \in V
      BY <1>1
    <3>. QED  BY <1>1, <3>1 DEF Declared
  <2>2. F[<<f, m>>] = Declared(m, f)
    <3>. HIDE DEF V
    <3>. QED  OBVIOUS
  <2>. QED  BY <2>1, <2>2
<1>3. F \in [[Node -> V] \X Node -> V]
  <2>1. \A p \in [Node -> V] \X Node : Declared(p[2], p[1]) \in V
    <3>. HIDE DEF V, F
    <3>. QED  BY <1>2
  <2>. HIDE DEF V
  <2>. QED  BY <2>1
<1>4. ASSUME NEW f \in [Node -> V], NEW g \in [Node -> V], NEW m \in Node,
             \A d \in Node : Rank[d] < Rank[m] => f[d] = g[d]
      PROVE  Declared(m, f) = Declared(m, g)
  <2>1. \A i \in 1 .. Children(m) : f[Child(m, i)] = g[Child(m, i)]
    BY <1>1, <1>4, RankIs
  <2>. QED  BY <2>1 DEF Declared
<1>5. Local(Node, V, Rank, F)
  <2>. HIDE DEF F, V
  <2>. QED  BY <1>2, <1>4 DEF Local
<1>6. PICK f \in [Node -> V] : Recurs(Node, F, f)
  <2>1. V # {}
    OBVIOUS
  <2>. HIDE DEF F, V
  <2>. QED  BY <1>3, <1>5, <2>1, RankIs, Recursion
<1>7. f = Rule(f)
  <2>. HIDE DEF F, V
  <2>1. \A m \in Node : f[m] = Declared(m, f)
    BY <1>2, <1>6 DEF Recurs
  <2>. QED  BY <2>1
<1>8. names = Rule(names)
  <2>. HIDE DEF Rule
  <2>. QED  BY <1>7
<1>9. \A m : Declares(m) = names[m]
  BY DEF Declares, Declared
<1>. HIDE DEF names
<1>10. names[n] = Declared(n, names)
  BY <1>8
<1>. QED  BY <1>9, <1>10 DEF Declared

LEMMA DeclaresNothing ==
  ASSUME NEW n \in Node, Kind(n) \notin {"VAR_DECL", "IF", "WHILE", "FOR"}
  PROVE  Declares(n) = {}
BY DeclaresIs

-----------------------------------------------------------------------------
(* Which scope is that of an activation.                                   *)
Depth(s, k) == 1 + Cardinality({j \in 1 .. k : Opens(s[j])})

LEMMA DepthIs ==
  ASSUME NEW s, NEW k \in Nat
  PROVE  /\ Depth(s, k) \in Nat \ {0}
         /\ Depth(s, k + 1) = Depth(s, k) + (IF Opens(s[k + 1]) THEN 1 ELSE 0)
<1>. DEFINE before == {j \in 1 .. k : Opens(s[j])}
            upto   == {j \in 1 .. k + 1 : Opens(s[j])}
<1>1. IsFiniteSet(before)
  <2>1. IsFiniteSet(1 .. k)
    BY FS_Interval
  <2>. QED  BY <2>1, FS_Subset
<1>2. k + 1 \notin before
  OBVIOUS
<1>3. upto = IF Opens(s[k + 1]) THEN before \cup {k + 1} ELSE before
  <2>1. \A j : j \in 1 .. k + 1 <=> j \in 1 .. k \/ j = k + 1
    OBVIOUS
  <2>. QED  BY <2>1
<1>4. Cardinality(before) \in Nat /\ Cardinality(before \cup {k + 1}) = Cardinality(before) + 1
  <2>. HIDE DEF before
  <2>. QED  BY <1>1, <1>2, FS_CardinalityType, FS_AddElement
<1>5. Depth(s, k) = 1 + Cardinality(before) /\ Depth(s, k + 1) = 1 + Cardinality(upto)
  BY DEF Depth
<1>. HIDE DEF before, upto
<1>. QED  BY <1>3, <1>4, <1>5

LEMMA DepthGrows ==
  ASSUME NEW s, NEW k \in Nat, NEW l \in Nat, k <= l
  PROVE  /\ Depth(s, k) <= Depth(s, l)
         /\ (\E j \in k + 1 .. l : Opens(s[j])) => Depth(s, k) < Depth(s, l)
<1>. DEFINE S == {m \in Nat : /\ Depth(s, k) <= Depth(s, k + m)
                              /\ (\E j \in k + 1 .. k + m : Opens(s[j]))
                                    => Depth(s, k) < Depth(s, k + m)}
            id == [m \in Nat |-> m]
<1>1. ASSUME NEW m \in Nat, \A d \in Nat : id[d] < id[m] => d \in S PROVE m \in S
  <2>1. CASE m = 0
    <3>1. k + m = k /\ Depth(s, k) \in Nat /\ k + 1 .. k + m = {}
      BY <2>1, DepthIs
    <3>. QED  BY <3>1
  <2>2. CASE m # 0
    <3>1. PICK d \in Nat : m = d + 1
      <4>1. \A x \in Nat : x # 0 => x - 1 \in Nat /\ x = (x - 1) + 1
        OBVIOUS
      <4>. HIDE DEF S, id
      <4>. QED  BY <2>2, <4>1
    <3>2. d \in S
      <4>1. id[d] < id[m]
        BY <3>1
      <4>. QED  BY <1>1, <4>1
    <3>. DEFINE e == k + d
    <3>3. e \in Nat /\ k + m = e + 1
      BY <3>1
    <3>4. /\ Depth(s, k) \in Nat /\ Depth(s, e) \in Nat
          /\ Depth(s, e + 1) = Depth(s, e) + (IF Opens(s[e + 1]) THEN 1 ELSE 0)
      BY <3>3, DepthIs
    <3>5. /\ Depth(s, k) <= Depth(s, e)
          /\ (\E j \in k + 1 .. e : Opens(s[j])) => Depth(s, k) < Depth(s, e)
      BY <3>2
    <3>6. \A j \in k + 1 .. e + 1 : j \in k + 1 .. e \/ j = e + 1
      BY <3>3
    <3>7. Depth(s, k) <= Depth(s, e + 1)
      BY <3>4, <3>5
    <3>8. ASSUME NEW j \in k + 1 .. e + 1, Opens(s[j])
          PROVE  Depth(s, k) < Depth(s, e + 1)
      <4>1. CASE j = e + 1
        BY <3>4, <3>5, <3>8, <4>1
      <4>2. CASE j \in k + 1 .. e
        BY <3>4, <3>5, <3>8, <4>2
      <4>. QED  BY <3>6, <4>1, <4>2
    <3>. HIDE DEF e
    <3>. QED  BY <3>3, <3>7, <3>8
  <2>. QED  BY <2>1, <2>2
<1>2. id \in [Nat -> Nat]
  OBVIOUS
<1>. HIDE DEF id, S
<1>3. Nat \subseteq S
  BY <1>1, <1>2, RankInduction
<1>4. l - k \in Nat /\ k + (l - k) = l
  OBVIOUS
<1>5. l - k \in S
  BY <1>3, <1>4
<1>. QED  BY <1>4, <1>5 DEF S

LEMMA DepthSame ==
  ASSUME NEW s, NEW t, NEW k, \A j \in 1 .. k : Opens(s[j]) <=> Opens(t[j])
  PROVE  Depth(s, k) = Depth(t, k)
<1>1. {j \in 1 .. k : Opens(s[j])} = {j \in 1 .. k : Opens(t[j])}
  OBVIOUS
<1>. QED  BY <1>1 DEF Depth

LEMMA DepthInTable ==
  ASSUME CheckInv
  PROVE  /\ Depth(todo, Len(todo)) = Len(tab)
         /\ \A k \in 1 .. Len(todo) : Depth(todo, k) \in 1 .. Len(tab)
<1>1. Depth(todo, Len(todo)) = Len(tab) /\ Len(todo) \in Nat
  BY DEF CheckInv, Path, Mirrors, Open, Depth
<1>2. ASSUME NEW k \in 1 .. Len(todo) PROVE Depth(todo, k) \in 1 .. Len(tab)
  <2>1. k \in Nat /\ k <= Len(todo)
    BY <1>1
  <2>2. Depth(todo, k) \in Nat \ {0} /\ Depth(todo, k) <= Len(tab) /\ Len(tab) \in Nat
    BY <1>1, <2>1, DepthIs, DepthGrows, TabNotEmpty
  <2>. QED  BY <2>2
<1>. QED  BY <1>1, <1>2

(* A declaration is one of the child that the innermost open scope's node  *)
(* turned to last: only the arms and loops of that child lie in between.   *)
LEMMA Nested ==
  ASSUME CheckInv, Chain(todo), NEW k \in 1 .. Len(todo) - 1,
         \A j \in k + 1 .. Len(todo) : ~Opens(todo[j])
  PROVE  Declares(todo[Len(todo)].n) \subseteq Declares(todo[k + 1].n)
<1>. DEFINE N  == Len(todo)
            In(m) == Declares(todo[N].n) \subseteq Declares(todo[N - m].n)
            S  == {m \in Nat : m <= N - (k + 1) => In(m)}
            id == [m \in Nat |-> m]
<1>1. N \in Nat /\ k \in Nat /\ k + 1 <= N /\ k >= 1
  BY DEF CheckInv, Path
<1>2. ASSUME NEW j \in k + 1 .. N - 1
      PROVE  Declares(todo[j + 1].n) \subseteq Declares(todo[j].n)
  <2>. DEFINE n == todo[j].n
              i == todo[j].i - 1
  <2>1. j \in 1 .. N /\ j < N /\ j # 1 /\ j \in k + 1 .. N /\ j \in 1 .. N - 1
    BY <1>1
  <2>2. n \in Node /\ Kind(n) \in NodeKind
    <3>1. todo[j] \in Activation
      BY <2>1, ElementOfSeq DEF CheckInv, Path
    <3>. QED  BY <3>1, NodeIs DEF Activation
  <2>3. Kind(n) \notin {"PROGRAM", "FUNC_DECL", "BLOCK"}
    BY <2>1 DEF CheckInv, Path, Opens
  <2>4. i \in 1 .. Children(n) /\ i \notin ExprChildren(n) /\ todo[j + 1].n = Child(n, i)
    BY <2>1 DEF Chain
  <2>5. Kind(n) \notin {"VAR_DECL", "RETURN", "ASSIGN", "PRINT", "UNARY_OP", "BINARY_OP"}
    BY <2>2, <2>4, ExprChildrenAre
  <2>6. Kind(n) \notin {"CALL", "LITERAL", "VAR_REF"}
    <3>1. WellCounted(Kind(n), Children(n))
      BY <2>2, AstAssumption DEF WellShaped
    <3>. HIDE DEF i, n
    <3>. QED  BY <2>4, <3>1 DEF WellCounted
  <2>7. Kind(n) \in {"IF", "WHILE", "FOR"}
    BY <2>2, <2>3, <2>5, <2>6 DEF NodeKind, StmtKind, ExprKind
  <2>. HIDE DEF i, n
  <2>8. Declares(n) = UNION {Declares(Child(n, c)) : c \in 1 .. Children(n)}
    BY <2>2, <2>7, DeclaresIs
  <2>. QED  BY <2>4, <2>8 DEF n
<1>. HIDE DEF N
<1>3. ASSUME NEW m \in Nat, \A d \in Nat : id[d] < id[m] => d \in S PROVE m \in S
  <2>1. CASE m = 0
    <3>1. N - m = N
      BY <1>1, <2>1
    <3>. QED  BY <3>1
  <2>2. CASE m # 0
    <3>. SUFFICES ASSUME m <= N - (k + 1) PROVE In(m)
      OBVIOUS
    <3>1. PICK d \in Nat : m = d + 1
      <4>1. \A x \in Nat : x # 0 => x - 1 \in Nat /\ x = (x - 1) + 1
        OBVIOUS
      <4>. HIDE DEF S, id
      <4>. QED  BY <2>2, <4>1
    <3>2. id[d] < id[m]
      BY <3>1
    <3>3. d \in S
      BY <1>3, <3>2
    <3>4. d <= N - (k + 1)
      BY <1>1, <3>1
    <3>5. In(d)
      BY <3>3, <3>4
    <3>6. N - m \in k + 1 .. N - 1 /\ (N - m) + 1 = N - d
      BY <1>1, <3>1
    <3>7. Declares(todo[N - d].n) \subseteq Declares(todo[N - m].n)
      BY <1>2, <3>6
    <3>. QED  BY <3>5, <3>7
  <2>. QED  BY <2>1, <2>2
<1>4. id \in [Nat -> Nat]
  OBVIOUS
<1>. HIDE DEF id, S, In
<1>5. Nat \subseteq S
  BY <1>3, <1>4, RankInduction
<1>6. N - (k + 1) \in Nat /\ N - (N - (k + 1)) = k + 1
  BY <1>1
<1>7. In(N - (k + 1))
  BY <1>5, <1>6 DEF S
<1>. QED  BY <1>6, <1>7 DEF In, N

-----------------------------------------------------------------------------
(* What the scope of an activation holds; last says that none is above it. *)
Holds(a, last, scope) ==
    /\ a.i <= Children(a.n) + 1
    /\ Kind(a.n) = "FUNC_DECL" /\ Opens(a) => DOMAIN scope = ParamNames(a.n)
    /\ Kind(a.n) = "BLOCK" /\ Opens(a) =>
          \A name \in DOMAIN scope : \E i \in 1 .. a.i - 1 : name \in Declares(Child(a.n, i))
    /\ \A i \in 1 .. Children(a.n) :
          i < a.i /\ (last \/ i # a.i - 1) => Declares(Child(a.n, i)) \subseteq DOMAIN scope

Held(s, t) == \A k \in 1 .. Len(s) : Holds(s[k], k = Len(s), t[Depth(s, k)])

ScopeStep ==
    \/ todo' = todo /\ tab' = tab
    \/ todo = <<>> /\ todo' = <<Visit(root)>> /\ tab' = tab
    \/ /\ todo # <<>> /\ Top.i = 0 /\ todo' = Advanced
       /\ \/ Kind(Top.n) = "PROGRAM"
          \/ \E scope : /\ Kind(Top.n) = "FUNC_DECL" /\ DOMAIN scope = ParamNames(Top.n)
                        /\ tab' = Append(tab, scope)
          \/ \E scope : /\ Kind(Top.n) = "BLOCK" /\ DOMAIN scope = {}
                        /\ tab' = Append(tab, scope)
    \/ /\ todo # <<>> /\ todo' = Advanced /\ tab' = tab
       /\ Kind(Top.n) \in {"IF", "WHILE", "FOR"} /\ Top.i \in ExprChildren(Top.n)
    \/ /\ todo # <<>> /\ todo' = Descent /\ tab' = tab
       /\ Top.i \in 1 .. Children(Top.n) /\ Top.i \notin ExprChildren(Top.n)
    \/ /\ todo # <<>> /\ todo' = Below
       /\ \/ /\ Opens(Top) /\ Kind(Top.n) \in {"FUNC_DECL", "BLOCK"}
             /\ tab' = symtab_leave_scope(tab)
          \/ /\ Kind(Top.n) \in {"IF", "WHILE", "FOR"} /\ Top.i > Children(Top.n)
             /\ tab' = tab
          \/ /\ Kind(Top.n) = "VAR_DECL"
             /\ tab' = symtab_insert(tab, Ast[Top.n].name, Variable(Ast[Top.n].type))
          \/ /\ Kind(Top.n) \notin {"IF", "WHILE", "FOR", "VAR_DECL", "FUNC_DECL", "BLOCK"}
             /\ tab' = tab

LEMMA StepScopes ==
  ASSUME CheckInv, [Next]_vars
  PROVE  ScopeStep
<1>1. CASE UNCHANGED vars \/ Finish \/ Checked
  BY <1>1 DEF vars, Finish, Checked, ScopeStep
<1>2. CASE Begin
  BY <1>2 DEF Begin, ScopeStep, CheckInv
<1>3. CASE RegisterFunctions
  BY <1>3 DEF RegisterFunctions, On, ScopeStep
<1>4. CASE EnterFunction
  <2>1. todo # <<>> /\ Kind(Top.n) = "FUNC_DECL" /\ Top.n \in Node
    BY <1>4, TopIs DEF EnterFunction, On, CheckInv
  <2>2. DOMAIN ParamScope(Top.n) = ParamNames(Top.n)
    BY <2>1, ParamsAre
  <2>. QED  BY <1>4, <2>1, <2>2 DEF EnterFunction, ScopeStep
<1>5. CASE EnterBlock
  <2>1. todo # <<>> /\ Kind(Top.n) = "BLOCK" /\ DOMAIN EmptyScope = {}
    BY <1>5 DEF EnterBlock, On, EmptyScope
  <2>. QED  BY <1>5, <2>1 DEF EnterBlock, ScopeStep, symtab_enter_scope
<1>6. CASE TraverseChild
  BY <1>6 DEF TraverseChild, On, ScopeStep, Descent
<1>7. CASE LeaveScope
  <2>1. todo # <<>> /\ Kind(Top.n) \in {"FUNC_DECL", "BLOCK"}
    BY <1>7 DEF LeaveScope, On
  <2>2. Top.i \in Nat /\ Children(Top.n) \in Nat
    BY <2>1, TopIs, NodeIs DEF CheckInv
  <2>3. Opens(Top)
    BY <1>7, <2>1, <2>2 DEF LeaveScope, Opens
  <2>. QED  BY <1>7, <2>1, <2>3 DEF LeaveScope, ScopeStep
<1>8. CASE LeaveNode
  BY <1>8 DEF LeaveNode, On, ScopeStep
<1>9. CASE CheckCondition
  BY <1>9 DEF CheckCondition, On, Judge, ScopeStep
<1>10. CASE CheckVarDecl
  BY <1>10 DEF CheckVarDecl, On, Judge, ScopeStep
<1>11. CASE CheckAssign \/ CheckReturn \/ CheckPrint
  BY <1>11 DEF CheckAssign, CheckReturn, CheckPrint, On, Judge, ScopeStep
<1>12. CASE SkipExpression
  BY <1>12 DEF SkipExpression, On, ScopeStep, ExprKind
<1>. QED  BY <1>1, <1>2, <1>3, <1>4, <1>5, <1>6, <1>7, <1>8, <1>9, <1>10, <1>11, <1>12
          DEF Next, Step

LEMMA MoreHolds ==
  ASSUME NEW a \in Activation, NEW last \in BOOLEAN, NEW scope, NEW more,
         Holds(a, last, scope),
         DOMAIN scope \subseteq DOMAIN more,
         Opens(a) => Kind(a.n) = "BLOCK",
         \A name \in DOMAIN more \ DOMAIN scope :
            Opens(a) => \E i \in 1 .. a.i - 1 : name \in Declares(Child(a.n, i))
  PROVE  Holds(a, last, more)
<1>1. Kind(a.n) = "FUNC_DECL" => ~Opens(a)
  OBVIOUS
<1>2. Kind(a.n) = "BLOCK" /\ Opens(a) =>
          \A name \in DOMAIN more : \E i \in 1 .. a.i - 1 : name \in Declares(Child(a.n, i))
  BY DEF Holds
<1>3. \A i \in 1 .. Children(a.n) :
         i < a.i /\ (last \/ i # a.i - 1) => Declares(Child(a.n, i)) \subseteq DOMAIN more
  BY DEF Holds
<1>. QED  BY <1>1, <1>2, <1>3 DEF Holds

(* The node on top is left, and what it declares is held below.            *)
LEMMA BelowHolds ==
  ASSUME CheckInv, Chain(todo), todo # <<>>, NEW t,
         \A k \in 1 .. Len(todo) - 1 : Holds(todo[k], FALSE, t[Depth(todo, k)]),
         Len(todo) > 1 =>
            Declares(Top.n) \subseteq DOMAIN t[Depth(todo, Len(todo) - 1)]
  PROVE  Held(Below, t)
<1>. DEFINE N == Len(todo)
<1>1. /\ N \in Nat \ {0} /\ Top = todo[N] /\ Len(Below) = N - 1
      /\ \A j \in 1 .. N - 1 : Below[j] = todo[j]
  BY TopIs, BelowIs DEF CheckInv
<1>2. ASSUME NEW k \in 1 .. N - 1
      PROVE  Holds(Below[k], k = Len(Below), t[Depth(Below, k)])
  <2>. DEFINE scope == t[Depth(todo, k)]
              a == todo[k]
  <2>1. Below[k] = a /\ Holds(a, FALSE, scope)
    BY <1>1
  <2>2. Depth(Below, k) = Depth(todo, k)
    <3>1. \A j \in 1 .. k : Below[j] = todo[j]
      BY <1>1
    <3>. QED  BY <3>1, DepthSame, Zenon
  <2>3. CASE k = N - 1
    <3>1. Declares(Child(a.n, a.i - 1)) \subseteq DOMAIN scope
      <4>1. k + 1 = N /\ N > 1
        BY <1>1, <2>3
      <4>2. Top.n = Child(a.n, a.i - 1)
        BY <1>1, <4>1 DEF Chain
      <4>. QED  BY <2>3, <4>1, <4>2
    <3>. HIDE DEF scope, a
    <3>2. Holds(a, TRUE, scope)
      BY <2>1, <3>1 DEF Holds
    <3>. QED  BY <1>1, <2>1, <2>2, <2>3, <3>2 DEF scope
  <2>4. CASE k # N - 1
    <3>1. (k = Len(Below)) = FALSE
      BY <1>1, <2>4
    <3>. QED  BY <2>1, <2>2, <3>1
  <2>. QED  BY <2>3, <2>4
<1>. QED  BY <1>1, <1>2 DEF Held

(* A scope ends.                                                           *)
LEMMA EndHolds ==
  ASSUME CheckInv, Chain(todo), todo # <<>>, Held(todo, tab),
         Opens(Top), Kind(Top.n) \in {"FUNC_DECL", "BLOCK"}
  PROVE  Held(Below, symtab_leave_scope(tab))
<1>. DEFINE N == Len(todo)
            t == symtab_leave_scope(tab)
            m == Len(tab)
<1>1. N \in Nat \ {0} /\ N \in 1 .. N /\ Top = todo[N] /\ Top.n \in Node
  BY TopIs DEF CheckInv
<1>2. m \in Nat \ {0} /\ m = Depth(todo, N)
  BY TabNotEmpty, DepthInTable
<1>3. ASSUME NEW k \in 1 .. N - 1
      PROVE  Depth(todo, k) \in 1 .. m - 1
  <2>1. k \in Nat /\ k <= N /\ N \in k + 1 .. N
    BY <1>1
  <2>2. Depth(todo, k) < Depth(todo, N) /\ Depth(todo, k) \in Nat \ {0}
    BY <1>1, <2>1, DepthGrows, DepthIs
  <2>. HIDE DEF m
  <2>. QED  BY <1>2, <2>2
<1>4. \A k \in 1 .. N - 1 : t[Depth(todo, k)] = tab[Depth(todo, k)]
  <2>1. ASSUME NEW k \in 1 .. N - 1 PROVE t[Depth(todo, k)] = tab[Depth(todo, k)]
    <3>. DEFINE d == Depth(todo, k)
    <3>1. d \in 1 .. m - 1 /\ tab \in Seq(Scope)
      BY <1>3 DEF CheckInv
    <3>2. m > 1
      <4>. HIDE DEF d, m
      <4>. QED  BY <1>2, <3>1
    <3>3. t = SubSeq(tab, 1, m - 1)
      BY <3>2 DEF symtab_leave_scope
    <3>. HIDE DEF d, t
    <3>. QED  BY <1>2, <3>1, <3>3 DEF d
  <2>. QED  BY <2>1
<1>. HIDE DEF t
<1>5. ASSUME NEW k \in 1 .. N - 1 PROVE Holds(todo[k], FALSE, t[Depth(todo, k)])
  <2>1. k \in 1 .. N /\ (k = N) = FALSE
    BY <1>1
  <2>2. Holds(todo[k], FALSE, tab[Depth(todo, k)])
    BY <2>1, Zenon DEF Held
  <2>. QED  BY <1>4, <2>2
<1>6. Declares(Top.n) = {}
  BY <1>1, DeclaresNothing
<1>. QED  BY <1>5, <1>6, BelowHolds DEF t

(* A node without a scope ends.                                            *)
LEMMA LeaveHolds ==
  ASSUME CheckInv, Chain(todo), todo # <<>>, Held(todo, tab), ~Opens(Top),
         Kind(Top.n) # "VAR_DECL",
         Kind(Top.n) \in {"IF", "WHILE", "FOR"} => Top.i > Children(Top.n)
  PROVE  Held(Below, tab)
<1>. DEFINE N == Len(todo)
<1>1. /\ N \in Nat \ {0} /\ N \in 1 .. N /\ Top = todo[N] /\ Top.n \in Node
      /\ Top.i \in Nat /\ Children(Top.n) \in Nat
  BY TopIs, NodeIs DEF CheckInv
<1>2. ASSUME NEW k \in 1 .. N - 1 PROVE Holds(todo[k], FALSE, tab[Depth(todo, k)])
  <2>1. k \in 1 .. N /\ (k = N) = FALSE
    BY <1>1
  <2>. QED  BY <2>1, Zenon DEF Held
<1>3. Declares(Top.n) \subseteq DOMAIN tab[Depth(todo, N)]
  <2>1. CASE Kind(Top.n) \in {"IF", "WHILE", "FOR"}
    <3>1. Declares(Top.n) = UNION {Declares(Child(Top.n, i)) : i \in 1 .. Children(Top.n)}
      BY <1>1, <2>1, DeclaresIs
    <3>2. Holds(Top, TRUE, tab[Depth(todo, N)])
      <4>1. (N = N) = TRUE
        OBVIOUS
      <4>. QED  BY <1>1, <4>1, Zenon DEF Held
    <3>3. \A i \in 1 .. Children(Top.n) : i < Top.i
      BY <1>1, <2>1
    <3>. QED  BY <3>1, <3>2, <3>3 DEF Holds
  <2>2. CASE Kind(Top.n) \notin {"IF", "WHILE", "FOR"}
    BY <1>1, <2>2, DeclaresNothing
  <2>. QED  BY <2>1, <2>2
<1>4. N > 1 => Depth(todo, N - 1) = Depth(todo, N)
  <2>1. N - 1 \in Nat /\ (N - 1) + 1 = N /\ ~Opens(todo[N])
    BY <1>1
  <2>2. Depth(todo, (N - 1) + 1) = Depth(todo, N - 1) + 0 /\ Depth(todo, N - 1) \in Nat
    BY <2>1, DepthIs
  <2>. QED  BY <2>1, <2>2
<1>5. N > 1 => Declares(Top.n) \subseteq DOMAIN tab[Depth(todo, N - 1)]
  BY <1>3, <1>4
<1>. QED  BY <1>2, <1>5, BelowHolds

LEMMA InsertedName ==
  ASSUME tab \in Seq(Scope), Len(tab) \in Nat \ {0}, NEW name, NEW symbol, NEW t,
         t = symtab_insert(tab, name, symbol)
  PROVE  /\ DOMAIN t[Len(tab)] = DOMAIN tab[Len(tab)] \cup {name}
         /\ \A d \in 1 .. Len(tab) : d # Len(tab) => t[d] = tab[d]
<1>1. CASE DeclaredHere(tab, name)
  BY <1>1 DEF symtab_insert, DeclaredHere, Current
<1>2. CASE ~DeclaredHere(tab, name)
  <2>. DEFINE cur  == Current(tab)
              more == [n \in DOMAIN cur \cup {name} |-> IF n \in DOMAIN cur THEN cur[n] ELSE symbol]
  <2>1. t = [tab EXCEPT ![Len(tab)] = more]
    BY <1>2 DEF symtab_insert
  <2>2. DOMAIN more = DOMAIN cur \cup {name}
    OBVIOUS
  <2>. HIDE DEF more
  <2>3. Len(tab) \in DOMAIN tab /\ \A d \in 1 .. Len(tab) : d \in DOMAIN tab
    OBVIOUS
  <2>. QED  BY <2>1, <2>2, <2>3 DEF Current
<1>. QED  BY <1>1, <1>2

(* The third activation is the body of the function.                       *)
LEMMA BodyIsOpen ==
  ASSUME CheckInv, Chain(todo), todo # <<>>, Kind(Top.n) \notin {"PROGRAM", "FUNC_DECL", "BLOCK"}
  PROVE  3 \in 1 .. Len(todo) - 1 /\ Opens(todo[3])
<1>1. Len(todo) >= 3 /\ Len(todo) \in Nat /\ Top = todo[Len(todo)]
  BY InBody, TopIs DEF CheckInv
<1>2. 2 \in 1 .. Len(todo) - 1 /\ 2 \in 1 .. Len(todo) /\ 2 + 1 = 3
  BY <1>1
<1>3. Kind(todo[2].n) = "FUNC_DECL" /\ todo[2].n \in Node
  <2>1. todo[2] \in Activation
    BY <1>2, ElementOfSeq DEF CheckInv, Path
  <2>. QED  BY <1>2, <2>1 DEF CheckInv, Path, Activation
<1>4. Kind(todo[3].n) = "BLOCK"
  <2>. DEFINE n == todo[2].n
              i == todo[2].i - 1
  <2>1. i \in 1 .. Children(n) /\ todo[3].n = Child(n, i)
    BY <1>2 DEF Chain
  <2>2. WellShaped(n) /\ Kind(n) = "FUNC_DECL"
    BY <1>3, AstAssumption
  <2>. HIDE DEF n, i
  <2>. QED  BY <2>1, <2>2 DEF WellShaped
<1>5. Len(todo) # 3
  BY <1>1, <1>4
<1>6. 3 \in 1 .. Len(todo) /\ 3 < Len(todo) /\ 3 \in 1 .. Len(todo) - 1
  <2>1. \A k \in Nat : k >= 3 /\ k # 3 => 3 \in 1 .. k /\ 3 < k /\ 3 \in 1 .. k - 1
    OBVIOUS
  <2>2. Len(todo) \in Nat /\ Len(todo) >= 3
    BY <1>1
  <2>. QED  BY ONLY <1>5, <2>1, <2>2
<1>. QED  BY <1>4, <1>6 DEF CheckInv, Path, Opens

(* A variable is declared, in the innermost open scope.                    *)
LEMMA DeclareHolds ==
  ASSUME CheckInv, Chain(todo), todo # <<>>, Held(todo, tab), Kind(Top.n) = "VAR_DECL"
  PROVE  Held(Below, symtab_insert(tab, Ast[Top.n].name, Variable(Ast[Top.n].type)))
<1>. DEFINE N    == Len(todo)
            m    == Len(tab)
            name == Ast[Top.n].name
            t    == symtab_insert(tab, name, Variable(Ast[Top.n].type))
<1>1. /\ N \in Nat \ {0} /\ N \in 1 .. N /\ Top = todo[N] /\ Top.n \in Node
      /\ ~Opens(Top)
  BY TopIs DEF CheckInv, Opens
<1>2. 3 \in 1 .. N - 1 /\ Opens(todo[3])
  BY BodyIsOpen
<1>3. m \in Nat \ {0} /\ m = Depth(todo, N) /\ tab \in Seq(Scope)
  BY TabNotEmpty, DepthInTable DEF CheckInv
<1>4. /\ DOMAIN t[m] = DOMAIN tab[m] \cup {name}
      /\ \A d \in 1 .. m : d # m => t[d] = tab[d]
  BY <1>3, InsertedName
<1>5. Declares(Top.n) = {name}
  BY <1>1, DeclaresIs
<1>. HIDE DEF t, N, m, name
<1>6. ASSUME NEW k \in 1 .. N - 1 PROVE Holds(todo[k], FALSE, t[Depth(todo, k)])
  <2>1. k \in 1 .. N /\ (k = N) = FALSE /\ k \in Nat /\ k <= N
    BY <1>1
  <2>2. Holds(todo[k], FALSE, tab[Depth(todo, k)])
    BY <2>1, Zenon DEF Held, N
  <2>3. CASE Depth(todo, k) # m
    <3>1. Depth(todo, k) \in 1 .. m
      BY <2>1, DepthInTable DEF N, m
    <3>. QED  BY <1>4, <2>2, <2>3, <3>1
  <2>4. CASE Depth(todo, k) = m
    <3>1. \A j \in k + 1 .. N : ~Opens(todo[j])
      <4>1. ~(Depth(todo, k) < Depth(todo, N))
        BY <1>3, <2>4
      <4>. QED  BY <1>1, <2>1, <4>1, DepthGrows
    <3>2. Declares(Top.n) \subseteq Declares(todo[k + 1].n)
      BY <1>1, <3>1, Nested DEF N
    <3>3. todo[k].i - 1 \in 1 .. Children(todo[k].n)
          /\ todo[k + 1].n = Child(todo[k].n, todo[k].i - 1)
      BY DEF Chain, N
    <3>4. name \in Declares(Child(todo[k].n, todo[k].i - 1))
      BY <1>5, <3>2, <3>3
    <3>5. Opens(todo[k]) => Kind(todo[k].n) = "BLOCK"
      <4>1. ASSUME Kind(todo[k].n) = "FUNC_DECL" PROVE FALSE
        <5>1. k = 2
          BY <2>1, <4>1 DEF CheckInv, Path, N
        <5>2. 3 \in k + 1 .. N
          BY <1>1, <1>2, <5>1
        <5>. QED  BY <1>2, <3>1, <5>2
      <4>. QED  BY <4>1 DEF Opens
    <3>6. todo[k] \in Activation
      BY <2>1, ElementOfSeq DEF CheckInv, Path, N
    <3>7. todo[k].i - 1 \in 1 .. todo[k].i - 1
      <4>1. todo[k].i \in Nat
        BY <3>6 DEF Activation
      <4>2. todo[k].i - 1 >= 1
        BY <3>3
      <4>. QED  BY <4>1, <4>2
    <3>8. DOMAIN tab[m] \subseteq DOMAIN t[m] /\ DOMAIN t[m] \ DOMAIN tab[m] \subseteq {name}
      BY <1>4
    <3>9. \A x \in DOMAIN t[m] \ DOMAIN tab[m] :
             Opens(todo[k]) =>
                \E i \in 1 .. todo[k].i - 1 : x \in Declares(Child(todo[k].n, i))
      BY <3>4, <3>7, <3>8
    <3>. QED  BY <2>2, <2>4, <3>5, <3>6, <3>8, <3>9, MoreHolds
  <2>. QED  BY <2>3, <2>4
<1>7. N > 1 => Declares(Top.n) \subseteq DOMAIN t[Depth(todo, N - 1)]
  <2>1. N - 1 \in Nat /\ (N - 1) + 1 = N /\ ~Opens(todo[N])
    BY <1>1
  <2>2. Depth(todo, (N - 1) + 1) = Depth(todo, N - 1) + 0 /\ Depth(todo, N - 1) \in Nat
    BY <2>1, DepthIs
  <2>3. Depth(todo, N - 1) = m
    BY <1>3, <2>1, <2>2
  <2>. QED  BY <1>4, <1>5, <2>3
<1>. QED  BY <1>6, <1>7, BelowHolds DEF t, N, name

LEMMA AdvancedDepth ==
  ASSUME CheckInv, todo # <<>>
  PROVE  /\ Len(todo) \in Nat \ {0} /\ Top = todo[Len(todo)] /\ Len(Advanced) = Len(todo)
         /\ \A k \in 1 .. Len(todo) : k # Len(todo) =>
               /\ Advanced[k] = todo[k] /\ Depth(Advanced, k) = Depth(todo, k)
               /\ Depth(todo, k) \in 1 .. Len(tab)
         /\ Advanced[Len(todo)].n = Top.n /\ Advanced[Len(todo)].i = Top.i + 1
         /\ Depth(Advanced, Len(todo)) = IF Kind(Top.n) \in {"FUNC_DECL", "BLOCK"} /\ Top.i = 0
                                         THEN Len(tab) + 1 ELSE Len(tab)
<1>. DEFINE N == Len(todo)
            b == Advanced[N]
<1>1. /\ N \in Nat \ {0} /\ N \in 1 .. N /\ Top = todo[N] /\ Len(Advanced) = N
      /\ Top.i \in Nat
      /\ \A j \in 1 .. N : j # N => Advanced[j] = todo[j]
      /\ b.n = Top.n /\ b.i = Top.i + 1
  BY TopIs, Advancing DEF CheckInv
<1>2. \A k \in 1 .. N : Depth(todo, k) \in 1 .. Len(tab)
  BY DepthInTable
<1>. HIDE DEF N
<1>3. ASSUME NEW k \in Nat, k < N PROVE Depth(Advanced, k) = Depth(todo, k)
  <2>1. \A j \in 1 .. k : Advanced[j] = todo[j]
    BY <1>1, <1>3
  <2>. QED  BY <2>1, DepthSame, Zenon
<1>4. Depth(Advanced, N) = IF Kind(Top.n) \in {"FUNC_DECL", "BLOCK"} /\ Top.i = 0
                           THEN Len(tab) + 1 ELSE Len(tab)
  <2>1. N - 1 \in Nat /\ (N - 1) + 1 = N /\ N - 1 < N
    BY <1>1
  <2>. DEFINE K == Kind(Top.n) \in {"FUNC_DECL", "BLOCK"}
  <2>2. (Opens(b) <=> K) /\ (Opens(Top) <=> K /\ Top.i # 0)
    BY <1>1 DEF Opens
  <2>. HIDE DEF K, b
  <2>3. Depth(Advanced, N) = Depth(Advanced, N - 1) + (IF Opens(b) THEN 1 ELSE 0)
    BY <2>1, DepthIs DEF b
  <2>4. /\ Depth(todo, N) = Depth(todo, N - 1) + (IF Opens(Top) THEN 1 ELSE 0)
        /\ Depth(todo, N - 1) \in Nat
    BY <1>1, <2>1, DepthIs
  <2>5. Depth(Advanced, N - 1) = Depth(todo, N - 1) /\ Depth(todo, N) = Len(tab)
    BY <1>3, <2>1, DepthInTable DEF N
  <2>6. CASE K /\ Top.i = 0
    BY <2>2, <2>3, <2>4, <2>5, <2>6 DEF K
  <2>7. CASE ~(K /\ Top.i = 0)
    BY <2>2, <2>3, <2>4, <2>5, <2>7 DEF K
  <2>. QED  BY <2>6, <2>7
<1>5. \A k \in 1 .. N : k # N => k \in Nat /\ k < N
  BY <1>1
<1>. QED  BY <1>1, <1>2, <1>3, <1>4, <1>5 DEF N

(* A function or a block begins.                                           *)
LEMMA EnterHolds ==
  ASSUME CheckInv, todo # <<>>, Held(todo, tab), Top.i = 0, NEW scope,
         \/ Kind(Top.n) = "FUNC_DECL" /\ DOMAIN scope = ParamNames(Top.n)
         \/ Kind(Top.n) = "BLOCK" /\ DOMAIN scope = {}
  PROVE  Held(Advanced, Append(tab, scope))
<1>. DEFINE N == Len(todo)
            m == Len(tab)
            t == Append(tab, scope)
<1>1. /\ N \in Nat \ {0} /\ Len(Advanced) = N
      /\ \A k \in 1 .. N : k # N => /\ Advanced[k] = todo[k]
                                    /\ Depth(Advanced, k) = Depth(todo, k)
                                    /\ Depth(todo, k) \in 1 .. m
      /\ Advanced[N].n = Top.n /\ Advanced[N].i = 1
      /\ Depth(Advanced, N) = m + 1
      /\ Children(Top.n) \in Nat
  BY AdvancedDepth, TopIs, NodeIs DEF CheckInv
<1>2. /\ \A d \in 1 .. m : t[d] = tab[d]
      /\ t[m + 1] = scope
  <2>1. tab \in Seq(Scope)
    BY DEF CheckInv
  <2>. QED  BY <2>1
<1>3. Holds(Advanced[N], TRUE, scope)
  <2>. DEFINE b == Advanced[N]
  <2>1. b.n = Top.n /\ b.i = 1
    BY <1>1
  <2>. HIDE DEF b
  <2>2. b.i <= Children(b.n) + 1
    BY <1>1, <2>1
  <2>3. \A i \in 1 .. Children(b.n) : ~(i < b.i)
    BY <2>1
  <2>. QED  BY <2>1, <2>2, <2>3 DEF Holds, b
<1>. HIDE DEF t
<1>4. ASSUME NEW k \in 1 .. N
      PROVE  Holds(Advanced[k], k = N, t[Depth(Advanced, k)])
  <2>1. CASE k = N
    <3>1. (k = N) = TRUE /\ t[Depth(Advanced, k)] = scope
      BY <1>1, <1>2, <2>1
    <3>. QED  BY <1>3, <2>1, <3>1
  <2>2. CASE k # N
    <3>1. Holds(todo[k], k = N, tab[Depth(todo, k)])
      BY Zenon DEF Held
    <3>2. t[Depth(Advanced, k)] = tab[Depth(todo, k)] /\ Advanced[k] = todo[k]
      BY <1>1, <1>2, <2>2
    <3>. QED  BY <3>1, <3>2
  <2>. QED  BY <2>1, <2>2
<1>. QED  BY <1>1, <1>4 DEF Held, t

(* The program begins; nothing is said of the scope of functions here.     *)
LEMMA ProgramHolds ==
  ASSUME CheckInv, todo # <<>>, Top.i = 0, Kind(Top.n) = "PROGRAM", NEW t
  PROVE  Held(Advanced, t)
<1>1. /\ Len(todo) = 1 /\ Len(Advanced) = 1
      /\ Advanced[1].n = Top.n /\ Advanced[1].i = 1
      /\ Children(Top.n) \in Nat
  <2>1. Len(todo) = 1 /\ Top.n \in Node
    BY TopIs DEF CheckInv
  <2>2. /\ Len(Advanced) = Len(todo) /\ Advanced[Len(todo)].n = Top.n
        /\ Advanced[Len(todo)].i = Top.i + 1
    BY AdvancedDepth
  <2>. QED  BY <2>1, <2>2, NodeIs
<1>. DEFINE b == Advanced[1]
<1>2. b.n = Top.n /\ b.i = 1
  BY <1>1
<1>. HIDE DEF b
<1>3. b.i <= Children(b.n) + 1 /\ ~Opens(b)
  BY <1>1, <1>2 DEF Opens
<1>4. \A i \in 1 .. Children(b.n) : ~(i < b.i)
  BY <1>2
<1>5. \A last, scope : Holds(b, last, scope)
  BY <1>3, <1>4 DEF Holds
<1>. QED  BY <1>1, <1>5 DEF Held, b

(* A condition has been judged.                                            *)
LEMMA ConditionHolds ==
  ASSUME CheckInv, todo # <<>>, Held(todo, tab),
         Kind(Top.n) \in {"IF", "WHILE", "FOR"}, Top.i \in ExprChildren(Top.n)
  PROVE  Held(Advanced, tab)
<1>. DEFINE N == Len(todo)
            b == Advanced[N]
            scope == tab[Len(tab)]
<1>1. /\ N \in Nat \ {0} /\ N \in 1 .. N /\ Len(Advanced) = N /\ Top = todo[N]
      /\ \A k \in 1 .. N : k # N => /\ Advanced[k] = todo[k]
                                    /\ Depth(Advanced, k) = Depth(todo, k)
      /\ b.n = Top.n /\ b.i = Top.i + 1
      /\ Depth(Advanced, N) = Len(tab) /\ Depth(todo, N) = Len(tab)
      /\ Top.n \in Node /\ Top.i \in Nat /\ Children(Top.n) \in Nat
  BY AdvancedDepth, DepthInTable, TopIs, NodeIs DEF CheckInv
<1>2. Top.i \in 1 .. Children(Top.n) /\ Declares(Child(Top.n, Top.i)) = {}
  <2>1. /\ Top.i \in 1 .. Children(Top.n) /\ Child(Top.n, Top.i) \in Node
        /\ Kind(Child(Top.n, Top.i)) \in ExprKind
    BY <1>1, ExprChildIs DEF Expression
  <2>. QED  BY <2>1, DeclaresNothing DEF ExprKind
<1>3. Holds(Top, TRUE, scope)
  <2>1. (N = N) = TRUE
    OBVIOUS
  <2>2. Holds(todo[N], N = N, tab[Depth(todo, N)])
    BY <1>1, Zenon DEF Held
  <2>. QED  BY <1>1, <2>1, <2>2
<1>. HIDE DEF b, scope, N
<1>4. Holds(b, TRUE, scope)
  <2>1. b.i <= Children(b.n) + 1 /\ ~Opens(b)
    BY <1>1, <1>2 DEF Opens
  <2>2. \A i \in 1 .. Children(b.n) : i < b.i => i < Top.i \/ i = Top.i
    BY <1>1
  <2>3. \A i \in 1 .. Children(b.n) : i < b.i => Declares(Child(b.n, i)) \subseteq DOMAIN scope
    BY <1>1, <1>2, <1>3, <2>2 DEF Holds
  <2>. QED  BY <2>1, <2>3 DEF Holds, Opens
<1>5. ASSUME NEW k \in 1 .. N
      PROVE  Holds(Advanced[k], k = N, tab[Depth(Advanced, k)])
  <2>1. CASE k = N
    <3>1. (k = N) = TRUE
      BY <2>1
    <3>. QED  BY <1>1, <1>4, <2>1, <3>1 DEF b, scope
  <2>2. CASE k # N
    <3>1. Holds(todo[k], k = N, tab[Depth(todo, k)])
      BY Zenon DEF Held, N
    <3>. QED  BY <1>1, <2>2, <3>1
  <2>. QED  BY <2>1, <2>2
<1>. QED  BY <1>1, <1>5 DEF Held, N

(* The next child is visited.                                              *)
LEMMA DescentHolds ==
  ASSUME CheckInv, todo # <<>>, Held(todo, tab), Top.i \in 1 .. Children(Top.n)
  PROVE  Held(Descent, tab)
<1>. DEFINE N == Len(todo)
            b == Advanced[N]
            v == Visit(Child(Top.n, Top.i))
            scope == tab[Len(tab)]
<1>1. /\ N \in Nat \ {0} /\ N \in 1 .. N /\ Top = todo[N]
      /\ \A k \in 1 .. N : k # N => /\ Advanced[k] = todo[k]
                                    /\ Depth(Advanced, k) = Depth(todo, k)
      /\ b.n = Top.n /\ b.i = Top.i + 1
      /\ Depth(Advanced, N) = Len(tab) /\ Depth(todo, N) = Len(tab)
      /\ Top.n \in Node /\ Top.i \in Nat /\ Children(Top.n) \in Nat
  BY AdvancedDepth, DepthInTable, TopIs, NodeIs DEF CheckInv
<1>2. /\ Len(Descent) = N + 1 /\ Descent[N + 1] = v
      /\ \A j \in 1 .. N : Descent[j] = Advanced[j]
  BY Descending DEF CheckInv, Descent
<1>3. /\ v.i \in {0, 1} /\ ~Opens(v) /\ Children(v.n) \in Nat
  <2>1. Child(Top.n, Top.i) \in Node
    BY <1>1, ChildIs
  <2>. QED  BY <2>1, NodeIs DEF Visit, Opens
<1>4. Holds(Top, TRUE, scope)
  <2>1. (N = N) = TRUE
    OBVIOUS
  <2>2. Holds(todo[N], N = N, tab[Depth(todo, N)])
    BY <1>1, Zenon DEF Held
  <2>. QED  BY <1>1, <2>1, <2>2
<1>. HIDE DEF b, v, scope, N
<1>5. Holds(b, FALSE, scope)
  <2>1. b.i <= Children(b.n) + 1
    BY <1>1
  <2>2. Opens(b) => Opens(Top)
    BY <1>1 DEF Opens
  <2>3. Kind(b.n) = "FUNC_DECL" /\ Opens(b) => DOMAIN scope = ParamNames(b.n)
    BY <1>1, <1>4, <2>2 DEF Holds
  <2>4. \A i \in 1 .. Top.i - 1 : i \in 1 .. b.i - 1
    BY <1>1
  <2>5. Kind(b.n) = "BLOCK" /\ Opens(b) =>
          \A name \in DOMAIN scope : \E i \in 1 .. b.i - 1 : name \in Declares(Child(b.n, i))
    BY <1>1, <1>4, <2>2, <2>4 DEF Holds
  <2>6. \A i \in 1 .. Children(b.n) : i < b.i /\ i # b.i - 1 => i < Top.i
    BY <1>1
  <2>7. \A i \in 1 .. Children(b.n) : i < b.i /\ i # b.i - 1
           => Declares(Child(b.n, i)) \subseteq DOMAIN scope
    BY <1>1, <1>4, <2>6 DEF Holds
  <2>. QED  BY <2>1, <2>3, <2>5, <2>7 DEF Holds
<1>6. \A t : Holds(v, TRUE, t)
  <2>1. v.i <= Children(v.n) + 1 /\ \A i \in 1 .. Children(v.n) : ~(i < v.i)
    BY <1>3
  <2>. QED  BY <1>3, <2>1 DEF Holds
<1>7. ASSUME NEW k \in 1 .. N + 1
      PROVE  Holds(Descent[k], k = N + 1, tab[Depth(Descent, k)])
  <2>1. CASE k = N + 1
    <3>1. (k = N + 1) = TRUE
      BY <2>1
    <3>. QED  BY <1>2, <1>6, <2>1, <3>1
  <2>2. CASE k # N + 1
    <3>1. k \in 1 .. N /\ (k = N + 1) = FALSE
      BY <1>1, <2>2
    <3>2. Descent[k] = Advanced[k] /\ Depth(Descent, k) = Depth(Advanced, k)
      <4>1. \A j \in 1 .. k : Descent[j] = Advanced[j]
        BY <1>1, <1>2, <3>1
      <4>2. Depth(Descent, k) = Depth(Advanced, k)
        BY <4>1, DepthSame, Zenon
      <4>. QED  BY <1>2, <3>1, <4>2
    <3>3. CASE k = N
      BY <1>1, <1>5, <3>1, <3>2, <3>3 DEF b, scope
    <3>4. CASE k # N
      <4>1. Holds(todo[k], k = N, tab[Depth(todo, k)])
        BY <3>1, Zenon DEF Held, N
      <4>2. (k = N) = FALSE
        BY <3>4
      <4>. QED  BY <1>1, <3>1, <3>2, <3>4, <4>1, <4>2
    <3>. QED  BY <3>3, <3>4
  <2>. QED  BY <2>1, <2>2
<1>. QED  BY <1>1, <1>2, <1>7 DEF Held

LEMMA HeldKept ==
  ASSUME CheckInv, Chain(todo), Held(todo, tab), [Next]_vars
  PROVE  Held(todo', tab')
<1>1. ScopeStep
  BY StepScopes
<1>2. CASE todo' = todo /\ tab' = tab
  BY <1>2
<1>3. CASE todo = <<>> /\ todo' = <<Visit(root)>>
  <2>. DEFINE v == Visit(root)
  <2>1. Len(todo') = 1 /\ todo'[1] = v
    BY <1>3
  <2>2. v.i = 0 /\ ~Opens(v) /\ Children(v.n) \in Nat
    BY RootIsProgram, NodeIs DEF CheckInv, Visit, Opens
  <2>. HIDE DEF v
  <2>3. v.i <= Children(v.n) + 1 /\ \A i \in 1 .. Children(v.n) : ~(i < v.i)
    BY <2>2
  <2>4. \A last, scope : Holds(v, last, scope)
    BY <2>2, <2>3 DEF Holds
  <2>. QED  BY <2>1, <2>4 DEF Held
<1>4. CASE todo # <<>> /\ Top.i = 0 /\ todo' = Advanced /\ Kind(Top.n) = "PROGRAM"
  BY <1>4, ProgramHolds
<1>5. ASSUME todo # <<>>, Top.i = 0, todo' = Advanced, NEW scope,
             tab' = Append(tab, scope),
             \/ Kind(Top.n) = "FUNC_DECL" /\ DOMAIN scope = ParamNames(Top.n)
             \/ Kind(Top.n) = "BLOCK" /\ DOMAIN scope = {}
      PROVE  Held(todo', tab')
  BY <1>5, EnterHolds
<1>6. CASE /\ todo # <<>> /\ todo' = Advanced /\ tab' = tab
           /\ Kind(Top.n) \in {"IF", "WHILE", "FOR"} /\ Top.i \in ExprChildren(Top.n)
  BY <1>6, ConditionHolds
<1>7. CASE /\ todo # <<>> /\ todo' = Descent /\ tab' = tab
           /\ Top.i \in 1 .. Children(Top.n) /\ Top.i \notin ExprChildren(Top.n)
  BY <1>7, DescentHolds
<1>8. CASE /\ todo # <<>> /\ todo' = Below
           /\ Opens(Top) /\ Kind(Top.n) \in {"FUNC_DECL", "BLOCK"}
           /\ tab' = symtab_leave_scope(tab)
  BY <1>8, EndHolds
<1>9. CASE /\ todo # <<>> /\ todo' = Below /\ tab' = tab
           /\ Kind(Top.n) \in {"IF", "WHILE", "FOR"} /\ Top.i > Children(Top.n)
  BY <1>9, LeaveHolds DEF Opens
<1>10. CASE /\ todo # <<>> /\ todo' = Below /\ tab' = tab
            /\ Kind(Top.n) \notin {"IF", "WHILE", "FOR", "VAR_DECL", "FUNC_DECL", "BLOCK"}
  BY <1>10, LeaveHolds DEF Opens
<1>11. CASE /\ todo # <<>> /\ todo' = Below /\ Kind(Top.n) = "VAR_DECL"
            /\ tab' = symtab_insert(tab, Ast[Top.n].name, Variable(Ast[Top.n].type))
  BY <1>11, DeclareHolds
<1>. QED  BY <1>1, <1>2, <1>3, <1>4, <1>5, <1>6, <1>7, <1>8, <1>9, <1>10, <1>11
          DEF ScopeStep

HeldInv == CheckInv /\ Chain(todo) /\ Held(todo, tab)

LEMMA HeldInvariant == Spec => []HeldInv
<1>1. Init => HeldInv
  BY InitIsInv DEF Init, HeldInv, Chain, Held
<1>2. HeldInv /\ [Next]_vars => HeldInv'
  <2>. SUFFICES ASSUME HeldInv, [Next]_vars PROVE HeldInv'
    OBVIOUS
  <2>1. CheckInv' /\ Chain(todo') /\ Held(todo', tab')
    BY StepKeepsInv, ChainKept, HeldKept DEF HeldInv
  <2>2. Chain(todo)' <=> Chain(todo')
    BY DEF Chain
  <2>3. Held(todo, tab)' <=> Held(todo', tab')
    BY DEF Held, Holds, Depth, Opens
  <2>. QED  BY <2>1, <2>2, <2>3 DEF HeldInv
<1>. QED  BY <1>1, <1>2, PTL DEF Spec

-----------------------------------------------------------------------------

(* Every scope the checker opens it leaves again, on whatever path through *)
(* the program and whatever the errors, and no other                       *)
(* (semantic.c:205, 333).                                                  *)
THEOREM ScopesFollow == Spec => []ScopesMirrorTraversal
<1>1. CheckInv => ScopesMirrorTraversal
  BY DEF CheckInv, Mirrors, Open, Opens, ScopesMirrorTraversal, OpenScopes
<1>. QED  BY <1>1, CheckInvariant, PTL

(* A return is judged against its own function's type: the static variable *)
(* is never stale (semantic.c:11, 204).                                    *)
THEOREM ReturnTypeIsOwn == Spec => []ReturnTypeIsEnclosing
<1>1. CheckInv => ReturnTypeIsEnclosing
  <2>. SUFFICES ASSUME CheckInv, On({"RETURN"})
                PROVE  Kind(todo[2].n) = "FUNC_DECL" /\ ret_type = Ast[todo[2].n].type
    BY DEF ReturnTypeIsEnclosing
  <2>1. todo # <<>> /\ Kind(Top.n) = "RETURN"
    BY DEF On
  <2>2. Len(todo) >= 3 /\ Len(todo) \in Nat
    BY <2>1, InBody, TopIs DEF CheckInv
  <2>3. 2 \in 1 .. Len(todo) /\ 2 < Len(todo) /\ Len(todo) >= 2
    BY <2>2
  <2>. QED  BY <2>3 DEF CheckInv, Path, ReturnsAs
<1>. QED  BY <1>1, CheckInvariant, PTL

(* Every body is checked against the signatures of all functions, and      *)
(* nothing a body declares changes or outlives them (semantic.c:182-196).  *)
THEOREM FunctionsStayKnown == Spec => []GlobalIsProgram
<1>1. CheckInv => GlobalIsProgram
  <2>. SUFFICES ASSUME CheckInv, Len(todo) > 1
                PROVE  HoldsFunctions(Global(tab))
                       /\ \A d \in 2 .. Len(tab) : HasNoFunction(tab[d])
    BY DEF GlobalIsProgram, HoldsFunctions, HasNoFunction
  <2>1. todo # <<>> /\ 1 \in 1 .. Len(todo) /\ 1 < Len(todo)
    BY DEF CheckInv, Path
  <2>. QED  BY <2>1 DEF CheckInv, Path, Registered, Global
<1>. QED  BY <1>1, CheckInvariant, PTL

(* While a block is checked its scope holds what its statements traversed  *)
(* so far declare, those in their arms and loops without a block included, *)
(* and nothing else; a function's holds its parameters: a name is neither  *)
(* seen before its declaration nor after its block (symtab.c:58, 83,       *)
(* semantic.c:205, 333).                                                   *)
THEOREM ScopesHoldTraversed == Spec => []ScopeHoldsTraversed
<1>1. HeldInv => ScopeHoldsTraversed
  <2>. SUFFICES ASSUME HeldInv, NEW j \in OpenScopes(Len(todo)), NEW scope,
                       scope = tab[1 + Cardinality(OpenScopes(j))],
                       NEW n, n = todo[j].n
                PROVE  IF Kind(n) = "FUNC_DECL"
                       THEN DOMAIN scope = ParamNames(n)
                       ELSE /\ DOMAIN scope \subseteq
                                  UNION {Declares(Child(n, i)) : i \in 1 .. todo[j].i - 1}
                            /\ UNION {Declares(Child(n, i)) : i \in 1 .. todo[j].i - 2}
                                  \subseteq DOMAIN scope
    BY Zenon DEF ScopeHoldsTraversed
  <2>. DEFINE a == todo[j]
  <2>1. j \in 1 .. Len(todo) /\ Opens(a) /\ Kind(n) \in {"FUNC_DECL", "BLOCK"}
    BY DEF OpenScopes, Opens
  <2>2. Depth(todo, j) = 1 + Cardinality(OpenScopes(j))
    BY DEF Depth, OpenScopes, Opens
  <2>3. Holds(a, j = Len(todo), scope)
    BY <2>1, <2>2, Zenon DEF HeldInv, Held
  <2>4. a.i \in Nat /\ Children(n) \in Nat
    <3>1. todo[j] \in Activation
      BY <2>1, ElementOfSeq DEF HeldInv, CheckInv, Path
    <3>. QED  BY <3>1, NodeIs DEF Activation
  <2>. HIDE DEF a
  <2>5. CASE Kind(n) = "FUNC_DECL"
    BY <2>1, <2>3, <2>5 DEF Holds, a
  <2>6. CASE Kind(n) = "BLOCK"
    <3>1. DOMAIN scope \subseteq UNION {Declares(Child(n, i)) : i \in 1 .. a.i - 1}
      BY <2>1, <2>3, <2>6 DEF Holds, a
    <3>2. ASSUME NEW i \in 1 .. a.i - 2
          PROVE  Declares(Child(n, i)) \subseteq DOMAIN scope
      <4>1. a.i <= Children(n) + 1 /\ n = a.n
        BY <2>3 DEF Holds, a
      <4>2. i \in 1 .. Children(n) /\ i < a.i /\ i # a.i - 1
        BY <2>4, <4>1
      <4>. QED  BY <2>3, <4>1, <4>2 DEF Holds
    <3>. QED  BY <2>6, <3>1, <3>2 DEF a
  <2>. QED  BY <2>1, <2>5, <2>6
<1>. QED  BY <1>1, HeldInvariant, PTL

-----------------------------------------------------------------------------
(* Judgements.                                                             *)


Notes == UNION {[S -> DataType] : S \in SUBSET Node}

Judgement == [type : DataType, errors : Nat, ann : Notes]

-----------------------------------------------------------------------------
(* The types operators yield.                                              *)

LEMMA BinaryIs ==
  ASSUME NEW op, NEW t1 \in DataType, NEW t2 \in DataType
  PROVE  LET b == BinaryType(op, t1, t2)
         IN  /\ b[1] \in DataType /\ b[2] \in BOOLEAN
             /\ b[1] = "VOID" /\ ~b[2] => t1 = "VOID" \/ t2 = "VOID"
<1>. DEFINE b == BinaryType(op, t1, t2)
<1>1. CASE "VOID" \in {t1, t2}
  <2>1. b = <<"VOID", FALSE>>
    BY <1>1 DEF BinaryType
  <2>. QED  BY <1>1, <2>1 DEF DataType
<1>2. CASE "VOID" \notin {t1, t2} /\ op = "ADD" /\ "STRING" \in {t1, t2}
  <2>1. b = <<"STRING", FALSE>>
    BY <1>2, Zenon DEF BinaryType
  <2>. QED  BY <2>1 DEF DataType
<1>. DEFINE plain == "VOID" \notin {t1, t2} /\ ~(op = "ADD" /\ "STRING" \in {t1, t2})
<1>3. CASE plain /\ op \in {"ADD", "SUB", "MUL", "DIV"}
  <2>1. b = IF {t1, t2} \subseteq Arith THEN <<Promoted(t1, t2), FALSE>>
                                        ELSE <<"VOID", TRUE>>
    BY <1>3, Zenon DEF BinaryType
  <2>2. Promoted(t1, t2) \in {"FLOAT", "INT"}
    BY DEF Promoted
  <2>. QED  BY <2>1, <2>2 DEF DataType
<1>4. CASE plain /\ op = "MOD"
  <2>1. b = IF {t1, t2} = {"INT"} THEN <<"INT", FALSE>> ELSE <<"VOID", TRUE>>
    BY <1>4 DEF BinaryType
  <2>. QED  BY <2>1 DEF DataType
<1>5. CASE plain /\ op \notin {"ADD", "SUB", "MUL", "DIV", "MOD"}
  <2>1. \E e \in BOOLEAN : b = <<"BOOL", e>>
    BY <1>5 DEF BinaryType
  <2>. QED  BY <2>1 DEF DataType
<1>. QED  BY <1>1, <1>2, <1>3, <1>4, <1>5

LEMMA UnaryIs ==
  ASSUME NEW op, NEW t \in DataType
  PROVE  LET u == UnaryType(op, t)
         IN  /\ u[1] \in DataType /\ u[2] \in BOOLEAN
             /\ u[1] = "VOID" => u[2]
BY DEF UnaryType, DataType, Arith

LEMMA CountIs ==
  ASSUME NEW e \in BOOLEAN
  PROVE  Count(e) \in Nat /\ (Count(e) = 0 <=> ~e)
BY DEF Count

-----------------------------------------------------------------------------
(* The annotations of a node's parts and its own.                          *)
Judgements(D, operands) == IsFiniteSet(D) /\ operands \in [D -> Judgement]

Composition(D, n, type, errors, operands, c) ==
    /\ c \in Judgement /\ c.type = type
    /\ c.errors = 0 <=> errors = 0 /\ \A i \in D : operands[i].errors = 0
    /\ DOMAIN c.ann = {n} \cup UNION {DOMAIN operands[i].ann : i \in D}
    /\ \A m \in DOMAIN c.ann :
          \/ m = n /\ c.ann[m] = type
          \/ \E i \in D : m \in DOMAIN operands[i].ann /\ c.ann[m] = operands[i].ann[m]

IsOver(f, g, h) ==
    /\ h \in Notes /\ DOMAIN h = DOMAIN f \cup DOMAIN g
    /\ \A m \in DOMAIN h : \/ m \in DOMAIN f /\ h[m] = f[m]
                           \/ m \in DOMAIN g /\ h[m] = g[m]

LEMMA NotesOver ==
  ASSUME NEW f \in Notes, NEW g \in Notes
  PROVE  IsOver(f, g, Over(f, g))
<1>1. PICK S \in SUBSET Node : f \in [S -> DataType]
  BY DEF Notes
<1>2. PICK T \in SUBSET Node : g \in [T -> DataType]
  BY DEF Notes
<1>3. Over(f, g) = [m \in S \cup T |-> IF m \in S THEN f[m] ELSE g[m]]
  BY <1>1, <1>2 DEF Over
<1>4. Over(f, g) \in [S \cup T -> DataType] /\ S \cup T \in SUBSET Node
  BY <1>1, <1>2, <1>3
<1>5. Over(f, g) \in Notes
  BY <1>4 DEF Notes
<1>6. DOMAIN f = S /\ DOMAIN g = T
  BY <1>1, <1>2
<1>. QED  BY <1>3, <1>5, <1>6 DEF IsOver

LEMMA AllNotesAre ==
  ASSUME NEW D, NEW operands \in [D -> Judgement]
  PROVE  /\ AllNotes(operands) \in Notes
         /\ DOMAIN AllNotes(operands) = UNION {DOMAIN operands[i].ann : i \in D}
         /\ \A m \in DOMAIN AllNotes(operands) :
               \E i \in D : /\ m \in DOMAIN operands[i].ann
                            /\ AllNotes(operands)[m] = operands[i].ann[m]
<1>. DEFINE All == AllNotes(operands)
            S == UNION {DOMAIN operands[i].ann : i \in D}
            About(m) == {i \in D : m \in DOMAIN operands[i].ann}
            Who(m) == CHOOSE i \in About(m) : TRUE
<1>1. All = [m \in S |-> operands[Who(m)].ann[m]]
  BY DEF AllNotes
<1>2. ASSUME NEW i \in D, NEW m \in DOMAIN operands[i].ann
      PROVE  m \in Node /\ operands[i].ann[m] \in DataType
  <2>1. operands[i].ann \in Notes
    BY DEF Judgement
  <2>2. PICK T \in SUBSET Node : operands[i].ann \in [T -> DataType]
    BY <2>1 DEF Notes
  <2>. QED  BY <2>2
<1>3. ASSUME NEW m \in S
      PROVE  Who(m) \in D /\ m \in DOMAIN operands[Who(m)].ann
  <2>1. About(m) # {}
    OBVIOUS
  <2>2. Who(m) \in About(m)
    <3>. HIDE DEF About
    <3>. QED  BY <2>1
  <2>. HIDE DEF Who
  <2>. QED  BY <2>2
<1>. HIDE DEF Who
<1>4. S \in SUBSET Node
  BY <1>2
<1>. HIDE DEF S
<1>5. DOMAIN All = S
  BY <1>1
<1>6. ASSUME NEW m \in S
      PROVE  /\ Who(m) \in D /\ m \in DOMAIN operands[Who(m)].ann
             /\ All[m] = operands[Who(m)].ann[m] /\ All[m] \in DataType
  BY <1>1, <1>2, <1>3
<1>7. All \in [S -> DataType]
  <2>1. All = [m \in S |-> All[m]]
    BY <1>1
  <2>. HIDE DEF All
  <2>. QED  BY <1>6, <2>1
<1>8. All \in Notes
  <2>. HIDE DEF All
  <2>. QED  BY <1>4, <1>7 DEF Notes
<1>. HIDE DEF All
<1>. QED  BY <1>5, <1>6, <1>8 DEF S, All

LEMMA ComposedIs ==
  ASSUME NEW D, NEW operands, Judgements(D, operands),
         NEW n \in Node, NEW type \in DataType, NEW errors \in Nat
  PROVE  Composition(D, n, type, errors, operands, Composed(n, type, errors, operands))
<1>. DEFINE f == [i \in D |-> operands[i].errors]
            own == [m \in {n} |-> type]
            c == Composed(n, type, errors, operands)
<1>0. IsFiniteSet(D) /\ operands \in [D -> Judgement]
  BY DEF Judgements
<1>1. f \in [D -> Nat]
  BY <1>0 DEF Judgement
<1>2. SumFunction(f) \in Nat /\ (SumFunction(f) = 0 <=> \A i \in D : f[i] = 0)
  <2>. HIDE DEF f
  <2>. QED  BY <1>0, <1>1, SumIs
<1>3. own \in Notes
  <2>1. own \in [{n} -> DataType] /\ {n} \in SUBSET Node
    OBVIOUS
  <2>. QED  BY <2>1 DEF Notes
<1>4. c = [type |-> type, errors |-> errors + SumFunction(f),
           ann |-> Over(own, AllNotes(operands))]
  BY <1>0 DEF Composed, Judged
<1>5. /\ AllNotes(operands) \in Notes
      /\ DOMAIN AllNotes(operands) = UNION {DOMAIN operands[i].ann : i \in D}
      /\ \A m \in DOMAIN AllNotes(operands) :
               \E i \in D : /\ m \in DOMAIN operands[i].ann
                            /\ AllNotes(operands)[m] = operands[i].ann[m]
  BY <1>0, AllNotesAre
<1>6. DOMAIN own = {n} /\ own[n] = type
  OBVIOUS
<1>7. \A i \in D : f[i] = operands[i].errors
  OBVIOUS
<1>. HIDE DEF f, own, c
<1>8. /\ Over(own, AllNotes(operands)) \in Notes
      /\ DOMAIN Over(own, AllNotes(operands)) = {n} \cup DOMAIN AllNotes(operands)
      /\ \A m \in DOMAIN Over(own, AllNotes(operands)) :
            \/ m = n /\ Over(own, AllNotes(operands))[m] = type
            \/ /\ m \in DOMAIN AllNotes(operands)
               /\ Over(own, AllNotes(operands))[m] = AllNotes(operands)[m]
  <2>. HIDE DEF Notes
  <2>1. IsOver(own, AllNotes(operands), Over(own, AllNotes(operands)))
    BY <1>3, <1>5, NotesOver
  <2>. QED  BY <1>6, <2>1 DEF IsOver
<1>9. c \in Judgement /\ c.type = type /\ c.ann = Over(own, AllNotes(operands))
  BY <1>2, <1>4, <1>8 DEF Judgement
<1>10. c.errors = 0 <=> errors = 0 /\ \A i \in D : operands[i].errors = 0
  <2>1. c.errors = errors + SumFunction(f)
    BY <1>4
  <2>2. c.errors = 0 <=> errors = 0 /\ SumFunction(f) = 0
    BY <1>2, <2>1
  <2>. QED  BY <1>2, <1>7, <2>2
<1>11. \A m \in DOMAIN c.ann :
          \/ m = n /\ c.ann[m] = type
          \/ \E i \in D : m \in DOMAIN operands[i].ann /\ c.ann[m] = operands[i].ann[m]
  BY <1>5, <1>8, <1>9
<1>. QED  BY <1>5, <1>8, <1>9, <1>10, <1>11 DEF Composition, c

-----------------------------------------------------------------------------
(* The symbol a name has is one of those in the open scopes.               *)

LEMMA LookupInner ==
  ASSUME NEW t \in Seq(Scope), NEW name
  PROVE  \/ /\ symtab_lookup(t, name) = NoSymbol
            /\ \A d \in 1 .. Len(t) : name \notin DOMAIN t[d]
         \/ \E d \in 1 .. Len(t) : /\ name \in DOMAIN t[d]
                                   /\ symtab_lookup(t, name) = t[d][name]
                                   /\ symtab_lookup(t, name) \in Symbol
                                   /\ \A c \in 1 .. Len(t) : name \in DOMAIN t[c] => c <= d
<1>. DEFINE having == {d \in 1 .. Len(t) : name \in DOMAIN t[d]}
            Innermost(d) == d \in having /\ \A c \in having : c <= d
            inner == CHOOSE d \in having : Innermost(d)
            k == Len(t)
<1>1. symtab_lookup(t, name) = IF having = {} THEN NoSymbol ELSE t[inner][name]
  BY DEF symtab_lookup
<1>2. k \in Nat /\ having \in SUBSET (1 .. k)
  OBVIOUS
<1>3. \A d \in having : d \in 1 .. k /\ name \in DOMAIN t[d]
  OBVIOUS
<1>4. CASE having # {}
  <2>. HIDE DEF having, k
  <2>. DEFINE T == {k - d : d \in having}
  <2>1. T \in SUBSET Nat /\ T # {}
    <3>1. \A d \in having : k - d \in Nat
      <4>1. ASSUME NEW d \in having PROVE d \in 1 .. k
        BY <1>2
      <4>2. \A d \in 1 .. k : k - d \in Nat
        BY <1>2
      <4>. QED  BY <4>1, <4>2
    <3>2. PICK d \in having : TRUE
      BY <1>4
    <3>. QED  BY <3>1, <3>2
  <2>2. PICK x \in T : \A y \in T : x <= y
    <3>. HIDE DEF T
    <3>. QED  BY <2>1, LeastOf
  <2>3. PICK d \in having : x = k - d
    BY <2>2
  <2>4. ASSUME NEW c \in having PROVE k - d <= k - c /\ c \in Int
    <3>1. k - c \in T /\ c \in Int
      BY <1>2
    <3>. HIDE DEF T
    <3>. QED  BY <2>2, <2>3, <3>1
  <2>5. Innermost(d)
    BY <1>2, <2>4
  <2>6. inner \in having /\ Innermost(inner)
    <3>. HIDE DEF Innermost
    <3>. QED  BY <2>5
  <2>10. \A c \in 1 .. Len(t) : name \in DOMAIN t[c] => c <= inner
    <3>1. \A c \in having : c <= inner
      BY <2>6
    <3>. QED  BY <3>1 DEF having, k
  <2>. HIDE DEF inner
  <2>7. inner \in 1 .. Len(t) /\ name \in DOMAIN t[inner]
    BY <1>3, <2>6 DEF k
  <2>8. t[inner] \in Scope
    BY <2>7, ElementOfSeq
  <2>9. t[inner][name] \in Symbol
    BY <2>7, <2>8 DEF Scope
  <2>. QED  BY <1>1, <1>4, <2>7, <2>9, <2>10
<1>. QED  BY <1>1, <1>4

LEMMA LookupIs ==
  ASSUME NEW t \in Seq(Scope), NEW name
  PROVE  \/ symtab_lookup(t, name) = NoSymbol
         \/ \E d \in 1 .. Len(t) : /\ name \in DOMAIN t[d]
                                   /\ symtab_lookup(t, name) = t[d][name]
                                   /\ symtab_lookup(t, name) \in Symbol
BY LookupInner

LEMMA CallErrorsAre ==
  ASSUME NEW sym \in Symbol, NEW k \in Nat, NEW types \in [1 .. k -> DataType]
  PROVE  /\ CallErrors(sym, types) \in Nat
         /\ CallErrors(sym, types) = 0 => k = Len(sym.params)
<1>. DEFINE bad == {i \in 1 .. Len(types) :
                      i <= Len(sym.params) /\ ~Accepts(sym.params[i], types[i])}
<1>1. Len(types) = k /\ Len(sym.params) \in Nat
  BY DEF Symbol
<1>2. IsFiniteSet(1 .. k) /\ bad \in SUBSET (1 .. k)
  <2>1. bad \in SUBSET (1 .. k)
    BY <1>1
  <2>. QED  BY <2>1, FS_Interval
<1>3. Cardinality(bad) \in Nat
  <2>. HIDE DEF bad
  <2>. QED  BY <1>2, FS_Subset, FS_CardinalityType
<1>4. CallErrors(sym, types) = Count(k # Len(sym.params)) + Cardinality(bad)
  BY <1>1 DEF CallErrors
<1>. HIDE DEF bad
<1>5. Count(k # Len(sym.params)) \in Nat
      /\ (Count(k # Len(sym.params)) = 0 => k = Len(sym.params))
  BY DEF Count
<1>. QED  BY <1>3, <1>4, <1>5

-----------------------------------------------------------------------------
(* A node's judgement follows from those of its parts: it notes nothing    *)
(* but their notes and its own; and as long as no error is found below,    *)
(* all parts are judged, it is VOID because of a symbol or of a part, and  *)
(* if it is a call the symbol is a function with as many parameters.       *)

CallMatches(symtab, n) ==
    LET sym == symtab_lookup(symtab, Ast[n].name)
    IN  sym.kind = "FUNCTION" /\ Len(Ast[n].args) = Len(sym.params)

VoidFrom(symtab, judge, n) ==
    LET sym == symtab_lookup(symtab, Ast[n].name)
    IN  \/ /\ Kind(n) = "VAR_REF" /\ sym.kind \notin {"NONE", "FUNCTION"}
           /\ sym.type = "VOID"
        \/ Kind(n) = "CALL" /\ sym.kind = "FUNCTION" /\ sym.type = "VOID"
        \/ \E c \in Parts(n) : judge[c].type = "VOID"

Follows(symtab, judge, n, r) ==
    /\ r \in Judgement
    /\ \A m \in DOMAIN r.ann :
          \/ m = n /\ r.ann[m] = r.type
          \/ \E c \in Parts(n) : m \in DOMAIN judge[c].ann /\ r.ann[m] = judge[c].ann[m]
    /\ r.errors = 0 =>
          /\ \A c \in Parts(n) : /\ judge[c].errors = 0
                                 /\ DOMAIN judge[c].ann \subseteq DOMAIN r.ann
          /\ Kind(n) = "LITERAL" \/ n \in DOMAIN r.ann
          /\ r.type = "VOID" => VoidFrom(symtab, judge, n)
          /\ Kind(n) = "CALL" => CallMatches(symtab, n)

Supports(symtab, judge, n, type, errors, D, operands) ==
    /\ \A i \in D : \E c \in Parts(n) : operands[i] = judge[c]
    /\ errors = 0 => \A c \in Parts(n) : \E i \in D : operands[i] = judge[c]
    /\ errors = 0 /\ type = "VOID" => VoidFrom(symtab, judge, n)
    /\ errors = 0 /\ Kind(n) = "CALL" => CallMatches(symtab, n)

LEMMA ComposedFollows ==
  ASSUME NEW symtab, NEW judge, NEW n \in Node, NEW type \in DataType,
         NEW errors \in Nat, NEW D, NEW operands, Judgements(D, operands),
         Supports(symtab, judge, n, type, errors, D, operands)
  PROVE  Follows(symtab, judge, n, Composed(n, type, errors, operands))
<1>. DEFINE r == Composed(n, type, errors, operands)
<1>0. /\ \A i \in D : \E c \in Parts(n) : operands[i] = judge[c]
      /\ errors = 0 => \A c \in Parts(n) : \E i \in D : operands[i] = judge[c]
      /\ errors = 0 /\ type = "VOID" => VoidFrom(symtab, judge, n)
      /\ errors = 0 /\ Kind(n) = "CALL" => CallMatches(symtab, n)
  BY DEF Supports
<1>1. Composition(D, n, type, errors, operands, r)
  BY ComposedIs
<1>. HIDE DEF r
<1>2. r \in Judgement /\ r.type = type
  BY <1>1 DEF Composition
<1>3. \A m \in DOMAIN r.ann :
          \/ m = n /\ r.ann[m] = r.type
          \/ \E c \in Parts(n) : m \in DOMAIN judge[c].ann /\ r.ann[m] = judge[c].ann[m]
  BY <1>0, <1>1, <1>2 DEF Composition
<1>4. ASSUME r.errors = 0
      PROVE  /\ \A c \in Parts(n) : /\ judge[c].errors = 0
                                    /\ DOMAIN judge[c].ann \subseteq DOMAIN r.ann
             /\ Kind(n) = "LITERAL" \/ n \in DOMAIN r.ann
             /\ r.type = "VOID" => VoidFrom(symtab, judge, n)
             /\ Kind(n) = "CALL" => CallMatches(symtab, n)
  <2>1. errors = 0 /\ \A i \in D : operands[i].errors = 0
    BY <1>1, <1>4 DEF Composition
  <2>2. DOMAIN r.ann = {n} \cup UNION {DOMAIN operands[i].ann : i \in D}
    BY <1>1 DEF Composition
  <2>. QED  BY <1>0, <1>2, <2>1, <2>2
<1>5. Follows(symtab, judge, n, r)
  BY <1>2, <1>3, <1>4 DEF Follows
<1>. QED  BY <1>5 DEF r

Value(judge, n) == [i \in 1 .. Len(OperandNodes(n)) |-> judge[OperandNodes(n)[i]]]

LEMMA ExpressionIs ==
  ASSUME NEW n \in Expression
  PROVE  /\ n \in Node /\ Kind(n) \in ExprKind /\ Ast[n].type \in DataType
         /\ OperandNodes(n) \in Seq(Node) /\ Len(OperandNodes(n)) \in Nat
         /\ Parts(n) = {OperandNodes(n)[i] : i \in 1 .. Len(OperandNodes(n))}
         /\ Parts(n) \subseteq Expression
         /\ Kind(n) = "BINARY_OP" => Len(OperandNodes(n)) = 2
         /\ Kind(n) = "UNARY_OP" => Len(OperandNodes(n)) = 1
         /\ Kind(n) \in {"LITERAL", "VAR_REF"} => Len(OperandNodes(n)) = 0
         /\ Kind(n) = "LITERAL" => Ast[n].type # "VOID"
<1>1. n \in Node /\ Kind(n) \in ExprKind /\ Ast[n].type \in DataType
  BY NodeIs DEF Expression
<1>2. /\ Ast[n].children \in Seq(Node) /\ Ast[n].args \in Seq(Node)
      /\ WellCounted(Kind(n), Children(n))
      /\ Kind(n) # "CALL" => Ast[n].args = <<>>
      /\ Kind(n) = "LITERAL" => Ast[n].type # "VOID"
      /\ \A i \in 1 .. Len(Ast[n].args) : Kind(Ast[n].args[i]) \in ExprKind
      /\ \A i \in 1 .. Children(n) :
          Kind(Child(n, i)) \in
             IF Kind(n) = "PROGRAM"      THEN {"FUNC_DECL"}
             ELSE IF Kind(n) = "FUNC_DECL" THEN {"BLOCK"}
             ELSE IF i \in ExprChildren(n) THEN ExprKind
             ELSE StmtKind \cup ExprKind
  BY <1>1, AstAssumption DEF AstNode, WellShaped
<1>. DEFINE kids == Ast[n].children
            args == Ast[n].args
<1>3. /\ Len(kids) \in Nat /\ Len(args) \in Nat
      /\ \A i \in 1 .. Len(kids) : kids[i] \in Node
      /\ \A i \in 1 .. Len(args) : args[i] \in Node
  BY <1>2
<1>4. Parts(n) = {kids[i] : i \in 1 .. Len(kids)} \cup {args[i] : i \in 1 .. Len(args)}
  BY DEF Parts, Child, Children
<1>5. CASE Kind(n) = "CALL"
  <2>1. Len(kids) = 0 /\ OperandNodes(n) = args
    BY <1>2, <1>5 DEF WellCounted, Children, OperandNodes
  <2>. HIDE DEF kids
  <2>2. Parts(n) = {args[i] : i \in 1 .. Len(args)}
    BY <1>4, <2>1
  <2>3. Parts(n) \subseteq Expression
    BY <1>2, <1>3, <2>2 DEF Expression
  <2>. QED  BY <1>1, <1>2, <1>5, <2>1, <2>2, <2>3
<1>6. CASE Kind(n) # "CALL"
  <2>1. args = <<>> /\ OperandNodes(n) = kids
    BY <1>2, <1>6 DEF OperandNodes
  <2>2. /\ Kind(n) = "BINARY_OP" => Len(kids) = 2
        /\ Kind(n) = "UNARY_OP" => Len(kids) = 1
        /\ Kind(n) \in {"LITERAL", "VAR_REF"} => Len(kids) = 0
    BY <1>2 DEF WellCounted, Children
  <2>3. Parts(n) = {kids[i] : i \in 1 .. Len(kids)}
    <3>. HIDE DEF args
    <3>. QED  BY <1>4, <2>1
  <2>4. Parts(n) \subseteq Expression
    <3>1. CASE Kind(n) \in {"LITERAL", "VAR_REF"}
      BY <2>2, <2>3, <3>1
    <3>2. CASE Kind(n) \in {"BINARY_OP", "UNARY_OP"}
      <4>1. ExprChildren(n) = 1 .. Children(n)
        BY <3>2, Zenon DEF ExprChildren
      <4>2. \A i \in 1 .. Len(kids) : Kind(kids[i]) \in ExprKind
        BY <1>2, <3>2, <4>1 DEF Child, Children
      <4>. QED  BY <1>3, <2>3, <4>2 DEF Expression
    <3>. QED  BY <1>1, <1>6, <3>1, <3>2 DEF ExprKind
  <2>. QED  BY <1>1, <1>2, <1>6, <2>1, <2>2, <2>3, <2>4
<1>. QED  BY <1>5, <1>6

LEMMA ValueIs ==
  ASSUME NEW judge \in [Expression -> Judgement], NEW n \in Expression
  PROVE  LET D == 1 .. Len(OperandNodes(n))
         IN  /\ Judgements(D, Value(judge, n)) /\ DOMAIN Value(judge, n) = D
             /\ \A i \in D : \E c \in Parts(n) : Value(judge, n)[i] = judge[c]
             /\ \A c \in Parts(n) : \E i \in D : Value(judge, n)[i] = judge[c]
<1>. DEFINE ops == OperandNodes(n)
            k == Len(ops)
<1>1. /\ k \in Nat /\ Parts(n) = {ops[i] : i \in 1 .. k} /\ Parts(n) \subseteq Expression
  BY ExpressionIs
<1>2. Value(judge, n) = [i \in 1 .. k |-> judge[ops[i]]]
  BY DEF Value
<1>. HIDE DEF ops, k
<1>3. \A i \in 1 .. k : ops[i] \in Parts(n) /\ judge[ops[i]] \in Judgement
  BY <1>1
<1>4. Value(judge, n) \in [1 .. k -> Judgement]
  BY <1>2, <1>3
<1>5. IsFiniteSet(1 .. k)
  BY <1>1, FS_Interval
<1>6. Judgements(1 .. k, Value(judge, n))
  BY <1>4, <1>5 DEF Judgements
<1>. QED  BY <1>1, <1>2, <1>3, <1>6 DEF k, ops

LEMMA JudgeNodeFollows ==
  ASSUME NEW t \in Seq(Scope), NEW judge \in [Expression -> Judgement],
         NEW n \in Expression
  PROVE  Follows(t, judge, n, JudgeNode(t, n, Value(judge, n)))
<1>. DEFINE ops == Value(judge, n)
            D   == 1 .. Len(OperandNodes(n))
            sym == symtab_lookup(t, Ast[n].name)
            binary == BinaryType(Ast[n].op, ops[1].type, ops[2].type)
            unary  == UnaryType(Ast[n].op, ops[1].type)
            r == JudgeNode(t, n, ops)
<1>1. /\ n \in Node /\ Kind(n) \in ExprKind /\ Ast[n].type \in DataType
      /\ Len(OperandNodes(n)) \in Nat
      /\ Kind(n) = "BINARY_OP" => Len(OperandNodes(n)) = 2
      /\ Kind(n) = "UNARY_OP" => Len(OperandNodes(n)) = 1
      /\ Kind(n) \in {"LITERAL", "VAR_REF"} => Len(OperandNodes(n)) = 0
      /\ Kind(n) = "LITERAL" => Ast[n].type # "VOID"
  BY ExpressionIs
<1>2. Kind(n) \in {"LITERAL", "VAR_REF"} => Parts(n) = {}
  BY <1>1, ExpressionIs
<1>3. /\ Judgements(D, ops) /\ DOMAIN ops = D
      /\ \A i \in D : \E c \in Parts(n) : ops[i] = judge[c]
      /\ \A c \in Parts(n) : \E i \in D : ops[i] = judge[c]
  BY ValueIs
<1>4. \A i \in D : ops[i] \in Judgement /\ ops[i].type \in DataType
  BY <1>3 DEF Judgements, Judgement
<1>5. sym \in Symbol \cup {NoSymbol}
  BY LookupIs
<1>6. /\ sym.type \in DataType /\ sym.kind \in SymKind \cup {"NONE"}
      /\ sym.kind \notin {"NONE", "FUNCTION"} \/ sym.kind = "NONE" \/ sym.kind = "FUNCTION"
      /\ sym.kind = "FUNCTION" => sym \in Symbol
  BY <1>5 DEF Symbol, NoSymbol, DataType
<1>7. Judgements({}, <<>>)
  <2>1. <<>> \in [{} -> Judgement]
    OBVIOUS
  <2>2. IsFiniteSet({})
    BY FS_EmptySet
  <2>. QED  BY <2>1, <2>2 DEF Judgements
<1>. HIDE DEF ops, sym, r, D
<1>8. CASE Kind(n) = "LITERAL"
  <2>1. r = [type |-> Ast[n].type, errors |-> 0, ann |-> <<>>]
    BY <1>8, Zenon DEF JudgeNode, Judged, r
  <2>2. <<>> \in Notes
    <3>1. <<>> \in [{} -> DataType] /\ {} \in SUBSET Node
      OBVIOUS
    <3>. QED  BY <3>1 DEF Notes
  <2>3. r \in Judgement
    BY <1>1, <2>1, <2>2 DEF Judgement
  <2>. QED  BY <1>1, <1>2, <1>8, <2>1, <2>3 DEF Follows, r, ops
<1>9. CASE Kind(n) = "VAR_REF"
  <2>. DEFINE e == Count(sym.kind \in {"NONE", "FUNCTION"})
  <2>1. r = Composed(n, sym.type, e, <<>>)
    BY <1>9, Zenon DEF JudgeNode, r, sym
  <2>2. e \in Nat /\ (e = 0 <=> sym.kind \notin {"NONE", "FUNCTION"})
    BY DEF Count
  <2>3. e = 0 /\ sym.type = "VOID" => VoidFrom(t, judge, n)
    BY <1>9, <2>2 DEF VoidFrom, sym
  <2>. HIDE DEF e
  <2>4. Supports(t, judge, n, sym.type, e, {}, <<>>)
    BY <1>2, <1>9, <2>3 DEF Supports
  <2>5. Follows(t, judge, n, Composed(n, sym.type, e, <<>>))
    BY <1>1, <1>6, <1>7, <2>2, <2>4, ComposedFollows
  <2>. QED  BY <2>1, <2>5 DEF r, ops
<1>10. CASE Kind(n) = "BINARY_OP"
  <2>1. r = Composed(n, binary[1], Count(binary[2]), ops)
    BY <1>10, Zenon DEF JudgeNode, r
  <2>2. 1 \in D /\ 2 \in D
    <3>1. Len(OperandNodes(n)) = 2
      BY <1>1, <1>10
    <3>. QED  BY <3>1 DEF D
  <2>3. ops[1].type \in DataType /\ ops[2].type \in DataType
    BY <1>4, <2>2
  <2>4. /\ binary[1] \in DataType /\ binary[2] \in BOOLEAN
        /\ binary[1] = "VOID" /\ ~binary[2] => ops[1].type = "VOID" \/ ops[2].type = "VOID"
    BY <2>3, BinaryIs
  <2>. HIDE DEF binary
  <2>5. Count(binary[2]) \in Nat /\ (Count(binary[2]) = 0 <=> ~binary[2])
    BY <2>4, CountIs
  <2>6. Count(binary[2]) = 0 /\ binary[1] = "VOID" => VoidFrom(t, judge, n)
    BY <1>3, <2>2, <2>4, <2>5 DEF VoidFrom
  <2>7. Supports(t, judge, n, binary[1], Count(binary[2]), D, ops)
    BY <1>3, <1>10, <2>6 DEF Supports
  <2>8. Follows(t, judge, n, Composed(n, binary[1], Count(binary[2]), ops))
    BY <1>1, <1>3, <2>4, <2>5, <2>7, ComposedFollows
  <2>. QED  BY <2>1, <2>8 DEF r, ops
<1>11. CASE Kind(n) = "UNARY_OP"
  <2>1. r = Composed(n, unary[1], Count(unary[2]), ops)
    BY <1>11, Zenon DEF JudgeNode, r
  <2>2. 1 \in D
    BY <1>1, <1>11 DEF D
  <2>3. ops[1].type \in DataType
    BY <1>4, <2>2
  <2>4. unary[1] \in DataType /\ unary[2] \in BOOLEAN /\ (unary[1] = "VOID" => unary[2])
    BY <2>3, UnaryIs
  <2>. HIDE DEF unary
  <2>5. Count(unary[2]) \in Nat /\ (Count(unary[2]) = 0 <=> ~unary[2])
    BY <2>4, CountIs
  <2>6. Count(unary[2]) = 0 /\ unary[1] = "VOID" => VoidFrom(t, judge, n)
    BY <2>4, <2>5
  <2>7. Supports(t, judge, n, unary[1], Count(unary[2]), D, ops)
    BY <1>3, <1>11, <2>6 DEF Supports
  <2>8. Follows(t, judge, n, Composed(n, unary[1], Count(unary[2]), ops))
    BY <1>1, <1>3, <2>4, <2>5, <2>7, ComposedFollows
  <2>. QED  BY <2>1, <2>8 DEF r, ops
<1>12. CASE Kind(n) = "CALL" /\ sym.kind # "FUNCTION"
  <2>1. r = Composed(n, "VOID", 1, <<>>)
    BY <1>12, Zenon DEF JudgeNode, r, sym
  <2>2. "VOID" \in DataType /\ 1 \in Nat /\ 1 # 0
    BY DEF DataType
  <2>3. Supports(t, judge, n, "VOID", 1, {}, <<>>)
    BY <2>2 DEF Supports
  <2>4. Follows(t, judge, n, Composed(n, "VOID", 1, <<>>))
    BY <1>1, <1>7, <2>2, <2>3, ComposedFollows
  <2>. QED  BY <2>1, <2>4 DEF r, ops
<1>13. CASE Kind(n) = "CALL" /\ sym.kind = "FUNCTION"
  <2>. DEFINE types == [i \in DOMAIN ops |-> ops[i].type]
              e == CallErrors(sym, types)
  <2>1. r = Composed(n, sym.type, e, ops)
    BY <1>13, Zenon DEF JudgeNode, r, sym
  <2>2. types \in [1 .. Len(OperandNodes(n)) -> DataType]
    BY <1>3, <1>4 DEF D
  <2>3. e \in Nat /\ (e = 0 => CallMatches(t, n))
    <3>. HIDE DEF types
    <3>1. e \in Nat /\ (e = 0 => Len(OperandNodes(n)) = Len(sym.params))
      BY <1>1, <1>6, <1>13, <2>2, CallErrorsAre
    <3>2. OperandNodes(n) = Ast[n].args
      BY <1>13 DEF OperandNodes
    <3>. QED  BY <1>13, <3>1, <3>2 DEF CallMatches, sym
  <2>4. e = 0 /\ sym.type = "VOID" => VoidFrom(t, judge, n)
    BY <1>13 DEF VoidFrom, sym
  <2>. HIDE DEF e
  <2>5. Supports(t, judge, n, sym.type, e, D, ops)
    BY <1>3, <2>3, <2>4, Zenon DEF Supports
  <2>6. Follows(t, judge, n, Composed(n, sym.type, e, ops))
    BY <1>1, <1>3, <1>6, <2>3, <2>5, ComposedFollows
  <2>. QED  BY <2>1, <2>6 DEF r, ops
<1>. QED
  BY <1>1, <1>8, <1>9, <1>10, <1>11, <1>12, <1>13 DEF ExprKind, r, ops

-----------------------------------------------------------------------------
(* check_expression judges every expression that way: its recursion ends,  *)
(* since an expression is above its parts.                                 *)
Rule(t, judge) == [n \in Expression |-> JudgeNode(t, n, Value(judge, n))]
JudgeOf(t)     == CHOOSE judge : judge = Rule(t, judge)

LEMMA SameValue ==
  ASSUME NEW f, NEW g, NEW n \in Expression,
         \A d \in Expression : Rank[d] < Rank[n] => f[d] = g[d]
  PROVE  Value(f, n) = Value(g, n)
<1>. DEFINE ops == OperandNodes(n)
<1>1. Parts(n) = {ops[i] : i \in 1 .. Len(ops)} /\ Parts(n) \subseteq Expression
      /\ n \in Node
  BY ExpressionIs
<1>2. \A c \in Parts(n) : f[c] = g[c]
  BY <1>1, RankIs
<1>. HIDE DEF ops
<1>3. \A i \in 1 .. Len(ops) : f[ops[i]] = g[ops[i]]
  BY <1>1, <1>2
<1>. QED  BY <1>3 DEF Value, ops

LEMMA JudgeExists ==
  ASSUME NEW t \in Seq(Scope)
  PROVE  \E f \in [Expression -> Judgement] : f = Rule(t, f)
<1>. DEFINE E == Expression
            V == Judgement
            rank == [n \in E |-> Rank[n]]
            F == [p \in [E -> V] \X E |-> JudgeNode(t, p[2], Value(p[1], p[2]))]
<1>1. rank \in [E -> Nat] /\ \A n \in E : rank[n] = Rank[n]
  BY RankIs DEF Expression
<1>2. V # {}
  <2>1. <<>> \in [{} -> DataType] /\ {} \in SUBSET Node
    OBVIOUS
  <2>2. [type |-> "INT", errors |-> 0, ann |-> <<>>] \in Judgement
    BY <2>1 DEF Judgement, Notes, DataType
  <2>. QED  BY <2>2
<1>3. ASSUME NEW f \in [E -> V], NEW n \in E PROVE JudgeNode(t, n, Value(f, n)) \in V
  BY JudgeNodeFollows DEF Follows
<1>4. /\ F \in [[E -> V] \X E -> V]
      /\ \A f \in [E -> V], n \in E : F[<<f, n>>] = JudgeNode(t, n, Value(f, n))
  <2>. HIDE DEF E, V
  <2>. QED  BY <1>3
<1>5. ASSUME NEW f \in [E -> V], NEW g \in [E -> V], NEW n \in E,
             \A d \in E : rank[d] < rank[n] => f[d] = g[d]
      PROVE  F[<<f, n>>] = F[<<g, n>>]
  <2>1. Value(f, n) = Value(g, n)
    <3>1. \A d \in Expression : Rank[d] < Rank[n] => f[d] = g[d]
      BY <1>1, <1>5
    <3>. QED  BY <3>1, SameValue
  <2>2. F[<<f, n>>] = JudgeNode(t, n, Value(f, n))
        /\ F[<<g, n>>] = JudgeNode(t, n, Value(g, n))
    BY <1>4
  <2>. QED  BY <2>1, <2>2, Zenon
<1>. HIDE DEF E, V, rank, F
<1>6. Local(E, V, rank, F)
  BY <1>5 DEF Local
<1>7. PICK f \in [E -> V] : Recurs(E, F, f)
  BY <1>1, <1>2, <1>4, <1>6, Recursion
<1>8. \A n \in E : f[n] = JudgeNode(t, n, Value(f, n))
  BY <1>4, <1>7 DEF Recurs
<1>9. f = [n \in E |-> JudgeNode(t, n, Value(f, n))]
  <2>1. f = [n \in E |-> f[n]]
    OBVIOUS
  <2>. QED  BY <1>8, <2>1
<1>. QED  BY <1>9 DEF E, V, Rule

LEMMA JudgeIs ==
  ASSUME NEW t \in Seq(Scope)
  PROVE  /\ JudgeOf(t) \in [Expression -> Judgement]
         /\ \A n \in Expression :
               /\ check_expression(t, n) = JudgeOf(t)[n]
               /\ Follows(t, JudgeOf(t), n, JudgeOf(t)[n])
<1>1. PICK f \in [Expression -> Judgement] : f = Rule(t, f)
  BY JudgeExists
<1>2. JudgeOf(t) = Rule(t, JudgeOf(t))
  <2>. HIDE DEF Rule
  <2>. QED  BY <1>1 DEF JudgeOf
<1>3. \A n : check_expression(t, n) = JudgeOf(t)[n]
  BY DEF check_expression, JudgeOf, Rule, Value
<1>. HIDE DEF JudgeOf
<1>. DEFINE judge == JudgeOf(t)
            rank == [n \in Expression |-> Rank[n]]
            S == {n \in Expression : judge[n] = f[n]}
<1>4. ASSUME NEW n \in Expression, \A d \in Expression : rank[d] < rank[n] => d \in S
      PROVE  n \in S
  <2>1. \A d \in Expression : Rank[d] < Rank[n] => judge[d] = f[d]
    BY <1>4
  <2>2. Value(judge, n) = Value(f, n)
    <3>. HIDE DEF judge
    <3>. QED  BY <2>1, SameValue
  <2>3. judge[n] = JudgeNode(t, n, Value(judge, n)) /\ f[n] = JudgeNode(t, n, Value(f, n))
    BY <1>1, <1>2 DEF Rule
  <2>. QED  BY <2>2, <2>3
<1>5. rank \in [Expression -> Nat]
  BY RankIs DEF Expression
<1>. HIDE DEF S, rank
<1>6. Expression \subseteq S
  BY <1>4, <1>5, RankInduction
<1>7. judge = f
  <2>1. judge = [n \in Expression |-> judge[n]] /\ f = [n \in Expression |-> f[n]]
    BY <1>1, <1>2 DEF Rule
  <2>2. \A n \in Expression : judge[n] = f[n]
    BY <1>6 DEF S
  <2>. QED  BY <2>1, <2>2
<1>8. \A n \in Expression : judge[n] = JudgeNode(t, n, Value(judge, n))
  BY <1>2 DEF Rule
<1>. QED  BY <1>3, <1>7, <1>8, JudgeNodeFollows

-----------------------------------------------------------------------------
(* What holds of a judgement, from the leaves of the expression upwards.   *)

LEMMA ExpressionTree ==
  ASSUME NEW n \in Expression
  PROVE  /\ n \in Node /\ n \in Subtree(n) /\ Subtree(n) \subseteq Expression
         /\ \A c \in Parts(n) : c \in Expression /\ Subtree(c) \subseteq Subtree(n)
<1>. DEFINE S == {m \in Node : m \in Expression => Subtree(m) \subseteq Expression}
<1>1. ASSUME NEW m \in Node, Parts(m) \subseteq S PROVE m \in S
  <2>1. CASE m \in Expression
    BY <1>1, <2>1, ExpressionIs, SubtreeIs
  <2>. QED  BY <2>1
<1>. HIDE DEF S
<1>2. Node \subseteq S
  BY <1>1, TreeInduction
<1>3. n \in Node
  BY ExpressionIs
<1>. QED  BY <1>2, <1>3, ExpressionIs, SubtreeIs DEF S

(* A symbol that makes its use or its call VOID without an error.          *)
SymbolIsVoid(t, n) ==
    LET sym == symtab_lookup(t, Ast[n].name)
    IN  \/ /\ Kind(n) = "VAR_REF" /\ sym.kind \notin {"NONE", "FUNCTION"}
           /\ sym.type = "VOID"
        \/ Kind(n) = "CALL" /\ sym.kind = "FUNCTION" /\ sym.type = "VOID"

Sourced(t, n, r) ==
    r.errors = 0 =>
       /\ r.type = "VOID" => \E k \in Subtree(n) : SymbolIsVoid(t, k)
       /\ \A m \in DOMAIN r.ann :
             r.ann[m] = "VOID" => \E k \in Subtree(m) : SymbolIsVoid(t, k)
       /\ \A m \in Subtree(n) : Kind(m) = "LITERAL" \/ m \in DOMAIN r.ann
       /\ \A m \in DOMAIN r.ann : Kind(m) = "CALL" => CallMatches(t, m)

LEMMA JudgementIsSourced ==
  ASSUME NEW t \in Seq(Scope), NEW n \in Expression
  PROVE  /\ check_expression(t, n) \in Judgement
         /\ Sourced(t, n, check_expression(t, n))
<1>. DEFINE judge == JudgeOf(t)
            S == {m \in Node : m \in Expression => Sourced(t, m, judge[m])}
<1>1. /\ judge \in [Expression -> Judgement]
      /\ \A m \in Expression : /\ check_expression(t, m) = judge[m]
                               /\ Follows(t, judge, m, judge[m])
  BY JudgeIs
<1>. HIDE DEF judge
<1>2. ASSUME NEW m \in Node, Parts(m) \subseteq S PROVE m \in S
  <2>. SUFFICES ASSUME m \in Expression, judge[m].errors = 0
                PROVE  Sourced(t, m, judge[m])
    BY DEF Sourced
  <2>1. /\ \A c \in Parts(m) : /\ c \in Expression /\ Subtree(c) \subseteq Subtree(m)
      /\ Subtree(m) = {m} \cup UNION {Subtree(c) : c \in Parts(m)}
      /\ m \in Subtree(m)
    BY ExpressionTree, SubtreeIs
  <2>2. /\ \A k \in DOMAIN judge[m].ann :
              \/ k = m /\ judge[m].ann[k] = judge[m].type
              \/ \E c \in Parts(m) : /\ k \in DOMAIN judge[c].ann
                                     /\ judge[m].ann[k] = judge[c].ann[k]
        /\ \A c \in Parts(m) : /\ judge[c].errors = 0
                               /\ DOMAIN judge[c].ann \subseteq DOMAIN judge[m].ann
        /\ Kind(m) = "LITERAL" \/ m \in DOMAIN judge[m].ann
        /\ judge[m].type = "VOID" => VoidFrom(t, judge, m)
        /\ Kind(m) = "CALL" => CallMatches(t, m)
    BY <1>1 DEF Follows
  <2>3. ASSUME NEW c \in Parts(m)
        PROVE  /\ judge[c].type = "VOID" => \E k \in Subtree(c) : SymbolIsVoid(t, k)
               /\ \A k \in DOMAIN judge[c].ann :
                     judge[c].ann[k] = "VOID" => \E l \in Subtree(k) : SymbolIsVoid(t, l)
               /\ \A k \in Subtree(c) : Kind(k) = "LITERAL" \/ k \in DOMAIN judge[c].ann
               /\ \A k \in DOMAIN judge[c].ann : Kind(k) = "CALL" => CallMatches(t, k)
    <3>1. Sourced(t, c, judge[c])
      BY <1>2, <2>1
    <3>. QED  BY <2>2, <3>1 DEF Sourced
  <2>4. ASSUME judge[m].type = "VOID" PROVE \E k \in Subtree(m) : SymbolIsVoid(t, k)
    <3>1. CASE \E c \in Parts(m) : judge[c].type = "VOID"
      BY <2>1, <2>3, <3>1
    <3>2. CASE ~\E c \in Parts(m) : judge[c].type = "VOID"
      <4>1. SymbolIsVoid(t, m)
        BY <2>2, <2>4, <3>2 DEF VoidFrom, SymbolIsVoid
      <4>. QED  BY <2>1, <4>1
    <3>. QED  BY <3>1, <3>2
  <2>5. ASSUME NEW k \in DOMAIN judge[m].ann, judge[m].ann[k] = "VOID"
        PROVE  \E l \in Subtree(k) : SymbolIsVoid(t, l)
    <3>1. CASE k = m /\ judge[m].ann[k] = judge[m].type
      BY <2>4, <2>5, <3>1
    <3>2. ASSUME NEW c \in Parts(m), k \in DOMAIN judge[c].ann,
                 judge[m].ann[k] = judge[c].ann[k]
          PROVE  \E l \in Subtree(k) : SymbolIsVoid(t, l)
      BY <2>3, <2>5, <3>2
    <3>. QED  BY <2>2, <3>1, <3>2
  <2>6. \A k \in Subtree(m) : Kind(k) = "LITERAL" \/ k \in DOMAIN judge[m].ann
    BY <2>1, <2>2, <2>3
  <2>7. \A k \in DOMAIN judge[m].ann : Kind(k) = "CALL" => CallMatches(t, k)
    BY <2>2, <2>3
  <2>. QED  BY <2>4, <2>5, <2>6, <2>7 DEF Sourced
<1>. HIDE DEF S
<1>3. Node \subseteq S
  BY <1>2, TreeInduction
<1>4. n \in Node /\ Sourced(t, n, judge[n])
  BY <1>3, ExpressionTree DEF S
<1>. QED  BY <1>1, <1>4

-----------------------------------------------------------------------------
(* No more different things than there are positions to find them at.      *)
LEMMA FewerThan ==
  ASSUME NEW k \in Nat, NEW f, NEW T, T = {f[i] : i \in 1 .. k}
  PROVE  /\ Cardinality(T) \in Nat /\ k - Cardinality(T) \in Nat
<1>. DEFINE g == [i \in 1 .. k |-> f[i]]
<1>1. g \in Surjection(1 .. k, T)
  BY DEF Surjection
<1>2. IsFiniteSet(1 .. k) /\ Cardinality(1 .. k) = k
  <2>1. 1 \in Int /\ k \in Int /\ (IF 1 > k THEN 0 ELSE k - 1 + 1) = k
    OBVIOUS
  <2>. QED  BY <2>1, FS_Interval
<1>. HIDE DEF g
<1>3. IsFiniteSet(T) /\ Cardinality(T) <= k
  BY <1>1, <1>2, FS_Surjection
<1>4. Cardinality(T) \in Nat
  BY <1>3, FS_CardinalityType
<1>. QED  BY <1>3, <1>4

-----------------------------------------------------------------------------
(* As long as no error is counted, a symbol is VOID only if it is a void   *)
(* function or a void parameter, and so is what makes an expression VOID;  *)
(* a function's symbol is the signature of the function a call finds.      *)

FunctionIsVoid(name) ==
    LET f == FindFunction(root, name) IN f # NoNode /\ Ast[f].type = "VOID"

ParameterIsVoid(name) ==
    \E f \in 1 .. Children(root) :
       LET params == Ast[Child(root, f)].params
       IN  \E i \in 1 .. Len(params) : params[i] = [name |-> name, type |-> "VOID"]

(* f takes the arguments of call n, but for those no signature has room    *)
(* for.                                                                    *)
CallFits(n) ==
    LET f == FindFunction(root, Ast[n].name)
    IN  f # NoNode /\ Len(Ast[n].args) = Len(ParamTypes(f))

IsSignature(name, symbol) ==
    LET f == FindFunction(root, name)
    IN  f # NoNode /\ symbol.params = ParamTypes(f)

VoidIsKnown(scope) ==
    \A name \in DOMAIN scope :
       /\ scope[name].type = "VOID" =>
             \/ scope[name].kind = "FUNCTION" /\ FunctionIsVoid(name)
             \/ scope[name].kind = "PARAMETER" /\ ParameterIsVoid(name)
       /\ scope[name].kind = "FUNCTION" => IsSignature(name, scope[name])

VoidsAreKnown(t) == \A d \in 1 .. Len(t) : VoidIsKnown(t[d])

NotesAreKnown(notes) ==
    \A n \in DOMAIN notes :
       /\ notes[n] = "VOID" => \E m \in Subtree(n) : VoidSource(m)
       /\ Kind(n) = "CALL" => CallFits(n)

(* What the checker has found so far.                                      *)
FoundInv ==
    /\ phase \in {"start", "checking", "checked"}
    /\ ret_type \in DataType /\ error_count \in Nat /\ ann \in Notes
    /\ phase = "start" => error_count = 0
    /\ error_count = 0 => VoidsAreKnown(tab) /\ NotesAreKnown(ann)

NotedAll(notes, e) == \A k \in Subtree(e) : Kind(k) = "LITERAL" \/ k \in DOMAIN notes

(* What a step that judges these expressions makes of it.                  *)
Effect(judged) ==
    /\ ret_type' \in DataType /\ error_count' \in Nat /\ ann' \in Notes
    /\ error_count' = 0 =>
          /\ error_count = 0 /\ VoidsAreKnown(tab') /\ NotesAreKnown(ann')
          /\ DOMAIN ann \subseteq DOMAIN ann'
          /\ \A e \in judged : NotedAll(ann', e)

LEMMA VoidSymbol ==
  ASSUME NEW t \in Seq(Scope), VoidsAreKnown(t), NEW n, SymbolIsVoid(t, n)
  PROVE  VoidSource(n)
<1>. DEFINE name == Ast[n].name
            sym == symtab_lookup(t, name)
<1>1. sym.kind # "NONE" /\ sym.type = "VOID"
  BY DEF SymbolIsVoid
<1>2. PICK d \in 1 .. Len(t) : name \in DOMAIN t[d] /\ sym = t[d][name]
  BY <1>1, LookupIs DEF NoSymbol
<1>3. VoidIsKnown(t[d])
  BY DEF VoidsAreKnown
<1>4. \/ sym.kind = "FUNCTION" /\ FunctionIsVoid(name)
      \/ sym.kind = "PARAMETER" /\ ParameterIsVoid(name)
  BY <1>1, <1>2, <1>3 DEF VoidIsKnown
<1>5. \/ Kind(n) = "VAR_REF" /\ sym.kind \notin {"NONE", "FUNCTION"}
      \/ Kind(n) = "CALL" /\ sym.kind = "FUNCTION"
  BY DEF SymbolIsVoid
<1>. HIDE DEF sym
<1>6. \/ Kind(n) = "CALL" /\ FunctionIsVoid(name)
      \/ Kind(n) = "VAR_REF" /\ ParameterIsVoid(name)
  BY <1>4, <1>5
<1>. QED  BY <1>6 DEF VoidSource, FunctionIsVoid, ParameterIsVoid

LEMMA CallSymbol ==
  ASSUME NEW t \in Seq(Scope), VoidsAreKnown(t), NEW n, CallMatches(t, n)
  PROVE  CallFits(n)
<1>. DEFINE name == Ast[n].name
            sym == symtab_lookup(t, name)
<1>1. sym.kind = "FUNCTION" /\ Len(Ast[n].args) = Len(sym.params)
  BY DEF CallMatches
<1>2. PICK d \in 1 .. Len(t) : name \in DOMAIN t[d] /\ sym = t[d][name]
  BY <1>1, LookupIs DEF NoSymbol
<1>. HIDE DEF sym
<1>3. IsSignature(name, sym)
  BY <1>1, <1>2 DEF VoidsAreKnown, VoidIsKnown
<1>. QED  BY <1>1, <1>3 DEF IsSignature, CallFits

LEMMA Judging ==
  ASSUME FoundInv, NEW t \in Seq(Scope), NEW e \in Expression,
         NEW others \in Nat, NEW wrong \in Nat,
         tab' = t, ret_type' = ret_type,
         error_count' = error_count + others + check_expression(t, e).errors + wrong,
         ann' = Over(check_expression(t, e).ann, ann),
         error_count = 0 /\ others = 0 => VoidsAreKnown(t)
  PROVE  Effect({e})
<1>. DEFINE j == check_expression(t, e)
<1>1. j \in Judgement /\ Sourced(t, e, j)
  BY JudgementIsSourced
<1>. HIDE DEF j
<1>2. j.errors \in Nat /\ j.ann \in Notes
  BY <1>1 DEF Judgement
<1>3. /\ error_count' \in Nat
      /\ error_count' = 0 => error_count = 0 /\ others = 0 /\ j.errors = 0
  <2>1. error_count \in Nat /\ error_count' = error_count + others + j.errors + wrong
    BY DEF FoundInv, j
  <2>. QED  BY <1>2, <2>1
<1>4. /\ ann' \in Notes /\ DOMAIN ann' = DOMAIN j.ann \cup DOMAIN ann
      /\ \A m \in DOMAIN ann' : \/ m \in DOMAIN j.ann /\ ann'[m] = j.ann[m]
                                \/ m \in DOMAIN ann /\ ann'[m] = ann[m]
  <2>1. ann \in Notes /\ ann' = Over(j.ann, ann)
    BY DEF FoundInv, j
  <2>2. IsOver(j.ann, ann, Over(j.ann, ann))
    BY <1>2, <2>1, NotesOver
  <2>. QED  BY <2>1, <2>2 DEF IsOver
<1>5. ASSUME error_count' = 0
      PROVE  /\ error_count = 0 /\ VoidsAreKnown(tab') /\ NotesAreKnown(ann')
             /\ DOMAIN ann \subseteq DOMAIN ann' /\ NotedAll(ann', e)
  <2>1. error_count = 0 /\ VoidsAreKnown(t) /\ NotesAreKnown(ann)
    BY <1>3, <1>5 DEF FoundInv
  <2>2. /\ \A m \in DOMAIN j.ann :
              j.ann[m] = "VOID" => \E k \in Subtree(m) : SymbolIsVoid(t, k)
        /\ \A m \in Subtree(e) : Kind(m) = "LITERAL" \/ m \in DOMAIN j.ann
        /\ \A m \in DOMAIN j.ann : Kind(m) = "CALL" => CallMatches(t, m)
    BY <1>1, <1>3, <1>5 DEF Sourced
  <2>3. \A m : /\ SymbolIsVoid(t, m) => VoidSource(m)
               /\ CallMatches(t, m) => CallFits(m)
    BY <2>1, VoidSymbol, CallSymbol
  <2>4. NotesAreKnown(ann')
    BY <1>4, <2>1, <2>2, <2>3 DEF NotesAreKnown
  <2>5. NotedAll(ann', e)
    BY <1>4, <2>2 DEF NotedAll
  <2>. QED  BY <1>4, <2>1, <2>4, <2>5
<1>6. ret_type' \in DataType
  BY DEF FoundInv
<1>. QED  BY <1>3, <1>4, <1>5, <1>6 DEF Effect

-----------------------------------------------------------------------------
(* What the steps do to the table makes no unknown VOID.                   *)

LEMMA TableKnown ==
  ASSUME NEW t \in Seq(Scope), Len(t) > 0, VoidsAreKnown(t), NEW scope, VoidIsKnown(scope)
  PROVE  /\ VoidsAreKnown(Append(t, scope))
         /\ VoidsAreKnown([t EXCEPT ![Len(t)] = scope])
         /\ VoidsAreKnown(symtab_leave_scope(t))
<1>1. Len(t) \in Nat \ {0}
  OBVIOUS
<1>2. VoidsAreKnown(Append(t, scope))
  BY <1>1 DEF VoidsAreKnown
<1>3. VoidsAreKnown([t EXCEPT ![Len(t)] = scope])
  BY <1>1 DEF VoidsAreKnown
<1>4. VoidsAreKnown(symtab_leave_scope(t))
  BY <1>1 DEF VoidsAreKnown, symtab_leave_scope
<1>. QED  BY <1>2, <1>3, <1>4

LEMMA InsertKnown ==
  ASSUME NEW t \in Seq(Scope), Len(t) > 0, VoidsAreKnown(t),
         NEW name, NEW type \in DataType, type # "VOID"
  PROVE  VoidsAreKnown(symtab_insert(t, name, Variable(type)))
<1>. DEFINE cur == t[Len(t)]
            more == [n \in DOMAIN cur \cup {name} |->
                        IF n \in DOMAIN cur THEN cur[n] ELSE Variable(type)]
<1>1. VoidIsKnown(cur)
  BY DEF VoidsAreKnown
<1>2. VoidIsKnown(more)
  <2>1. Variable(type).type = type /\ Variable(type).kind # "FUNCTION"
    BY DEF Variable
  <2>. HIDE DEF cur
  <2>. QED  BY <1>1, <2>1 DEF VoidIsKnown
<1>. HIDE DEF more
<1>3. VoidsAreKnown([t EXCEPT ![Len(t)] = more])
  BY <1>2, TableKnown
<1>. QED  BY <1>3 DEF symtab_insert, DeclaredHere, Current, more

LEMMA ScopesKnown ==
  ASSUME CheckInv
  PROVE  /\ VoidIsKnown(EmptyScope)
         /\ \A names : names = {Ast[Child(root, i)].name : i \in 1 .. Children(root)}
                          => VoidIsKnown(Functions(names))
         /\ \A f \in 1 .. Children(root) : VoidIsKnown(ParamScope(Child(root, f)))
<1>1. VoidIsKnown(EmptyScope)
  BY DEF VoidIsKnown, EmptyScope
<1>2. ASSUME NEW names, names = {Ast[Child(root, i)].name : i \in 1 .. Children(root)}
      PROVE  VoidIsKnown(Functions(names))
  <2>1. \A name \in names : FindFunction(root, name) \in Node
    BY <1>2, FunctionsAre DEF CheckInv
  <2>2. \A name \in names :
           /\ Functions(names)[name].kind = "FUNCTION"
           /\ Functions(names)[name].type = Ast[FindFunction(root, name)].type
           /\ Functions(names)[name].params = ParamTypes(FindFunction(root, name))
    BY DEF Functions, Signature
  <2>3. DOMAIN Functions(names) = names
    BY DEF Functions
  <2>4. NoNode \notin Node
    BY AstAssumption
  <2>. QED  BY <2>1, <2>2, <2>3, <2>4 DEF VoidIsKnown, FunctionIsVoid, IsSignature
<1>3. ASSUME NEW f \in 1 .. Children(root)
      PROVE  VoidIsKnown(ParamScope(Child(root, f)))
  <2>. DEFINE n == Child(root, f)
              params == Ast[n].params
  <2>1. n \in Node
    BY RootIsProgram, ChildIs DEF CheckInv
  <2>2. /\ DOMAIN ParamScope(n) = ParamNames(n)
        /\ \A name \in ParamNames(n) :
              \E i \in 1 .. Len(params) : /\ params[i].name = name
                                          /\ ParamScope(n)[name] = Parameter(params[i].type)
    BY <2>1, ParamsAre
  <2>3. \A i \in 1 .. Len(params) : params[i] \in Param
    BY <2>1, NodeIs, ElementOfSeq
  <2>4. ASSUME NEW name \in DOMAIN ParamScope(n), ParamScope(n)[name].type = "VOID"
        PROVE  ParamScope(n)[name].kind = "PARAMETER" /\ ParameterIsVoid(name)
    <3>1. PICK i \in 1 .. Len(params) : /\ params[i].name = name
                                        /\ ParamScope(n)[name] = Parameter(params[i].type)
      BY <2>2
    <3>2. params[i].type = "VOID" /\ ParamScope(n)[name].kind = "PARAMETER"
      BY <2>4, <3>1 DEF Parameter
    <3>3. params[i] = [name |-> name, type |-> "VOID"]
      BY <2>3, <3>1, <3>2 DEF Param
    <3>. QED  BY <3>2, <3>3 DEF ParameterIsVoid
  <2>5. \A name \in DOMAIN ParamScope(n) : ParamScope(n)[name].kind # "FUNCTION"
    BY <2>2 DEF Parameter
  <2>. QED  BY <2>4, <2>5 DEF VoidIsKnown
<1>. QED  BY <1>1, <1>2, <1>3

-----------------------------------------------------------------------------
(* The steps, one after the other.                                         *)

LEMMA Unjudged ==
  ASSUME FoundInv, ann' = ann, ret_type' \in DataType, error_count' \in Nat,
         error_count' = 0 => error_count = 0 /\ VoidsAreKnown(tab')
  PROVE  Effect({})
BY DEF FoundInv, Effect

LEMMA CountNat == \A P : Count(P) \in Nat /\ (Count(P) = 0 => ~P)
BY DEF Count

LEMMA OnlyChild ==
  ASSUME NEW n \in Node, Kind(n) \in {"VAR_DECL", "ASSIGN", "RETURN", "PRINT"}
  PROVE  LET judged == {Child(n, i) : i \in ExprChildren(n)}
         IN  /\ Children(n) > 0 => Child(n, 1) \in Expression /\ judged = {Child(n, 1)}
             /\ Children(n) = 0 => judged = {}
             /\ Children(n) \in {0, 1}
             /\ Kind(n) \in {"ASSIGN", "PRINT"} => Children(n) = 1
<1>1. ExprChildren(n) = 1 .. Children(n)
  BY ExprChildrenAre
<1>2. WellCounted(Kind(n), Children(n))
  BY AstAssumption DEF WellShaped
<1>3. Children(n) \in {0, 1} /\ (Kind(n) \in {"ASSIGN", "PRINT"} => Children(n) = 1)
  BY <1>2 DEF WellCounted
<1>4. Children(n) = 0 => {Child(n, i) : i \in ExprChildren(n)} = {}
  BY <1>1
<1>5. ASSUME Children(n) = 1
      PROVE  Child(n, 1) \in Expression
             /\ {Child(n, i) : i \in ExprChildren(n)} = {Child(n, 1)}
  <2>1. ExprChildren(n) = {1}
    BY <1>1, <1>5
  <2>2. Child(n, 1) \in Expression
    BY <2>1, ExprChildIs
  <2>. QED  BY <2>1, <2>2
<1>. QED  BY <1>3, <1>4, <1>5

LEMMA StatementEffect ==
  ASSUME CheckInv, FoundInv,
         CheckVarDecl \/ CheckAssign \/ CheckReturn \/ CheckPrint
  PROVE  Effect({Child(Top.n, i) : i \in ExprChildren(Top.n)})
<1>. DEFINE n == Top.n
            judged == {Child(n, i) : i \in ExprChildren(n)}
            e == Child(n, 1)
<1>1. todo # <<>> /\ Kind(n) \in {"VAR_DECL", "ASSIGN", "RETURN", "PRINT"}
  BY DEF CheckVarDecl, CheckAssign, CheckReturn, CheckPrint, On
<1>2. n \in Node
  BY <1>1, TopIs DEF CheckInv
<1>3. /\ Children(n) > 0 => e \in Expression /\ judged = {e}
      /\ Children(n) = 0 => judged = {}
      /\ Children(n) \in {0, 1}
      /\ Kind(n) \in {"ASSIGN", "PRINT"} => Children(n) = 1
  BY <1>1, <1>2, OnlyChild
<1>4. /\ tab \in Seq(Scope) /\ Len(tab) > 0
      /\ error_count \in Nat /\ ret_type \in DataType
      /\ error_count = 0 => VoidsAreKnown(tab)
  BY TabNotEmpty DEF CheckInv, FoundInv
<1>. HIDE DEF judged, e
<1>5. CASE CheckVarDecl
  <2>. DEFINE decl == Ast[n]
              symtab == symtab_insert(tab, decl.name, Variable(decl.type))
              errors == Count(decl.type = "VOID") + Count(DeclaredHere(tab, decl.name))
              wrong == Count(~Accepts(decl.type, check_expression(symtab, e).type))
  <2>1. errors \in Nat /\ (errors = 0 => decl.type # "VOID") /\ wrong \in Nat
    <3>1. \A a, b \in Nat : a + b \in Nat /\ (a + b = 0 => a = 0)
      OBVIOUS
    <3>. QED  BY <3>1, CountNat
  <2>2. symtab \in Seq(Scope) /\ tab' = symtab
    <3>1. tab' = symtab
      BY <1>5 DEF CheckVarDecl, Judge
    <3>2. Kind(n) = "VAR_DECL"
      BY <1>5 DEF CheckVarDecl, On
    <3>3. Len(tab) >= 2
      BY <1>1, <3>2, InBody
    <3>4. Ast[n].name \in STRING /\ Ast[n].type \in DataType
      BY <1>2, NodeIs
    <3>. HIDE DEF symtab
    <3>5. symtab \in Seq(Scope)
      BY <3>3, <3>4, SameTable, Inserting DEF symtab
    <3>. QED  BY <3>1, <3>5
  <2>3. error_count = 0 /\ errors = 0 => VoidsAreKnown(symtab)
    <3>1. Ast[n].type \in DataType
      BY <1>2, NodeIs
    <3>. QED  BY <1>4, <2>1, <3>1, InsertKnown
  <2>4. CASE Children(n) > 0
    <3>1. /\ ret_type' = ret_type
          /\ error_count' = error_count + errors + check_expression(symtab, e).errors + wrong
          /\ ann' = Over(check_expression(symtab, e).ann, ann)
      BY <1>5, <2>4 DEF CheckVarDecl, Judge, e
    <3>. HIDE DEF symtab, errors, wrong
    <3>2. Effect({e})
      BY <1>3, <2>1, <2>2, <2>3, <2>4, <3>1, Judging
    <3>. QED  BY <1>3, <2>4, <3>2 DEF judged
  <2>5. CASE Children(n) = 0
    <3>1. ret_type' = ret_type /\ error_count' = error_count + errors /\ ann' = ann
      BY <1>5, <2>5 DEF CheckVarDecl
    <3>. HIDE DEF symtab, errors, wrong
    <3>2. error_count' \in Nat
          /\ (error_count' = 0 => error_count = 0 /\ VoidsAreKnown(tab'))
      BY <1>4, <2>1, <2>2, <2>3, <3>1
    <3>3. Effect({})
      BY <1>4, <3>1, <3>2, Unjudged
    <3>. QED  BY <1>3, <2>5, <3>3 DEF judged
  <2>. QED  BY <1>3, <2>4, <2>5
<1>6. ASSUME NEW wrong \in Nat, Children(n) > 0, tab' = tab, ret_type' = ret_type,
             error_count' = error_count + 0 + check_expression(tab, e).errors + wrong,
             ann' = Over(check_expression(tab, e).ann, ann)
      PROVE  Effect(judged)
  <2>1. error_count = 0 /\ 0 = 0 => VoidsAreKnown(tab)
    BY <1>4
  <2>2. Effect({e})
    BY <1>3, <1>4, <1>6, <2>1, Judging
  <2>. QED  BY <1>3, <1>6, <2>2
<1>7. CASE CheckAssign
  <2>. DEFINE sym == symtab_lookup(tab, Ast[n].name)
              wrong == Count(~Accepts(sym.type, check_expression(tab, e).type))
  <2>1. Children(n) > 0
    BY <1>3, <1>7 DEF CheckAssign, On
  <2>2. CASE sym = NoSymbol
    <3>1. error_count' = error_count + 1 /\ error_count' # 0 /\ error_count' \in Nat
          /\ ann' = ann /\ ret_type' = ret_type
      BY <1>4, <1>7, <2>2 DEF CheckAssign
    <3>. QED  BY <1>4, <3>1 DEF Effect, FoundInv
  <2>3. CASE sym # NoSymbol
    <3>1. /\ tab' = tab /\ ret_type' = ret_type
          /\ error_count' = error_count + 0 + check_expression(tab, e).errors + wrong
          /\ ann' = Over(check_expression(tab, e).ann, ann)
      BY <1>7, <2>3 DEF CheckAssign, Judge, e
    <3>2. wrong \in Nat
      BY CountNat
    <3>. HIDE DEF wrong
    <3>3. Effect(judged)
      BY <1>6, <2>1, <3>1, <3>2
    <3>. QED  BY <3>3 DEF judged
  <2>. QED  BY <2>2, <2>3
<1>8. CASE CheckReturn
  <2>. DEFINE wrong == Count(~Accepts(ret_type, check_expression(tab, e).type))
  <2>1. CASE ret_type # "VOID" /\ Children(n) > 0
    <3>1. /\ tab' = tab /\ ret_type' = ret_type
          /\ error_count' = error_count + 0 + check_expression(tab, e).errors + wrong
          /\ ann' = Over(check_expression(tab, e).ann, ann)
      BY <1>8, <2>1 DEF CheckReturn, Judge, e
    <3>2. wrong \in Nat
      BY CountNat
    <3>. HIDE DEF wrong
    <3>3. Effect(judged)
      BY <1>6, <2>1, <3>1, <3>2
    <3>. QED  BY <3>3 DEF judged
  <2>2. CASE ~(ret_type # "VOID" /\ Children(n) > 0)
    <3>. DEFINE bad == Count((ret_type = "VOID") # (Children(n) = 0))
    <3>1. /\ ret_type' = ret_type /\ tab' = tab /\ ann' = ann
          /\ error_count' = error_count + bad
      BY <1>8, <2>2 DEF CheckReturn
    <3>2. bad \in Nat /\ (bad = 0 => Children(n) = 0)
      <4>1. bad = 0 => ~((ret_type = "VOID") # (Children(n) = 0))
        BY CountNat
      <4>2. ret_type = "VOID" \/ Children(n) = 0
        BY <1>3, <2>2
      <4>. QED  BY <4>1, <4>2, CountNat
    <3>. HIDE DEF bad
    <3>3. error_count' \in Nat /\ (error_count' = 0 => error_count = 0 /\ Children(n) = 0)
      BY <1>4, <3>1, <3>2
    <3>4. Effect({})
      BY <1>4, <3>1, <3>3, Unjudged
    <3>5. CASE Children(n) = 0
      BY <1>3, <3>4, <3>5 DEF judged
    <3>6. CASE Children(n) # 0
      BY <3>3, <3>4, <3>6 DEF Effect
    <3>. QED  BY <3>5, <3>6
  <2>. QED  BY <2>1, <2>2
<1>9. CASE CheckPrint
  <2>. DEFINE wrong == Count(FALSE)
  <2>1. Children(n) > 0
    BY <1>3, <1>9 DEF CheckPrint, On
  <2>2. /\ tab' = tab /\ ret_type' = ret_type
        /\ error_count' = error_count + 0 + check_expression(tab, e).errors + wrong
        /\ ann' = Over(check_expression(tab, e).ann, ann)
    BY <1>9 DEF CheckPrint, Judge, e
  <2>3. wrong \in Nat
    BY CountNat
  <2>. HIDE DEF wrong
  <2>4. Effect(judged)
    BY <1>6, <2>1, <2>2, <2>3
  <2>. QED  BY <2>4 DEF judged
<1>. QED  BY <1>5, <1>7, <1>8, <1>9

LEMMA ConditionEffect ==
  ASSUME CheckInv, FoundInv, CheckCondition
  PROVE  Effect({Child(Top.n, Top.i)})
<1>. DEFINE e == Child(Top.n, Top.i)
            wrong == Count(check_expression(tab, e).type \notin {"BOOL", "INT", "VOID"})
<1>1. /\ todo # <<>> /\ Top.i \in ExprChildren(Top.n)
      /\ tab' = tab /\ ret_type' = ret_type
      /\ error_count' = error_count + 0 + check_expression(tab, e).errors + wrong
      /\ ann' = Over(check_expression(tab, e).ann, ann)
  BY DEF CheckCondition, On, Judge
<1>2. Top.n \in Node
  BY <1>1, TopIs DEF CheckInv
<1>3. e \in Expression
  BY <1>1, <1>2, ExprChildIs
<1>4. wrong \in Nat
  BY CountNat
<1>5. tab \in Seq(Scope) /\ (error_count = 0 /\ 0 = 0 => VoidsAreKnown(tab))
  BY DEF CheckInv, FoundInv
<1>. HIDE DEF e, wrong
<1>6. Effect({e})
  BY <1>1, <1>3, <1>4, <1>5, Judging
<1>. QED  BY <1>6 DEF e

JudgesNothing ==
    \/ RegisterFunctions \/ EnterFunction \/ EnterBlock \/ TraverseChild
    \/ LeaveScope \/ LeaveNode \/ SkipExpression \/ Begin \/ Finish
    \/ UNCHANGED vars

LEMMA OtherEffect ==
  ASSUME CheckInv, Chain(todo), FoundInv, JudgesNothing
  PROVE  Effect({})
<1>1. /\ tab \in Seq(Scope) /\ Len(tab) > 0 /\ Path(todo) /\ root \in Roots
      /\ error_count \in Nat /\ ret_type \in DataType
      /\ error_count = 0 => VoidsAreKnown(tab)
  BY TabNotEmpty DEF CheckInv, FoundInv
<1>2. ASSUME ann' = ann, tab' = tab, ret_type' = ret_type, error_count' = error_count
      PROVE  Effect({})
  BY <1>1, <1>2, Unjudged
<1>3. CASE TraverseChild \/ LeaveNode \/ SkipExpression \/ Finish \/ UNCHANGED vars
  BY <1>2, <1>3 DEF TraverseChild, LeaveNode, SkipExpression, Finish, vars
<1>4. CASE Begin
  <2>1. error_count' = error_count
    BY <1>4 DEF Begin, FoundInv
  <2>. QED  BY <1>2, <1>4, <2>1 DEF Begin
<1>5. CASE LeaveScope
  <2>1. error_count = 0 => VoidsAreKnown(symtab_leave_scope(tab))
    BY <1>1, ScopesKnown, TableKnown
  <2>. QED  BY <1>1, <1>5, <2>1, Unjudged DEF LeaveScope
<1>6. CASE EnterBlock
  <2>1. error_count = 0 => VoidsAreKnown(Append(tab, EmptyScope))
    BY <1>1, ScopesKnown, TableKnown
  <2>. QED  BY <1>1, <1>6, <2>1, Unjudged DEF EnterBlock, symtab_enter_scope
<1>7. CASE RegisterFunctions
  <2>. DEFINE names == {Ast[Child(root, i)].name : i \in 1 .. Children(root)}
              more == Children(root) - Cardinality(names)
  <2>1. /\ tab' = [tab EXCEPT ![Len(tab)] = Functions(names)]
        /\ error_count' = error_count + Children(root) - Cardinality(names)
        /\ ann' = ann /\ ret_type' = ret_type
    BY <1>7 DEF RegisterFunctions, Functions
  <2>2. Children(root) \in Nat
    BY <1>1, RootIsProgram, NodeIs
  <2>3. Cardinality(names) \in Nat /\ more \in Nat
    <3>. DEFINE k == Children(root)
                f == [i \in 1 .. k |-> Ast[Child(root, i)].name]
    <3>1. names = {f[i] : i \in 1 .. k}
      OBVIOUS
    <3>. HIDE DEF f, names, k
    <3>2. k \in Nat
      BY <2>2 DEF k
    <3>3. Cardinality(names) \in Nat /\ k - Cardinality(names) \in Nat
      BY <3>1, <3>2, FewerThan
    <3>. QED  BY <3>3 DEF k
  <2>4. VoidIsKnown(Functions(names))
    BY ScopesKnown
  <2>. HIDE DEF names
  <2>5. error_count = 0 => VoidsAreKnown(tab')
    BY <1>1, <2>1, <2>4, TableKnown
  <2>6. error_count' \in Nat /\ (error_count' = 0 => error_count = 0)
    BY <1>1, <2>1, <2>2, <2>3
  <2>. QED  BY <1>1, <2>1, <2>5, <2>6, Unjudged
<1>8. CASE EnterFunction
  <2>. DEFINE params == Ast[Top.n].params
              names == ParamNames(Top.n)
  <2>1. /\ todo # <<>> /\ Kind(Top.n) = "FUNC_DECL"
        /\ tab' = Append(tab, ParamScope(Top.n))
        /\ error_count' = error_count + Len(params) - Cardinality(names)
        /\ ann' = ann /\ ret_type' = Ast[Top.n].type
    BY <1>8 DEF EnterFunction, On
  <2>2. Top.n \in Node
    BY <1>1, <2>1, TopIs
  <2>3. Len(params) \in Nat /\ ret_type' \in DataType
    BY <2>1, <2>2, NodeIs
  <2>4. Cardinality(names) \in Nat /\ Len(params) - Cardinality(names) \in Nat
    <3>. DEFINE k == Len(params)
                f == [i \in 1 .. k |-> params[i].name]
    <3>1. names = {f[i] : i \in 1 .. k}
      BY DEF ParamNames
    <3>. HIDE DEF f, names, k
    <3>2. k \in Nat
      BY <2>3 DEF k
    <3>3. Cardinality(names) \in Nat /\ k - Cardinality(names) \in Nat
      BY <3>1, <3>2, FewerThan
    <3>. QED  BY <3>3 DEF k
  <2>5. VoidIsKnown(ParamScope(Top.n))
    BY <2>1, FunctionIsChild, ScopesKnown
  <2>. HIDE DEF names, params
  <2>6. error_count = 0 => VoidsAreKnown(tab')
    BY <1>1, <2>1, <2>5, TableKnown
  <2>7. error_count' \in Nat /\ (error_count' = 0 => error_count = 0)
    BY <1>1, <2>1, <2>3, <2>4
  <2>. QED  BY <2>1, <2>3, <2>6, <2>7, Unjudged
<1>. QED  BY <1>3, <1>4, <1>5, <1>6, <1>7, <1>8 DEF JudgesNothing

(* Each step judges the expressions that are its node's parts, if any.     *)
LEMMA StepEffect ==
  ASSUME CheckInv, Chain(todo), FoundInv, [Next]_vars
  PROVE  \/ JudgesNothing /\ Effect({})
         \/ CheckCondition /\ Effect({Child(Top.n, Top.i)})
         \/ /\ CheckVarDecl \/ CheckAssign \/ CheckReturn \/ CheckPrint
            /\ Effect({Child(Top.n, i) : i \in ExprChildren(Top.n)})
<1>1. \/ JudgesNothing \/ CheckCondition
      \/ CheckVarDecl \/ CheckAssign \/ CheckReturn \/ CheckPrint
  BY Zenon DEF Next, Step, JudgesNothing, Checked
<1>. QED  BY <1>1, OtherEffect, ConditionEffect, StatementEffect

LEMMA FoundKept ==
  ASSUME CheckInv, Chain(todo), FoundInv, [Next]_vars
  PROVE  FoundInv'
<1>1. PICK judged : Effect(judged)
  BY StepEffect
<1>2. root' = root
  BY StepMoves
<1>3. VoidsAreKnown(tab)' <=> VoidsAreKnown(tab')
  BY <1>2 DEF VoidsAreKnown, VoidIsKnown, FunctionIsVoid, ParameterIsVoid, IsSignature
<1>4. NotesAreKnown(ann)' <=> NotesAreKnown(ann')
  BY <1>2 DEF NotesAreKnown, VoidSource, CallFits
<1>5. phase' \in {"start", "checking", "checked"} /\ (phase' = "start" => error_count' = 0)
  <2>1. phase' # "start" \/ UNCHANGED vars
    BY DEF Next, Step, Checked, vars, Begin, Finish, RegisterFunctions, EnterFunction, EnterBlock,
           TraverseChild, LeaveScope, LeaveNode, CheckCondition, CheckVarDecl,
           CheckAssign, CheckReturn, CheckPrint, SkipExpression, On, Judge
  <2>2. phase' \in {"start", "checking", "checked"}
    BY DEF FoundInv, Next, Step, Checked, vars, Begin, Finish, RegisterFunctions, EnterFunction,
           EnterBlock, TraverseChild, LeaveScope, LeaveNode, CheckCondition, CheckVarDecl,
           CheckAssign, CheckReturn, CheckPrint, SkipExpression, On, Judge
  <2>. QED  BY <2>1, <2>2 DEF FoundInv, vars
<1>. QED  BY <1>1, <1>3, <1>4, <1>5 DEF Effect, FoundInv

-----------------------------------------------------------------------------
(* As long as no error is counted, what the traversal has behind it has    *)
(* been judged: of every activation the children before the one it is at.  *)

AllJudged(notes, n) ==
    \A m \in Subtree(n) :
       Kind(m) \in StmtKind => \A i \in ExprChildren(m) : NotedAll(notes, Child(m, i))

ChildDone(notes, n, i) == IF i \in ExprChildren(n) THEN NotedAll(notes, Child(n, i))
                                                   ELSE AllJudged(notes, Child(n, i))

Done(s, notes) ==
    \A k \in 1 .. Len(s) : \A i \in 1 .. Children(s[k].n) :
       i < s[k].i /\ (k = Len(s) \/ i # s[k].i - 1) => ChildDone(notes, s[k].n, i)

DoneInv ==
    /\ phase = "checked" => todo = <<>>
    /\ error_count = 0 => /\ phase # "start" /\ todo = <<>> => AllJudged(ann, root)
                          /\ Done(todo, ann)

LEMMA MoreNotes ==
  ASSUME NEW notes, NEW more, DOMAIN notes \subseteq DOMAIN more
  PROVE  /\ \A n : AllJudged(notes, n) => AllJudged(more, n)
         /\ \A n, i : ChildDone(notes, n, i) => ChildDone(more, n, i)
         /\ \A s : Done(s, notes) => Done(s, more)
<1>1. \A e : NotedAll(notes, e) => NotedAll(more, e)
  BY DEF NotedAll
<1>2. \A n : AllJudged(notes, n) => AllJudged(more, n)
  BY <1>1 DEF AllJudged
<1>3. \A n, i : ChildDone(notes, n, i) => ChildDone(more, n, i)
  BY <1>1, <1>2 DEF ChildDone
<1>4. \A s : Done(s, notes) => Done(s, more)
  BY <1>3 DEF Done
<1>. QED  BY <1>2, <1>3, <1>4

LEMMA ExpressionsPassed ==
  ASSUME NEW notes, NEW n \in Expression
  PROVE  AllJudged(notes, n)
<1>1. Subtree(n) \subseteq Expression
  BY ExpressionTree
<1>2. ExprKind \cap StmtKind = {}
  BY DEF ExprKind, StmtKind
<1>. QED  BY <1>1, <1>2 DEF AllJudged, Expression

LEMMA ChildrenMakeAll ==
  ASSUME NEW notes, NEW n \in Node, Kind(n) \notin ExprKind,
         \A i \in 1 .. Children(n) : ChildDone(notes, n, i)
  PROVE  AllJudged(notes, n)
<1>1. Ast[n].args = <<>>
  BY AstAssumption DEF WellShaped, ExprKind
<1>2. Parts(n) = {Child(n, i) : i \in 1 .. Children(n)}
  <2>1. Len(Ast[n].args) = 0
    BY <1>1
  <2>. QED  BY <2>1 DEF Parts
<1>3. \A i \in ExprChildren(n) : /\ i \in 1 .. Children(n)
                                 /\ Child(n, i) \in Expression
  BY ExprChildIs
<1>4. ASSUME NEW m \in Subtree(n), Kind(m) \in StmtKind, NEW j \in ExprChildren(m)
      PROVE  NotedAll(notes, Child(m, j))
  <2>1. CASE m = n
    BY <1>3, <1>4, <2>1 DEF ChildDone
  <2>2. CASE m # n
    <3>1. PICK i \in 1 .. Children(n) : m \in Subtree(Child(n, i))
      BY <1>2, <1>4, <2>2, SubtreeIs
    <3>2. AllJudged(notes, Child(n, i))
      BY <1>3, ExpressionsPassed DEF ChildDone
    <3>. QED  BY <1>4, <3>1, <3>2 DEF AllJudged
  <2>. QED  BY <2>1, <2>2
<1>. QED  BY <1>4 DEF AllJudged

(* A node that is left has been judged, with all that is under it.         *)
LEMMA LeftIsJudged ==
  ASSUME CheckInv, Chain(todo), FoundInv, DoneInv, [Next]_vars,
         todo # <<>>, todo' = Below, error_count' = 0
  PROVE  AllJudged(ann', Top.n)
<1>1. /\ Top.n \in Node /\ Top.i \in Nat /\ Len(todo) \in 1 .. Len(todo)
      /\ Top = todo[Len(todo)] /\ Len(todo) \in Nat \ {0}
  BY TopIs DEF CheckInv
<1>2. Len(Below) = Len(todo) - 1 /\ Len(Advanced) = Len(todo) /\ Below # todo
      /\ Below # Advanced
  <2>1. Len(Below) = Len(todo) - 1 /\ Len(Advanced) = Len(todo)
    BY BelowIs, Advancing DEF CheckInv
  <2>. QED  BY <1>1, <2>1
<1>3. \/ LeaveScope \/ LeaveNode \/ SkipExpression
      \/ CheckVarDecl \/ CheckAssign \/ CheckReturn \/ CheckPrint
  <2>1. ~UNCHANGED vars /\ ~Checked
    BY <1>2 DEF vars, Checked
  <2>2. ~Begin /\ ~Finish
    BY <1>2 DEF Begin, Finish, CheckInv
  <2>3. ~RegisterFunctions /\ ~EnterFunction /\ ~EnterBlock /\ ~CheckCondition
    BY <1>2 DEF RegisterFunctions, EnterFunction, EnterBlock, CheckCondition
  <2>4. ~TraverseChild
    <3>1. CASE TraverseChild
      <4>1. todo' = Descent /\ Top.i \in 1 .. Children(Top.n)
        BY <3>1 DEF TraverseChild, Descent
      <4>2. Len(Descent) = Len(todo) + 1
        BY <4>1, Descending DEF Descent, CheckInv
      <4>. QED  BY <1>1, <1>2, <4>1, <4>2
    <3>. QED  BY <3>1
  <2>. QED  BY <2>1, <2>2, <2>3, <2>4 DEF Next, Step
<1>4. CASE LeaveScope \/ LeaveNode
  <2>1. /\ Kind(Top.n) \in {"PROGRAM", "IF", "WHILE", "FOR", "FUNC_DECL", "BLOCK"}
        /\ Top.i > Children(Top.n) /\ ann' = ann /\ error_count' = error_count
    BY <1>4 DEF LeaveScope, LeaveNode, On
  <2>2. Done(todo, ann)
    BY <2>1 DEF DoneInv
  <2>3. \A i \in 1 .. Children(Top.n) : i < Top.i
    BY <1>1, <2>1, NodeIs
  <2>4. \A i \in 1 .. Children(Top.n) : ChildDone(ann, Top.n, i)
    BY <1>1, <2>2, <2>3 DEF Done
  <2>5. Kind(Top.n) \notin ExprKind
    BY <2>1 DEF ExprKind
  <2>. QED  BY <1>1, <2>1, <2>4, <2>5, ChildrenMakeAll
<1>5. CASE SkipExpression
  <2>1. Top.n \in Expression
    BY <1>1, <1>5 DEF SkipExpression, On, Expression
  <2>. QED  BY <2>1, ExpressionsPassed
<1>6. CASE CheckVarDecl \/ CheckAssign \/ CheckReturn \/ CheckPrint
  <2>1. \A i \in ExprChildren(Top.n) : NotedAll(ann', Child(Top.n, i))
    BY <1>6, StatementEffect DEF Effect
  <2>2. Kind(Top.n) \in {"VAR_DECL", "ASSIGN", "RETURN", "PRINT"}
    BY <1>6 DEF CheckVarDecl, CheckAssign, CheckReturn, CheckPrint, On
  <2>3. ExprChildren(Top.n) = 1 .. Children(Top.n)
    BY <1>1, <2>2, ExprChildrenAre
  <2>4. \A i \in 1 .. Children(Top.n) : ChildDone(ann', Top.n, i)
    BY <2>1, <2>3 DEF ChildDone
  <2>5. Kind(Top.n) \notin ExprKind
    BY <2>2 DEF ExprKind
  <2>. QED  BY <1>1, <2>4, <2>5, ChildrenMakeAll
<1>. QED  BY <1>3, <1>4, <1>5, <1>6

LEMMA PhaseMoves ==
  ASSUME CheckInv, FoundInv, DoneInv, [Next]_vars
  PROVE  /\ phase' = "checked" => todo' = <<>>
         /\ phase' # "start" /\ todo' = <<>> /\ todo' = todo => phase # "start"
<1>1. CASE UNCHANGED vars \/ Finish \/ Begin
  BY <1>1 DEF vars, Finish, Begin, DoneInv
<1>2. CASE ~(UNCHANGED vars \/ Finish \/ Begin)
  <2>1. phase = "checking" /\ phase' = phase
    BY <1>2 DEF Next, Step, Checked, vars, RegisterFunctions, EnterFunction, EnterBlock,
           TraverseChild, LeaveScope, LeaveNode, CheckCondition, CheckVarDecl,
           CheckAssign, CheckReturn, CheckPrint, SkipExpression, On, Judge
  <2>. QED  BY <2>1
<1>. QED  BY <1>1, <1>2

(* The child the node on top turns from has been judged.                   *)
LEMMA TurnedIsDone ==
  ASSUME CheckInv, Chain(todo), FoundInv, DoneInv, [Next]_vars,
         todo # <<>>, todo' = Advanced, error_count' = 0, Top.i \in 1 .. Children(Top.n)
  PROVE  ChildDone(ann', Top.n, Top.i)
<1>1. /\ Top.n \in Node /\ Top.i \in Nat /\ Len(todo) \in Nat \ {0}
      /\ Len(Below) = Len(todo) - 1 /\ Len(Advanced) = Len(todo)
      /\ Advanced[Len(todo)].i = Top.i + 1 /\ Top = todo[Len(todo)]
  BY TopIs, BelowIs, Advancing DEF CheckInv
<1>2. Advanced # todo /\ Advanced # Below /\ Advanced # Descent
  <2>1. Advanced # todo /\ Advanced # Below
    BY <1>1
  <2>2. Len(Descent) = Len(todo) + 1
    BY Descending DEF Descent, CheckInv
  <2>. QED  BY <1>1, <2>1, <2>2
<1>3. CheckCondition
  <2>1. ~UNCHANGED vars /\ ~Checked /\ ~Begin /\ ~Finish /\ ~TraverseChild
    BY <1>2 DEF vars, Checked, Begin, Finish, TraverseChild, Descent, CheckInv
  <2>2. ~RegisterFunctions /\ ~EnterFunction /\ ~EnterBlock
    BY DEF RegisterFunctions, EnterFunction, EnterBlock
  <2>3. ~LeaveScope /\ ~LeaveNode /\ ~SkipExpression /\ ~CheckVarDecl /\ ~CheckAssign
        /\ ~CheckReturn /\ ~CheckPrint
    BY <1>2 DEF LeaveScope, LeaveNode, SkipExpression, CheckVarDecl, CheckAssign,
                CheckReturn, CheckPrint
  <2>. QED  BY <2>1, <2>2, <2>3 DEF Next, Step
<1>4. NotedAll(ann', Child(Top.n, Top.i)) /\ Top.i \in ExprChildren(Top.n)
  BY <1>3, ConditionEffect DEF Effect, CheckCondition
<1>. QED  BY <1>4 DEF ChildDone

LEMMA DoneKept ==
  ASSUME CheckInv, Chain(todo), FoundInv, DoneInv, [Next]_vars
  PROVE  DoneInv'
<1>1. root' = root /\ Moves /\ Path(todo) /\ root \in Roots
  BY StepMoves DEF CheckInv
<1>2. /\ phase' = "checked" => todo' = <<>>
      /\ phase' # "start" /\ todo' = <<>> /\ todo' = todo => phase # "start"
  BY PhaseMoves
<1>. SUFFICES ASSUME error_count' = 0
              PROVE  /\ phase' # "start" /\ todo' = <<>> => AllJudged(ann', root)
                     /\ Done(todo', ann')
  BY <1>1, <1>2 DEF DoneInv
<1>3. error_count = 0 /\ DOMAIN ann \subseteq DOMAIN ann'
  BY StepEffect DEF Effect
<1>4. /\ Done(todo, ann')
      /\ phase # "start" /\ todo = <<>> => AllJudged(ann', root)
  BY <1>3, MoreNotes DEF DoneInv
<1>5. CASE todo' = todo
  BY <1>2, <1>4, <1>5
<1>6. CASE todo = <<>> /\ todo' = <<Visit(root)>>
  <2>1. Len(todo') = 1 /\ todo'[1] = Visit(root) /\ todo' # <<>>
    BY <1>6
  <2>2. Visit(root).i = 0 /\ Visit(root).n = root /\ Children(root) \in Nat
    BY <1>1, RootIsProgram, NodeIs DEF Visit
  <2>3. Done(todo', ann')
    BY <2>1, <2>2 DEF Done
  <2>. QED  BY <2>1, <2>3
<1>7. CASE todo # <<>> /\ todo' = Below
  <2>. DEFINE N == Len(todo)
  <2>1. /\ N \in Nat \ {0} /\ Len(Below) = N - 1 /\ Top = todo[N]
        /\ \A j \in 1 .. N - 1 : Below[j] = todo[j]
        /\ todo[1].n = root
    BY <1>1, <1>7, TopIs, BelowIs DEF Path
  <2>2. AllJudged(ann', Top.n)
    BY <1>7, LeftIsJudged
  <2>3. Below = <<>> => Top.n = root
    <3>1. Below = <<>> => N = 1
      BY <2>1
    <3>. QED  BY <2>1, <3>1
  <2>. HIDE DEF N
  <2>4. ASSUME NEW k \in 1 .. N - 1, NEW i \in 1 .. Children(Below[k].n), i < Below[k].i,
               k = N - 1 \/ i # Below[k].i - 1
        PROVE  ChildDone(ann', Below[k].n, i)
    <3>1. Below[k] = todo[k] /\ k \in 1 .. N /\ k # N
      BY <2>1
    <3>2. CASE i # todo[k].i - 1
      BY <1>4, <2>4, <3>1, <3>2 DEF Done, N
    <3>3. CASE i = todo[k].i - 1
      <4>1. k = N - 1 /\ k + 1 = N
        BY <2>1, <2>4, <3>1, <3>3
      <4>2. k \in 1 .. Len(todo) - 1
        BY DEF N
      <4>3. Child(todo[k].n, i) = Top.n /\ i \notin ExprChildren(todo[k].n)
        BY <2>1, <3>3, <4>1, <4>2 DEF Chain
      <4>. QED  BY <2>2, <3>1, <4>3 DEF ChildDone
    <3>. QED  BY <3>2, <3>3
  <2>5. Done(Below, ann')
    BY <2>1, <2>4 DEF Done
  <2>. QED  BY <1>7, <2>2, <2>3, <2>5
<1>8. CASE todo # <<>> /\ todo' = Advanced
  <2>. DEFINE N == Len(todo)
  <2>1. /\ N \in Nat \ {0} /\ Top = todo[N] /\ Top.i \in Nat /\ Len(Advanced) = N
        /\ \A j \in 1 .. N : /\ Advanced[j].n = todo[j].n
                             /\ j # N => Advanced[j] = todo[j]
        /\ Advanced[N].i = Top.i + 1
    BY <1>1, <1>8, TopIs, Advancing
  <2>. HIDE DEF N
  <2>2. ASSUME NEW k \in 1 .. N, NEW i \in 1 .. Children(Advanced[k].n), i < Advanced[k].i,
               k = N \/ i # Advanced[k].i - 1
        PROVE  ChildDone(ann', Advanced[k].n, i)
    <3>1. CASE k # N
      <4>1. Advanced[k] = todo[k]
        BY <2>1, <3>1
      <4>. QED  BY <1>4, <2>2, <3>1, <4>1 DEF Done, N
    <3>2. CASE k = N
      <4>1. Advanced[k].n = Top.n /\ todo[k] = Top
        BY <2>1, <3>2
      <4>2. CASE i = Top.i
        <5>1. Top.i \in 1 .. Children(Top.n)
          BY <4>1, <4>2
        <5>. QED  BY <1>8, <4>1, <4>2, <5>1, TurnedIsDone
      <4>3. CASE i # Top.i
        <5>1. i < Top.i
          BY <2>1, <2>2, <3>2, <4>3
        <5>. QED  BY <1>4, <3>2, <4>1, <5>1 DEF Done, N
      <4>. QED  BY <4>2, <4>3
    <3>. QED  BY <3>1, <3>2
  <2>3. Done(Advanced, ann')
    BY <2>1, <2>2 DEF Done
  <2>4. Advanced # <<>>
    BY <2>1
  <2>. QED  BY <1>8, <2>3, <2>4
<1>9. CASE /\ todo # <<>> /\ todo' = Descent
           /\ Top.i \in 1 .. Children(Top.n) /\ Top.i \notin ExprChildren(Top.n)
  <2>. DEFINE N == Len(todo)
              v == Visit(Child(Top.n, Top.i))
  <2>1. /\ N \in Nat \ {0} /\ Top = todo[N] /\ Top.i \in Nat /\ Len(Advanced) = N
        /\ \A j \in 1 .. N : /\ Advanced[j].n = todo[j].n
                             /\ j # N => Advanced[j] = todo[j]
        /\ Advanced[N].i = Top.i + 1
    BY <1>1, <1>9, TopIs, Advancing
  <2>2. /\ Len(Descent) = N + 1
        /\ \A j \in 1 .. N : Descent[j] = Advanced[j]
        /\ Descent[N + 1] = v
    BY <1>1, <1>9, Descending DEF Descent
  <2>3. v.i \in {0, 1}
    BY DEF Visit
  <2>. HIDE DEF N, v
  <2>4. ASSUME NEW k \in 1 .. N + 1, NEW i \in 1 .. Children(Descent[k].n),
               i < Descent[k].i, k = N + 1 \/ i # Descent[k].i - 1
        PROVE  ChildDone(ann', Descent[k].n, i)
    <3>1. CASE k = N + 1
      <4>1. Descent[k].i \in {0, 1}
        BY <2>2, <2>3, <3>1
      <4>. QED  BY <2>4, <4>1
    <3>2. CASE k = N
      <4>1. Descent[k].n = Top.n /\ Descent[k].i = Top.i + 1 /\ todo[k] = Top
        BY <2>1, <2>2, <3>2
      <4>2. i < Top.i
        BY <2>1, <2>4, <3>2, <4>1
      <4>. QED  BY <1>4, <2>1, <3>2, <4>1, <4>2 DEF Done, N
    <3>3. CASE k # N /\ k # N + 1
      <4>1. k \in 1 .. N
        BY <2>1, <3>3
      <4>2. Descent[k] = todo[k]
        BY <2>1, <2>2, <3>3, <4>1
      <4>. QED  BY <1>4, <2>4, <3>3, <4>1, <4>2 DEF Done, N
    <3>. QED  BY <3>1, <3>2, <3>3
  <2>5. Done(Descent, ann')
    BY <2>1, <2>2, <2>4 DEF Done
  <2>6. Descent # <<>>
    BY <2>1, <2>2
  <2>. QED  BY <1>9, <2>5, <2>6
<1>. QED  BY <1>1, <1>5, <1>6, <1>7, <1>8, <1>9 DEF Moves

-----------------------------------------------------------------------------

JudgeInv == CheckInv /\ Chain(todo) /\ FoundInv /\ DoneInv

LEMMA InitIsJudged == Init => JudgeInv
<1>. SUFFICES ASSUME Init PROVE JudgeInv
  OBVIOUS
<1>1. /\ CheckInv /\ todo = <<>> /\ phase = "start" /\ tab = <<EmptyScope>>
      /\ ret_type = "VOID" /\ error_count = 0 /\ ann = <<>> /\ Len(todo) = 0
  BY InitIsInv DEF Init, symtab_init
<1>2. Chain(todo) /\ Done(todo, ann)
  BY <1>1 DEF Chain, Done
<1>3. VoidsAreKnown(tab)
  <2>1. VoidIsKnown(EmptyScope)
    BY <1>1, ScopesKnown
  <2>. QED  BY <1>1, <2>1 DEF VoidsAreKnown
<1>4. ann \in Notes /\ NotesAreKnown(ann)
  <2>1. <<>> \in [{} -> DataType] /\ {} \in SUBSET Node
    OBVIOUS
  <2>. QED  BY <1>1, <2>1 DEF Notes, NotesAreKnown
<1>. QED  BY <1>1, <1>2, <1>3, <1>4 DEF JudgeInv, FoundInv, DoneInv, DataType

LEMMA StepKeepsJudged == JudgeInv /\ [Next]_vars => JudgeInv'
<1>. SUFFICES ASSUME JudgeInv, [Next]_vars PROVE JudgeInv'
  OBVIOUS
<1>1. CheckInv'
  BY StepKeepsInv DEF JudgeInv
<1>2. Chain(todo')
  BY ChainKept DEF JudgeInv
<1>3. FoundInv' /\ DoneInv'
  BY FoundKept, DoneKept DEF JudgeInv
<1>4. Chain(todo)' <=> Chain(todo')
  BY DEF Chain
<1>. QED  BY <1>1, <1>2, <1>3, <1>4 DEF JudgeInv

LEMMA JudgeInvariant == Spec => []JudgeInv
BY InitIsJudged, StepKeepsJudged, PTL DEF Spec

(* The checker's state is well typed: the count of errors is never         *)
(* negative, whatever is declared twice (semantic.c:182, 210), and a node  *)
(* is given one of the language's types.                                   *)
THEOREM CheckerTypeCorrect == Spec => []TypeOK
<1>1. JudgeInv => TypeOK
  <2>. SUFFICES ASSUME JudgeInv PROVE TypeOK
    OBVIOUS
  <2>1. CheckInv /\ FoundInv
    BY DEF JudgeInv
  <2>2. root \in Roots /\ todo \in Seq([n : Node, i : Nat])
    BY <2>1 DEF CheckInv, Path, Activation
  <2>3. IsSymbolTable(tab)
    <3>1. Len(tab) \in Nat \ {0} /\ tab \in Seq(Scope)
      BY <2>1, TabNotEmpty DEF CheckInv
    <3>2. \A d \in 1 .. Len(tab) : tab[d] \in Scope
      BY <3>1, ElementOfSeq
    <3>3. ASSUME NEW d \in 1 .. Len(tab), NEW name \in DOMAIN tab[d]
          PROVE  tab[d][name] \in Symbol
      <4>1. tab[d] \in Scope
        BY <3>2
      <4>. QED  BY <4>1 DEF Scope
    <3>. QED  BY <3>1, <3>3 DEF IsSymbolTable
  <2>4. /\ phase \in {"start", "checking", "checked"} /\ ret_type \in DataType
        /\ error_count \in Nat /\ ann \in Notes
    BY <2>1 DEF FoundInv
  <2>5. \A n \in DOMAIN ann : n \in Node /\ ann[n] \in DataType
    <3>1. PICK S \in SUBSET Node : ann \in [S -> DataType]
      BY <2>4 DEF Notes
    <3>. QED  BY <3>1
  <2>. QED  BY <2>2, <2>3, <2>4, <2>5 DEF TypeOK
<1>. QED  BY <1>1, JudgeInvariant, PTL

(* VOID, which silences the checks above it, never hides an error: as long *)
(* as none is counted it comes from a void function or a void parameter    *)
(* (semantic.c:52-55).                                                     *)
THEOREM NoErrorMasked == Spec => []ErrorsNotMasked
<1>1. JudgeInv => ErrorsNotMasked
  BY DEF JudgeInv, FoundInv, ErrorsNotMasked, NotesAreKnown
<1>. QED  BY <1>1, JudgeInvariant, PTL

(* Every expression of an accepted program has been judged and has the     *)
(* type the C backend relies on, unless it is an expression statement, or  *)
(* a part of one (semantic.c:201-340).                                     *)
THEOREM NothingElseSkipped == Spec => []OnlyStatementsSkipped
<1>1. JudgeInv => OnlyStatementsSkipped
  <2>. SUFFICES ASSUME JudgeInv, Accepted PROVE AllJudged(ann, root)
    BY DEF OnlyStatementsSkipped, AllJudged, NotedAll, Typed
  <2>. QED  BY DEF JudgeInv, DoneInv, Accepted
<1>. QED  BY <1>1, JudgeInvariant, PTL
=============================================================================
