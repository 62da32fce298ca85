------------------------- MODULE SemanticTypedProofs -------------------------
(***************************************************************************)
(* What the checker accepts is well typed.  The variables seen at each     *)
(* node and the types of the expressions are fixed by the tree; as long as *)
(* no error is counted, the symbol table holds the ones and what           *)
(* check_expression notes are the others.                                  *)
(***************************************************************************)
EXTENDS SemanticProofs, LumisTyping

-----------------------------------------------------------------------------
(* What a program's nodes see, and the types of its expressions, are fixed *)
(* by the tree: every program has them, whether it is accepted or not.     *)

LooseInt(f, types) == \A x \in LooseNames(f) : types[x] = "INT"

After(f, types, n) ==
    IF Kind(n) = "VAR_DECL" /\ Ast[n].name \notin LooseNames(f)
    THEN [types EXCEPT ![Ast[n].name] = Ast[n].type] ELSE types

PassesOn(f, seen, n) ==
    \A i \in 1 .. Children(n) :
       seen[Child(n, i)] = IF Kind(n) = "BLOCK" /\ i > 1
                           THEN SeenAfter(f, seen, Child(n, i - 1)) ELSE seen[n]

(* Node n of function f passes on what it sees; loose names are ints.      *)
Passes(f, seen, n) ==
    /\ LooseInt(f, seen[n])
    /\ Kind(n) \in ExprKind => \A c \in Parts(n) : seen[c] = seen[n]
    /\ Kind(n) \in StmtKind => PassesOn(f, seen, n)

Spread(f, seen, n) == \A m \in Subtree(n) : Passes(f, seen, m)

(* What is seen before child i of a block that sees `types'.               *)
DeclAt(f, n, j, x) ==
    Kind(Child(n, j)) = "VAR_DECL" /\ Ast[Child(n, j)].name = x /\ x \notin LooseNames(f)

LastDecl(f, n, i, x, j) ==
    /\ j \in 1 .. i - 1 /\ DeclAt(f, n, j, x)
    /\ \A k \in 1 .. i - 1 : k > j => ~DeclAt(f, n, k, x)

Entry(f, n, types, i) ==
    [x \in VarName |->
        IF Kind(n) = "BLOCK" /\ \E j \in 1 .. i - 1 : LastDecl(f, n, i, x, j)
        THEN Ast[Child(n, CHOOSE j \in 1 .. i - 1 : LastDecl(f, n, i, x, j))].type
        ELSE types[x]]

LEMMA StmtIs ==
  ASSUME NEW n \in Node, Kind(n) \in StmtKind
  PROVE  /\ Parts(n) = {Child(n, i) : i \in 1 .. Children(n)}
         /\ \A i \in 1 .. Children(n) :
               Child(n, i) \in Node /\ Kind(Child(n, i)) \in StmtKind \cup ExprKind
         /\ Kind(n) \notin ExprKind /\ Kind(n) \notin {"PROGRAM", "FUNC_DECL"}
<1>1. Kind(n) \notin ExprKind /\ Kind(n) \notin {"PROGRAM", "FUNC_DECL"}
  BY DEF StmtKind, ExprKind
<1>2. Ast[n].args = <<>>
  BY <1>1, AstAssumption DEF WellShaped, ExprKind
<1>3. Parts(n) = {Child(n, i) : i \in 1 .. Children(n)}
  <2>1. Len(Ast[n].args) = 0
    BY <1>2
  <2>. QED  BY <2>1 DEF Parts
<1>4. ASSUME NEW i \in 1 .. Children(n)
      PROVE  Child(n, i) \in Node /\ Kind(Child(n, i)) \in StmtKind \cup ExprKind
  <2>1. Child(n, i) \in Node
    BY ChildIs
  <2>2. Kind(Child(n, i)) \in ExprKind \/ Kind(Child(n, i)) \in StmtKind \cup ExprKind
    BY <1>1, AstAssumption DEF WellShaped
  <2>. QED  BY <2>1, <2>2
<1>. QED  BY <1>1, <1>3, <1>4

LEMMA SpreadLocal ==
  ASSUME NEW f, NEW s1, NEW s2, NEW n \in Node, Spread(f, s1, n),
         \A m \in Subtree(n) : s1[m] = s2[m]
  PROVE  Spread(f, s2, n)
<1>. SUFFICES ASSUME NEW m \in Subtree(n) PROVE Passes(f, s2, m)
  BY DEF Spread
<1>1. Passes(f, s1, m) /\ s1[m] = s2[m] /\ m \in Node /\ Subtree(m) \subseteq Subtree(n)
  BY SubtreeClosed DEF Spread
<1>2. \A c \in Parts(m) : c \in Subtree(n)
  <2>1. \A c \in Parts(m) : c \in Node /\ c \in Subtree(c)
    BY <1>1, PartsAre, SubtreeIs
  <2>. QED  BY <1>1, <2>1, SubtreeIs
<1>3. \A i \in 1 .. Children(m) : Child(m, i) \in Subtree(n)
  BY <1>2 DEF Parts
<1>4. LooseInt(f, s2[m]) /\ (Kind(m) \in ExprKind => \A c \in Parts(m) : s2[c] = s2[m])
  BY <1>1, <1>2 DEF Passes
<1>5. ASSUME Kind(m) \in StmtKind PROVE PassesOn(f, s2, m)
  <2>1. PassesOn(f, s1, m)
    BY <1>1, <1>5 DEF Passes
  <2>2. Children(m) \in Nat
    BY <1>1, NodeIs
  <2>3. ASSUME NEW i \in 1 .. Children(m), i > 1
        PROVE  SeenAfter(f, s1, Child(m, i - 1)) = SeenAfter(f, s2, Child(m, i - 1))
    <3>1. i - 1 \in 1 .. Children(m)
      BY <2>2, <2>3
    <3>2. s1[Child(m, i - 1)] = s2[Child(m, i - 1)]
      BY <1>3, <3>1
    <3>. QED  BY <3>2 DEF SeenAfter
  <2>. QED  BY <1>1, <1>3, <2>1, <2>3 DEF PassesOn
<1>. QED  BY <1>4, <1>5 DEF Passes

LEMMA EntryIs ==
  ASSUME NEW f \in Node, NEW n \in Node, NEW types \in VarTypes, LooseInt(f, types),
         NEW i \in 1 .. Children(n)
  PROVE  /\ Entry(f, n, types, i) \in VarTypes /\ LooseInt(f, Entry(f, n, types, i))
         /\ Kind(n) # "BLOCK" \/ i = 1 => Entry(f, n, types, i) = types
         /\ Kind(n) = "BLOCK" /\ i > 1 =>
               Entry(f, n, types, i) =
                  After(f, Entry(f, n, types, i - 1), Child(n, i - 1))
<1>. DEFINE last(k, x) == CHOOSE j \in 1 .. k - 1 : LastDecl(f, n, k, x, j)
            found(k, x) == \E j \in 1 .. k - 1 : LastDecl(f, n, k, x, j)
<1>1. Children(n) \in Nat
  BY NodeIs
<1>2. ASSUME NEW k \in 1 .. Children(n), NEW x, found(k, x)
      PROVE  /\ last(k, x) \in 1 .. k - 1 /\ LastDecl(f, n, k, x, last(k, x))
             /\ last(k, x) \in 1 .. Children(n)
             /\ Ast[Child(n, last(k, x))].type \in DataType
  <2>1. last(k, x) \in 1 .. k - 1 /\ LastDecl(f, n, k, x, last(k, x))
    BY <1>2
  <2>. HIDE DEF last
  <2>2. last(k, x) \in 1 .. Children(n)
    BY <1>1, <2>1
  <2>3. Child(n, last(k, x)) \in Node
    BY <2>2, ChildIs
  <2>. QED  BY <2>1, <2>2, <2>3, NodeIs
<1>3. ASSUME NEW x \in LooseNames(f), NEW k, found(k, x) PROVE FALSE
  BY <1>3 DEF LastDecl, DeclAt
<1>. HIDE DEF last, found
<1>4. \A k : Entry(f, n, types, k) =
          [x \in VarName |-> IF Kind(n) = "BLOCK" /\ found(k, x)
                             THEN Ast[Child(n, last(k, x))].type ELSE types[x]]
  BY DEF Entry, found, last
<1>5. Entry(f, n, types, i) \in VarTypes
  BY <1>2, <1>4 DEF VarTypes
<1>6. LooseNames(f) \subseteq VarName
  <2>1. ASSUME NEW m \in Nodes(f, {"IF", "WHILE", "FOR"}), NEW j \in 1 .. Children(m),
               Kind(Child(m, j)) = "VAR_DECL"
        PROVE  Ast[Child(m, j)].name \in VarName
    <3>1. m \in Node
      BY SubtreeClosed DEF Nodes
    <3>2. Child(m, j) \in Node
      BY <3>1, ChildIs
    <3>. QED  BY <2>1, <3>2, AstAssumption
  <2>. QED  BY <2>1 DEF LooseNames
<1>7. LooseInt(f, Entry(f, n, types, i))
  BY <1>3, <1>4, <1>6 DEF LooseInt
<1>8. ASSUME Kind(n) # "BLOCK" \/ i = 1 PROVE Entry(f, n, types, i) = types
  <2>1. \A x : ~(Kind(n) = "BLOCK" /\ found(i, x))
    BY <1>8 DEF found
  <2>2. types = [x \in VarName |-> types[x]]
    BY DEF VarTypes
  <2>. QED  BY <1>4, <2>1, <2>2
<1>9. ASSUME Kind(n) = "BLOCK", i > 1
      PROVE  Entry(f, n, types, i) = After(f, Entry(f, n, types, i - 1), Child(n, i - 1))
  <2>. DEFINE c == Child(n, i - 1)
              E == Entry(f, n, types, i - 1)
  <2>1. i - 1 \in 1 .. Children(n) /\ i \in Int
    BY <1>1, <1>9
  <2>2. c \in Node
    BY <2>1, ChildIs
  <2>3. \A x \in VarName : DeclAt(f, n, i - 1, x) <=>
             /\ Kind(c) = "VAR_DECL" /\ Ast[c].name \notin LooseNames(f)
             /\ x = Ast[c].name
    BY DEF DeclAt
  <2>4. Kind(c) = "VAR_DECL" => Ast[c].name \in VarName
    BY <2>2, AstAssumption
  <2>5. E = [x \in VarName |-> IF found(i - 1, x)
                               THEN Ast[Child(n, last(i - 1, x))].type ELSE types[x]]
    BY <1>4, <1>9
  <2>6. After(f, E, c) = [x \in VarName |-> IF DeclAt(f, n, i - 1, x) THEN Ast[c].type
                                            ELSE E[x]]
    <3>. HIDE DEF c
    <3>1. E = [x \in VarName |-> E[x]]
      BY <2>5
    <3>. HIDE DEF E
    <3>2. CASE Kind(c) = "VAR_DECL" /\ Ast[c].name \notin LooseNames(f)
      <4>1. After(f, E, c) = [E EXCEPT ![Ast[c].name] = Ast[c].type]
        BY <3>2 DEF After
      <4>2. [E EXCEPT ![Ast[c].name] = Ast[c].type] =
               [x \in VarName |-> IF x = Ast[c].name THEN Ast[c].type ELSE E[x]]
        BY <3>1
      <4>3. \A x \in VarName : DeclAt(f, n, i - 1, x) <=> x = Ast[c].name
        BY <2>3, <3>2
      <4>. QED  BY <4>1, <4>2, <4>3
    <3>3. CASE ~(Kind(c) = "VAR_DECL" /\ Ast[c].name \notin LooseNames(f))
      <4>1. After(f, E, c) = E
        BY <3>3 DEF After
      <4>2. \A x \in VarName : ~DeclAt(f, n, i - 1, x)
        BY <2>3, <3>3
      <4>. QED  BY <3>1, <4>1, <4>2
    <3>. QED  BY <3>2, <3>3
  <2>7. ASSUME NEW x \in VarName, DeclAt(f, n, i - 1, x)
        PROVE  found(i, x) /\ last(i, x) = i - 1
    <3>1. LastDecl(f, n, i, x, i - 1)
      BY <2>1, <2>7 DEF LastDecl
    <3>2. i - 1 \in 1 .. i - 1
      BY <2>1
    <3>3. \A j \in 1 .. i - 1 : LastDecl(f, n, i, x, j) => j = i - 1
      BY <2>1, <2>7, <3>2 DEF LastDecl
    <3>. QED  BY <3>1, <3>2, <3>3 DEF found, last
  <2>8. ASSUME NEW x \in VarName, ~DeclAt(f, n, i - 1, x)
        PROVE  (found(i, x) <=> found(i - 1, x)) /\ (found(i, x) => last(i, x) = last(i - 1, x))
    <3>0. i \in Nat
      BY <1>1
    <3>1. \A j : j \in 1 .. i - 1 /\ LastDecl(f, n, i, x, j)
                    <=> j \in 1 .. i - 1 - 1 /\ LastDecl(f, n, i - 1, x, j)
      <4>1. ASSUME NEW j, j \in 1 .. i - 1, LastDecl(f, n, i, x, j)
            PROVE  j \in 1 .. i - 1 - 1 /\ LastDecl(f, n, i - 1, x, j)
        <5>1. j # i - 1
          BY <2>8, <4>1 DEF LastDecl
        <5>2. j \in 1 .. i - 1 - 1
          BY <3>0, <4>1, <5>1
        <5>3. \A k \in 1 .. i - 1 - 1 : k \in 1 .. i - 1
          BY <3>0
        <5>. QED  BY <4>1, <5>2, <5>3 DEF LastDecl
      <4>2. ASSUME NEW j, j \in 1 .. i - 1 - 1, LastDecl(f, n, i - 1, x, j)
            PROVE  j \in 1 .. i - 1 /\ LastDecl(f, n, i, x, j)
        <5>1. j \in 1 .. i - 1
          BY <3>0, <4>2
        <5>2. \A k \in 1 .. i - 1 : k = i - 1 \/ k \in 1 .. i - 1 - 1
          BY <3>0
        <5>. QED  BY <2>8, <4>2, <5>1, <5>2 DEF LastDecl
      <4>. QED  BY <4>1, <4>2
    <3>2. found(i, x) <=> found(i - 1, x)
      BY <3>1 DEF found
    <3>3. last(i, x) = last(i - 1, x)
      <4>1. last(i, x) = CHOOSE j : j \in 1 .. i - 1 /\ LastDecl(f, n, i, x, j)
        BY DEF last
      <4>2. last(i - 1, x) = CHOOSE j : j \in 1 .. i - 1 - 1 /\ LastDecl(f, n, i - 1, x, j)
        BY DEF last
      <4>. QED  BY <3>1, <4>1, <4>2
    <3>. QED  BY <3>2, <3>3
  <2>9. \A x \in VarName :
           (IF found(i, x) THEN Ast[Child(n, last(i, x))].type ELSE types[x])
           = IF DeclAt(f, n, i - 1, x) THEN Ast[c].type ELSE E[x]
    BY <2>5, <2>7, <2>8
  <2>10. Entry(f, n, types, i) = [x \in VarName |-> IF found(i, x)
                            THEN Ast[Child(n, last(i, x))].type ELSE types[x]]
    BY <1>4, <1>9
  <2>. HIDE DEF E, c
  <2>. QED  BY <2>6, <2>9, <2>10 DEF E, c
<1>. QED  BY <1>5, <1>7, <1>8, <1>9

Givens(n) == [1 .. Children(n) -> [Node -> VarTypes]]

LEMMA Combine ==
  ASSUME NEW n \in Node, NEW types \in VarTypes, NEW g \in Givens(n)
  PROVE  \E s \in [Node -> VarTypes] :
            /\ s[n] = types
            /\ \A i \in 1 .. Children(n) : \A m \in Subtree(Child(n, i)) : s[m] = g[i][m]
<1>. DEFINE K == 1 .. Children(n)
            under(m) == \E i \in K : m \in Subtree(Child(n, i))
            at(m) == CHOOSE i \in K : m \in Subtree(Child(n, i))
            s == [m \in Node |-> IF m # n /\ under(m) THEN g[at(m)][m] ELSE types]
<1>1. ASSUME NEW m, under(m) PROVE at(m) \in K /\ m \in Subtree(Child(n, at(m)))
  BY <1>1
<1>2. \A i \in K : Child(n, i) \in Parts(n) /\ Child(n, i) \in Node
  BY ChildIs DEF Parts
<1>3. ASSUME NEW i \in K, NEW m \in Subtree(Child(n, i))
      PROVE  m \in Node /\ m # n /\ under(m) /\ at(m) = i
  <2>1. m \in Node /\ m # n
    BY <1>2, SubtreeClosed, TreeAssumption
  <2>2. under(m)
    OBVIOUS
  <2>3. at(m) \in K /\ m \in Subtree(Child(n, at(m)))
    BY <1>1, <2>2
  <2>. HIDE DEF at
  <2>4. at(m) = i
    BY <2>3, TreeAssumption
  <2>. QED  BY <2>1, <2>2, <2>4
<1>. HIDE DEF at, under
<1>4. s \in [Node -> VarTypes]
  <2>1. ASSUME NEW m \in Node PROVE (IF m # n /\ under(m) THEN g[at(m)][m] ELSE types) \in VarTypes
    BY <1>1 DEF Givens
  <2>. QED  BY <2>1
<1>5. s[n] = types
  OBVIOUS
<1>6. \A i \in K : \A m \in Subtree(Child(n, i)) : s[m] = g[i][m]
  BY <1>3
<1>. HIDE DEF s
<1>. QED  BY <1>4, <1>5, <1>6

LEMMA SpreadExists ==
  ASSUME NEW f \in Node, NEW n \in Node, Kind(n) \in StmtKind \cup ExprKind,
         NEW types \in VarTypes, LooseInt(f, types)
  PROVE  \E s \in [Node -> VarTypes] : s[n] = types /\ Spread(f, s, n)
<1>. DEFINE Given(m, s, t) == s \in [Node -> VarTypes] /\ s[m] = t /\ Spread(f, s, m)
            S == {m \in Node : Kind(m) \in StmtKind \cup ExprKind =>
                     \A t \in VarTypes : LooseInt(f, t) => \E s : Given(m, s, t)}
<1>1. ASSUME NEW m \in Node, Parts(m) \subseteq S, Kind(m) \in StmtKind \cup ExprKind,
             NEW t \in VarTypes, LooseInt(f, t)
      PROVE  \E s : Given(m, s, t)
  <2>1. CASE Kind(m) \in ExprKind
    <3>. DEFINE s == [k \in Node |-> t]
    <3>1. m \in Expression
      BY <2>1 DEF Expression
    <3>2. Subtree(m) \subseteq Expression
      BY <3>1, ExpressionTree
    <3>3. ASSUME NEW k \in Subtree(m) PROVE Passes(f, s, k)
      <4>1. k \in Expression /\ k \in Node /\ Kind(k) \in ExprKind
        BY <3>2 DEF Expression
      <4>2. s[k] = t /\ \A c \in Parts(k) : s[c] = t
        BY <4>1, PartsAre
      <4>3. Kind(k) \notin StmtKind
        BY <4>1 DEF ExprKind, StmtKind
      <4>. QED  BY <1>1, <4>2, <4>3 DEF Passes
    <3>4. Given(m, s, t)
      BY <3>3 DEF Spread
    <3>. QED  BY <3>4
  <2>2. CASE Kind(m) \in StmtKind
    <3>. DEFINE K == 1 .. Children(m)
                E(i) == Entry(f, m, t, i)
                g == [i \in K |-> CHOOSE s : Given(Child(m, i), s, E(i))]
    <3>1. ASSUME NEW i \in K
          PROVE  /\ Child(m, i) \in Node /\ Child(m, i) \in Parts(m)
                 /\ E(i) \in VarTypes /\ Given(Child(m, i), g[i], E(i))
      <4>1. /\ Child(m, i) \in Node /\ Child(m, i) \in Parts(m)
            /\ Kind(Child(m, i)) \in StmtKind \cup ExprKind
        BY <2>2, StmtIs
      <4>2. E(i) \in VarTypes /\ LooseInt(f, E(i))
        BY <1>1, EntryIs
      <4>. HIDE DEF E, Given
      <4>3. \E s : Given(Child(m, i), s, E(i))
        BY <1>1, <4>1, <4>2
      <4>4. g[i] = CHOOSE s : Given(Child(m, i), s, E(i))
        OBVIOUS
      <4>. HIDE DEF g
      <4>. QED  BY <4>1, <4>2, <4>3, <4>4
    <3>2. g \in [K -> [Node -> VarTypes]]
      <4>1. \A i \in K : g[i] \in [Node -> VarTypes]
        BY <3>1
      <4>2. g = [i \in K |-> g[i]]
        OBVIOUS
      <4>. HIDE DEF g
      <4>. QED  BY <4>1, <4>2
    <3>. HIDE DEF g
    <3>3. PICK s \in [Node -> VarTypes] :
             /\ s[m] = t
             /\ \A i \in K : \A k \in Subtree(Child(m, i)) : s[k] = g[i][k]
      <4>1. m \in Node /\ t \in VarTypes
        BY <1>1
      <4>2. g \in Givens(m)
        BY <3>2 DEF Givens
      <4>. HIDE DEF K, E, Given, S
      <4>3. \E s \in [Node -> VarTypes] :
               /\ s[m] = t
               /\ \A i \in 1 .. Children(m) :
                     \A k \in Subtree(Child(m, i)) : s[k] = g[i][k]
        BY <4>1, <4>2, Combine
      <4>. QED  BY <4>3 DEF K
    <3>4. ASSUME NEW i \in K
          PROVE  s[Child(m, i)] = E(i) /\ Spread(f, s, Child(m, i))
      <4>1. /\ Child(m, i) \in Node /\ g[i][Child(m, i)] = E(i)
            /\ Spread(f, g[i], Child(m, i))
        BY <3>1
      <4>2. Child(m, i) \in Subtree(Child(m, i))
        BY <4>1, SubtreeIs
      <4>3. \A k \in Subtree(Child(m, i)) : s[k] = g[i][k]
        BY <3>3
      <4>4. Spread(f, s, Child(m, i))
        BY <4>1, <4>3, SpreadLocal
      <4>. QED  BY <4>1, <4>2, <4>3, <4>4
    <3>5. PassesOn(f, s, m)
      <4>1. Children(m) \in Nat
        BY NodeIs
      <4>2. ASSUME NEW i \in K
            PROVE  s[Child(m, i)] = IF Kind(m) = "BLOCK" /\ i > 1
                                    THEN SeenAfter(f, s, Child(m, i - 1)) ELSE s[m]
        <5>1. CASE Kind(m) = "BLOCK" /\ i > 1
          <6>1. i - 1 \in K
            BY <4>1, <5>1
          <6>2. E(i) = After(f, E(i - 1), Child(m, i - 1))
            BY <1>1, <5>1, EntryIs
          <6>3. s[Child(m, i - 1)] = E(i - 1)
            BY <3>4, <6>1
          <6>. HIDE DEF E
          <6>4. SeenAfter(f, s, Child(m, i - 1)) = After(f, E(i - 1), Child(m, i - 1))
            BY <6>3 DEF SeenAfter, After
          <6>. QED  BY <3>4, <5>1, <6>2, <6>4
        <5>2. CASE ~(Kind(m) = "BLOCK" /\ i > 1)
          <6>1. Kind(m) # "BLOCK" \/ i = 1
            BY <4>1, <5>2
          <6>2. E(i) = t
            BY <1>1, <6>1, EntryIs
          <6>. QED  BY <3>3, <3>4, <5>2, <6>2
        <5>. QED  BY <5>1, <5>2
      <4>. QED  BY <4>2 DEF PassesOn
    <3>6. Passes(f, s, m)
      <4>1. Kind(m) \notin ExprKind
        BY <2>2, StmtIs
      <4>. QED  BY <1>1, <3>3, <3>5, <4>1 DEF Passes
    <3>7. Spread(f, s, m)
      <4>1. ASSUME NEW k \in Subtree(m) PROVE Passes(f, s, k)
        <5>1. CASE k = m
          BY <3>6, <5>1
        <5>2. CASE k # m
          <6>1. PICK i \in K : k \in Subtree(Child(m, i))
            BY <2>2, <5>2, StmtIs, SubtreeIs
          <6>. QED  BY <3>4, <6>1 DEF Spread
        <5>. QED  BY <5>1, <5>2
      <4>. QED  BY <4>1 DEF Spread
    <3>. QED  BY <3>3, <3>7
  <2>. QED  BY <1>1, <2>1, <2>2
<1>2. \A m \in Node : Parts(m) \subseteq S => m \in S
  <2>. HIDE DEF Given
  <2>. SUFFICES ASSUME NEW m \in Node, Parts(m) \subseteq S,
                       Kind(m) \in StmtKind \cup ExprKind,
                       NEW t \in VarTypes, LooseInt(f, t)
                PROVE  \E s : Given(m, s, t)
    OBVIOUS
  <2>. HIDE DEF S
  <2>. QED  BY <1>1
<1>3. n \in S
  <2>. HIDE DEF S
  <2>. QED  BY <1>2, TreeInduction
<1>. QED  BY <1>3

(* What the body of f sees.                                                *)
FirstTypes(f) ==
    [x \in VarName |->
        IF x \in LooseNames(f) THEN "INT"
        ELSE IF \E i \in 1 .. Len(ParamsOf(f)) : ParamsOf(f)[i].name = x
        THEN ParamsOf(f)[CHOOSE i \in 1 .. Len(ParamsOf(f)) : ParamsOf(f)[i].name = x].type
        ELSE NoType]

LEMMA LooseAreVars ==
  ASSUME NEW f \in Node
  PROVE  LooseNames(f) \subseteq VarName
<1>1. ASSUME NEW m \in Nodes(f, {"IF", "WHILE", "FOR"}), NEW j \in 1 .. Children(m),
             Kind(Child(m, j)) = "VAR_DECL"
      PROVE  Ast[Child(m, j)].name \in VarName
  <2>1. m \in Node
    BY SubtreeClosed DEF Nodes
  <2>2. Child(m, j) \in Node
    BY <2>1, ChildIs
  <2>. QED  BY <1>1, <2>2, AstAssumption
<1>. QED  BY <1>1 DEF LooseNames

LEMMA FirstTypesAre ==
  ASSUME NEW f \in Node
  PROVE  FirstTypes(f) \in VarTypes /\ LooseInt(f, FirstTypes(f))
<1>1. ParamsOf(f) \in Seq(Param)
  BY NodeIs DEF ParamsOf
<1>2. \A i \in 1 .. Len(ParamsOf(f)) : ParamsOf(f)[i].type \in DataType
  <2>1. \A i \in 1 .. Len(ParamsOf(f)) : ParamsOf(f)[i] \in Param
    BY <1>1, ElementOfSeq
  <2>. QED  BY <2>1 DEF Param
<1>3. FirstTypes(f) \in VarTypes
  <2>1. ASSUME NEW x \in VarName,
               \E i \in 1 .. Len(ParamsOf(f)) : ParamsOf(f)[i].name = x
        PROVE  ParamsOf(f)[CHOOSE i \in 1 .. Len(ParamsOf(f)) :
                              ParamsOf(f)[i].name = x].type \in DataType
    BY <1>2, <2>1
  <2>. QED  BY <2>1 DEF FirstTypes, VarTypes, DataType
<1>. QED  BY <1>3, LooseAreVars DEF LooseInt, FirstTypes

LEMMA FunctionIs ==
  ASSUME NEW r \in Roots, NEW f \in FunctionsOf(r)
  PROVE  /\ r \in Node /\ f \in Node /\ Kind(f) = "FUNC_DECL" /\ f \in Parts(r)
         /\ Children(f) = 1 /\ Child(f, 1) \in Node /\ Kind(Child(f, 1)) = "BLOCK"
         /\ Subtree(f) = {f} \cup Subtree(Child(f, 1))
<1>1. r \in Node /\ Kind(r) = "PROGRAM"
  BY AstAssumption
<1>2. PICK i \in 1 .. Children(r) : f = Child(r, i)
  BY DEF FunctionsOf
<1>3. f \in Node /\ Kind(f) = "FUNC_DECL" /\ f \in Parts(r)
  BY <1>1, <1>2, ChildIs DEF Parts
<1>4. Children(f) = 1
  BY <1>3, AstAssumption DEF WellShaped, WellCounted
<1>5. 1 \in 1 .. Children(f) /\ WellShaped(f) /\ Ast[f].args = <<>>
  BY <1>3, <1>4, AstAssumption DEF WellShaped
<1>6. Child(f, 1) \in Node /\ Kind(Child(f, 1)) = "BLOCK"
  BY <1>3, <1>5, ChildIs DEF WellShaped
<1>7. Parts(f) = {Child(f, 1)}
  <2>1. Len(Ast[f].args) = 0
    BY <1>5
  <2>. QED  BY <1>4, <2>1 DEF Parts
<1>. QED  BY <1>1, <1>3, <1>4, <1>6, <1>7, SubtreeIs

SeenRight(r, seen) ==
    \A f \in FunctionsOf(r) : /\ seen[Child(f, 1)] = FirstTypes(f)
                              /\ Spread(f, seen, Child(f, 1))

LEMMA SeenExists ==
  ASSUME NEW r \in Roots
  PROVE  \E seen \in [Node -> VarTypes] : SeenRight(r, seen)
<1>. DEFINE K == 1 .. Children(r)
            b(i) == Child(Child(r, i), 1)
            Given(i, s) == /\ s \in [Node -> VarTypes] /\ s[b(i)] = FirstTypes(Child(r, i))
                           /\ Spread(Child(r, i), s, b(i))
            g == [i \in K |-> CHOOSE s : Given(i, s)]
            types == [x \in VarName |-> NoType]
<1>1. ASSUME NEW i \in K
      PROVE  /\ Child(r, i) \in Node /\ b(i) \in Node
             /\ Subtree(Child(r, i)) = {Child(r, i)} \cup Subtree(b(i))
             /\ Given(i, g[i])
  <2>1. Child(r, i) \in FunctionsOf(r)
    BY DEF FunctionsOf
  <2>2. /\ Child(r, i) \in Node /\ b(i) \in Node /\ Kind(b(i)) = "BLOCK"
        /\ Subtree(Child(r, i)) = {Child(r, i)} \cup Subtree(b(i))
    BY <2>1, FunctionIs
  <2>3. Kind(b(i)) \in StmtKind \cup ExprKind
    BY <2>2 DEF StmtKind
  <2>4. FirstTypes(Child(r, i)) \in VarTypes /\ LooseInt(Child(r, i), FirstTypes(Child(r, i)))
    BY <2>2, FirstTypesAre
  <2>. HIDE DEF b
  <2>5. \E s : Given(i, s)
    BY <2>2, <2>3, <2>4, SpreadExists
  <2>6. g[i] = CHOOSE s : Given(i, s)
    OBVIOUS
  <2>. HIDE DEF g, Given
  <2>. QED  BY <2>2, <2>5, <2>6
<1>2. g \in [K -> [Node -> VarTypes]]
  <2>1. \A i \in K : g[i] \in [Node -> VarTypes]
    BY <1>1
  <2>2. g = [i \in K |-> g[i]]
    OBVIOUS
  <2>. HIDE DEF g
  <2>. QED  BY <2>1, <2>2
<1>. HIDE DEF g
<1>3. types \in VarTypes
  BY DEF VarTypes
<1>4. r \in Node
  BY AstAssumption
<1>. HIDE DEF types
<1>5. PICK s \in [Node -> VarTypes] :
         /\ s[r] = types
         /\ \A i \in K : \A k \in Subtree(Child(r, i)) : s[k] = g[i][k]
  <2>1. g \in Givens(r)
    BY <1>2 DEF Givens
  <2>. QED  BY <1>3, <1>4, <2>1, Combine
<1>6. ASSUME NEW i \in K
      PROVE  s[b(i)] = FirstTypes(Child(r, i)) /\ Spread(Child(r, i), s, b(i))
  <2>1. /\ b(i) \in Node /\ g[i][b(i)] = FirstTypes(Child(r, i))
        /\ Spread(Child(r, i), g[i], b(i))
        /\ Subtree(Child(r, i)) = {Child(r, i)} \cup Subtree(b(i))
    BY <1>1
  <2>. HIDE DEF b
  <2>2. b(i) \in Subtree(b(i))
    BY <2>1, SubtreeIs
  <2>3. \A k \in Subtree(b(i)) : s[k] = g[i][k]
    BY <1>5, <2>1
  <2>4. Spread(Child(r, i), s, b(i))
    BY <2>1, <2>3, SpreadLocal
  <2>. QED  BY <2>1, <2>2, <2>3, <2>4
<1>7. SeenRight(r, s)
  BY <1>6 DEF SeenRight, FunctionsOf
<1>. QED  BY <1>5, <1>7

LEMMA FindIs ==
  ASSUME NEW r \in Roots, NEW name
  PROVE  \/ FindFunction(r, name) = NoNode
         \/ FindFunction(r, name) \in FunctionsOf(r) /\ FindFunction(r, name) \in Node
<1>. DEFINE hits == {i \in 1 .. Children(r) :
                       /\ Kind(Child(r, i)) = "FUNC_DECL"
                       /\ Ast[Child(r, i)].name = name}
            First(i) == i \in hits /\ \A j \in hits : i <= j
            k == CHOOSE i \in hits : First(i)
<1>1. FindFunction(r, name) = IF \E i \in hits : First(i) THEN Child(r, k) ELSE NoNode
  BY DEF FindFunction
<1>2. (\E i \in hits : First(i)) => k \in hits
  <2>. HIDE DEF hits
  <2>. QED  OBVIOUS
<1>3. hits \subseteq 1 .. Children(r)
  OBVIOUS
<1>. HIDE DEF First, k, hits
<1>4. k \in hits => Child(r, k) \in FunctionsOf(r)
  BY <1>3 DEF FunctionsOf
<1>. QED  BY <1>1, <1>2, <1>4, FunctionIs

(* The type of expression n, from those of its parts.                      *)
TypeBy(r, seen, n, T) ==
    CASE Kind(n) = "LITERAL"   -> Ast[n].type
      [] Kind(n) = "VAR_REF"   ->
            IF seen[n][Ast[n].name] = NoType THEN "VOID" ELSE seen[n][Ast[n].name]
      [] Kind(n) = "BINARY_OP" -> BinaryType(Ast[n].op, T[Child(n, 1)], T[Child(n, 2)])[1]
      [] Kind(n) = "UNARY_OP"  -> UnaryType(Ast[n].op, T[Child(n, 1)])[1]
      [] OTHER ->
            IF FindFunction(r, Ast[n].name) = NoNode THEN "VOID"
            ELSE Ast[FindFunction(r, Ast[n].name)].type

TypesRight(r, seen, T) == \A n \in Expression : T[n] = TypeBy(r, seen, n, T)

LEMMA OperatorParts ==
  ASSUME NEW n \in Expression
  PROVE  /\ Kind(n) = "BINARY_OP" => Child(n, 1) \in Parts(n) /\ Child(n, 2) \in Parts(n)
         /\ Kind(n) = "UNARY_OP" => Child(n, 1) \in Parts(n)
<1>1. n \in Node
  BY DEF Expression
<1>2. /\ Kind(n) = "BINARY_OP" => Children(n) = 2
      /\ Kind(n) = "UNARY_OP" => Children(n) = 1
  BY <1>1, AstAssumption DEF WellShaped, WellCounted
<1>. QED  BY <1>2 DEF Parts

LEMMA TypeByIs ==
  ASSUME NEW r \in Roots, NEW seen \in [Node -> VarTypes], NEW n \in Expression,
         NEW T \in [Expression -> DataType]
  PROVE  TypeBy(r, seen, n, T) \in DataType
<1>1. n \in Node /\ Kind(n) \in ExprKind /\ Ast[n].type \in DataType
      /\ Parts(n) \subseteq Expression
  BY ExpressionIs
<1>2. "VOID" \in DataType
  BY DEF DataType
<1>3. CASE Kind(n) = "LITERAL"
  BY <1>1, <1>3 DEF TypeBy
<1>4. CASE Kind(n) = "VAR_REF"
  <2>1. Ast[n].name \in VarName
    BY <1>1, <1>4, AstAssumption
  <2>2. seen[n][Ast[n].name] \in DataType \cup {NoType}
    BY <1>1, <2>1 DEF VarTypes
  <2>3. TypeBy(r, seen, n, T) = IF seen[n][Ast[n].name] = NoType THEN "VOID"
                                ELSE seen[n][Ast[n].name]
    BY <1>4, Zenon DEF TypeBy
  <2>. QED  BY <1>2, <2>2, <2>3
<1>5. CASE Kind(n) = "BINARY_OP"
  <2>1. T[Child(n, 1)] \in DataType /\ T[Child(n, 2)] \in DataType
    BY <1>1, <1>5, OperatorParts
  <2>2. TypeBy(r, seen, n, T) = BinaryType(Ast[n].op, T[Child(n, 1)], T[Child(n, 2)])[1]
    BY <1>5, Zenon DEF TypeBy
  <2>. QED  BY <2>1, <2>2, BinaryIs
<1>6. CASE Kind(n) = "UNARY_OP"
  <2>1. T[Child(n, 1)] \in DataType
    BY <1>1, <1>6, OperatorParts
  <2>2. TypeBy(r, seen, n, T) = UnaryType(Ast[n].op, T[Child(n, 1)])[1]
    BY <1>6, Zenon DEF TypeBy
  <2>. QED  BY <2>1, <2>2, UnaryIs
<1>7. CASE Kind(n) \notin {"LITERAL", "VAR_REF", "BINARY_OP", "UNARY_OP"}
  <2>. DEFINE g == FindFunction(r, Ast[n].name)
  <2>1. TypeBy(r, seen, n, T) = IF g = NoNode THEN "VOID" ELSE Ast[g].type
    BY <1>7, Zenon DEF TypeBy
  <2>2. g = NoNode \/ g \in Node
    BY FindIs
  <2>. HIDE DEF g
  <2>3. g \in Node => Ast[g].type \in DataType
    BY NodeIs
  <2>. QED  BY <1>2, <2>1, <2>2, <2>3
<1>. QED  BY <1>3, <1>4, <1>5, <1>6, <1>7

LEMMA TypesExist ==
  ASSUME NEW r \in Roots, NEW seen \in [Node -> VarTypes]
  PROVE  \E T \in [Expression -> DataType] : TypesRight(r, seen, T)
<1>. DEFINE E == Expression
            V == DataType
            rank == [n \in E |-> Rank[n]]
            F == [p \in [E -> V] \X E |-> TypeBy(r, seen, p[2], p[1])]
<1>1. rank \in [E -> Nat] /\ \A n \in E : rank[n] = Rank[n]
  BY RankIs DEF Expression
<1>2. V # {}
  BY DEF DataType
<1>3. ASSUME NEW f \in [E -> V], NEW n \in E PROVE TypeBy(r, seen, n, f) \in V
  BY TypeByIs
<1>4. /\ F \in [[E -> V] \X E -> V]
      /\ \A f \in [E -> V], n \in E : F[<<f, n>>] = TypeBy(r, seen, n, f)
  <2>. HIDE DEF E, V
  <2>. QED  BY <1>3
<1>5. ASSUME NEW f \in [E -> V], NEW g \in [E -> V], NEW n \in E,
             \A d \in E : rank[d] < rank[n] => f[d] = g[d]
      PROVE  F[<<f, n>>] = F[<<g, n>>]
  <2>1. \A c \in Parts(n) : f[c] = g[c]
    <3>1. n \in Node /\ Parts(n) \subseteq Expression
      BY ExpressionIs
    <3>. QED  BY <1>1, <1>5, <3>1, RankIs
  <2>2. /\ Kind(n) = "BINARY_OP" => /\ f[Child(n, 1)] = g[Child(n, 1)]
                                    /\ f[Child(n, 2)] = g[Child(n, 2)]
        /\ Kind(n) = "UNARY_OP" => f[Child(n, 1)] = g[Child(n, 1)]
    BY <2>1, OperatorParts
  <2>3. TypeBy(r, seen, n, f) = TypeBy(r, seen, n, g)
    <3>1. CASE Kind(n) = "BINARY_OP"
      BY <2>2, <3>1, Zenon DEF TypeBy
    <3>2. CASE Kind(n) = "UNARY_OP"
      BY <2>2, <3>2, Zenon DEF TypeBy
    <3>3. CASE Kind(n) \notin {"BINARY_OP", "UNARY_OP"}
      BY <3>3 DEF TypeBy
    <3>. QED  BY <3>1, <3>2, <3>3
  <2>. QED  BY <1>4, <2>3
<1>. HIDE DEF E, V, rank, F
<1>6. Local(E, V, rank, F)
  BY <1>5 DEF Local
<1>7. PICK f \in [E -> V] : Recurs(E, F, f)
  BY <1>1, <1>2, <1>4, <1>6, Recursion
<1>8. \A n \in E : f[n] = TypeBy(r, seen, n, f)
  BY <1>4, <1>7 DEF Recurs
<1>. QED  BY <1>7, <1>8 DEF E, V, TypesRight

(* What the nodes of the program r see, and the types of its expressions.  *)
Static(r, seen, T) ==
    /\ seen \in [Node -> VarTypes] /\ SeenRight(r, seen)
    /\ T \in [Expression -> DataType] /\ TypesRight(r, seen, T)

LEMMA StaticExists ==
  ASSUME NEW r \in Roots
  PROVE  \E seen, T : Static(r, seen, T)
<1>1. PICK seen \in [Node -> VarTypes] : SeenRight(r, seen)
  BY SeenExists
<1>2. PICK T \in [Expression -> DataType] : TypesRight(r, seen, T)
  BY TypesExist
<1>. QED  BY <1>1, <1>2 DEF Static

-----------------------------------------------------------------------------
(* What an expression without errors is judged to be.                      *)

LEMMA BinaryFits ==
  ASSUME NEW op, NEW t1 \in DataType, NEW t2 \in DataType, ~BinaryType(op, t1, t2)[2]
  PROVE  BinaryTyped(op, t1, t2, BinaryType(op, t1, t2)[1])
<1>. DEFINE b == BinaryType(op, t1, t2)
<1>1. CASE "VOID" \in {t1, t2}
  BY <1>1 DEF BinaryTyped
<1>2. CASE "VOID" \notin {t1, t2} /\ op = "ADD" /\ "STRING" \in {t1, t2}
  <2>1. b = <<"STRING", FALSE>>
    BY <1>2, Zenon DEF BinaryType
  <2>. QED  BY <1>2, <2>1 DEF BinaryTyped
<1>. DEFINE other == "VOID" \notin {t1, t2} /\ ~(op = "ADD" /\ "STRING" \in {t1, t2})
<1>3. CASE other /\ op \in {"ADD", "SUB", "MUL", "DIV"}
  <2>1. b = IF {t1, t2} \subseteq Arith THEN <<Promoted(t1, t2), FALSE>> ELSE <<"VOID", TRUE>>
    BY <1>3, Zenon DEF BinaryType
  <2>2. {t1, t2} \subseteq Arith /\ b[1] = Promoted(t1, t2)
    BY <1>3, <2>1
  <2>. HIDE DEF b
  <2>. QED  BY <1>3, <2>2 DEF BinaryTyped, Arith, Promoted, b
<1>4. CASE other /\ op = "MOD"
  <2>1. b = IF {t1, t2} = {"INT"} THEN <<"INT", FALSE>> ELSE <<"VOID", TRUE>>
    BY <1>4, Zenon DEF BinaryType
  <2>2. {t1, t2} = {"INT"} /\ b[1] = "INT"
    <3>. DEFINE P == {t1, t2} = {"INT"}
    <3>1. b = (IF P THEN <<"INT", FALSE>> ELSE <<"VOID", TRUE>>) /\ ~b[2]
      BY <2>1
    <3>. HIDE DEF P, b
    <3>2. P /\ b[1] = "INT"
      BY <3>1
    <3>. QED  BY <3>2 DEF P
  <2>3. t1 = "INT" /\ t2 = "INT"
    BY <2>2
  <2>. HIDE DEF b
  <2>. QED  BY <1>4, <2>2, <2>3 DEF BinaryTyped, b
<1>5. CASE other /\ op \in RelOp
  <2>1. \/ b = <<"BOOL", ~({t1, t2} \subseteq Ordered)>>
        \/ b = <<"BOOL", t1 # t2>>
    <3>1. \/ op \in {"LT", "GT", "LE", "GE"}
          \/ op \in {"EQ", "NEQ"}
      BY <1>5 DEF RelOp
    <3>. QED  BY <1>5, <3>1, Zenon DEF BinaryType, RelOp
  <2>2. b[1] = "BOOL"
    BY <2>1
  <2>. HIDE DEF b
  <2>. QED  BY <1>5, <2>2 DEF BinaryTyped, b
<1>6. CASE other /\ op \notin {"ADD", "SUB", "MUL", "DIV", "MOD"} \cup RelOp
  <2>1. b = <<"BOOL", {t1, t2} # {"BOOL"}>>
    BY <1>6, Zenon DEF BinaryType, RelOp
  <2>2. {t1, t2} = {"BOOL"} /\ b[1] = "BOOL"
    <3>. DEFINE P == {t1, t2} # {"BOOL"}
    <3>1. b = <<"BOOL", P>> /\ ~b[2]
      BY <2>1
    <3>. HIDE DEF P, b
    <3>2. ~P /\ b[1] = "BOOL"
      BY <3>1
    <3>. QED  BY <3>2 DEF P
  <2>3. t1 = "BOOL" /\ t2 = "BOOL"
    BY <2>2
  <2>. HIDE DEF b
  <2>. QED  BY <1>6, <2>2, <2>3 DEF BinaryTyped, b
<1>. QED  BY <1>1, <1>2, <1>3, <1>4, <1>5, <1>6

LEMMA UnaryFits ==
  ASSUME NEW op, NEW t1, ~UnaryType(op, t1)[2]
  PROVE  UnaryTyped(op, t1, UnaryType(op, t1)[1])
BY DEF UnaryType, UnaryTyped, Arith

LEMMA AcceptsTakes ==
  ASSUME NEW type, NEW got
  PROVE  Accepts(type, got) <=> Takes(type, got)
BY DEF Accepts, Takes, Conforms

LEMMA NoCallError ==
  ASSUME NEW sym \in Symbol, NEW k \in Nat, NEW types \in [1 .. k -> DataType],
         CallErrors(sym, types) = 0
  PROVE  /\ k = Len(sym.params)
         /\ \A i \in 1 .. k : Accepts(sym.params[i], types[i])
<1>. DEFINE bad == {i \in 1 .. Len(types) :
                      i <= Len(sym.params) /\ ~Accepts(sym.params[i], types[i])}
            c == Count(k # Len(sym.params))
<1>1. Len(types) = k /\ Len(sym.params) \in Nat /\ k = Len(sym.params)
  BY CallErrorsAre DEF Symbol
<1>2. bad \in SUBSET (1 .. k) /\ IsFiniteSet(bad) /\ Cardinality(bad) \in Nat
  <2>1. bad \in SUBSET (1 .. k) /\ IsFiniteSet(1 .. k)
    BY <1>1, FS_Interval
  <2>. HIDE DEF bad
  <2>. QED  BY <2>1, FS_Subset, FS_CardinalityType
<1>3. c + Cardinality(bad) = 0 /\ c \in Nat
  <2>1. CallErrors(sym, types) = c + Cardinality(bad)
    BY <1>1 DEF CallErrors
  <2>. QED  BY <2>1, CountNat
<1>4. bad = {}
  <2>. HIDE DEF bad, c
  <2>1. Cardinality(bad) = 0
    BY <1>2, <1>3
  <2>. QED  BY <1>2, <2>1, FS_EmptySet
<1>5. ASSUME NEW i \in 1 .. k PROVE Accepts(sym.params[i], types[i])
  <2>1. i <= Len(sym.params) /\ i \in 1 .. Len(types)
    BY <1>1
  <2>. QED  BY <1>4, <2>1
<1>. QED  BY <1>1, <1>5

NodeJudged(t, judge, n, type) ==
    LET sym    == symtab_lookup(t, Ast[n].name)
        binary == BinaryType(Ast[n].op, judge[Child(n, 1)].type, judge[Child(n, 2)].type)
        unary  == UnaryType(Ast[n].op, judge[Child(n, 1)].type)
    IN  /\ Kind(n) = "LITERAL" => type = Ast[n].type
        /\ Kind(n) = "VAR_REF" => /\ sym.kind \notin {"NONE", "FUNCTION"}
                                  /\ type = sym.type
        /\ Kind(n) = "BINARY_OP" => type = binary[1] /\ ~binary[2]
        /\ Kind(n) = "UNARY_OP" => type = unary[1] /\ ~unary[2]
        /\ Kind(n) = "CALL" =>
              /\ sym.kind = "FUNCTION" /\ type = sym.type
              /\ Len(Ast[n].args) = Len(sym.params)
              /\ \A i \in 1 .. Len(Ast[n].args) :
                    Accepts(sym.params[i], judge[Ast[n].args[i]].type)

LEMMA ComposedClean ==
  ASSUME NEW D, NEW operands, Judgements(D, operands),
         NEW n \in Node, NEW type \in DataType, NEW errors \in Nat,
         Composed(n, type, errors, operands).errors = 0
  PROVE  errors = 0 /\ Composed(n, type, errors, operands).type = type
<1>1. Composition(D, n, type, errors, operands, Composed(n, type, errors, operands))
  BY ComposedIs
<1>. QED  BY <1>1 DEF Composition

LEMMA JudgedClean ==
  ASSUME NEW t \in Seq(Scope), NEW judge \in [Expression -> Judgement],
         NEW n \in Expression, JudgeNode(t, n, Value(judge, n)).errors = 0
  PROVE  NodeJudged(t, judge, n, JudgeNode(t, n, Value(judge, n)).type)
<1>. DEFINE ops == Value(judge, n)
            D   == 1 .. Len(OperandNodes(n))
            sym == symtab_lookup(t, Ast[n].name)
            binary == BinaryType(Ast[n].op, ops[1].type, ops[2].type)
            unary  == UnaryType(Ast[n].op, ops[1].type)
            r == JudgeNode(t, n, ops)
<1>1. /\ n \in Node /\ Kind(n) \in ExprKind
      /\ Len(OperandNodes(n)) \in Nat
      /\ Kind(n) = "BINARY_OP" => Len(OperandNodes(n)) = 2
      /\ Kind(n) = "UNARY_OP" => Len(OperandNodes(n)) = 1
  BY ExpressionIs
<1>3. /\ Judgements(D, ops) /\ DOMAIN ops = D
      /\ \A i \in D : ops[i] = judge[OperandNodes(n)[i]]
  BY ValueIs DEF Value
<1>4. \A i \in D : ops[i] \in Judgement /\ ops[i].type \in DataType
  BY <1>3 DEF Judgements, Judgement
<1>5. sym \in Symbol \cup {NoSymbol}
  BY LookupIs
<1>6. sym.type \in DataType /\ (sym.kind = "FUNCTION" => sym \in Symbol)
  BY <1>5 DEF Symbol, NoSymbol, DataType
<1>7. Judgements({}, <<>>)
  <2>1. <<>> \in [{} -> Judgement]
    OBVIOUS
  <2>2. IsFiniteSet({})
    BY FS_EmptySet
  <2>. QED  BY <2>1, <2>2 DEF Judgements
<1>0. r.errors = 0
  OBVIOUS
<1>. HIDE DEF ops, sym, r, D
<1>8. CASE Kind(n) = "LITERAL"
  <2>1. r.type = Ast[n].type
    <3>1. r = [type |-> Ast[n].type, errors |-> 0, ann |-> <<>>]
      BY <1>8, Zenon DEF JudgeNode, Judged, r
    <3>. QED  BY <3>1
  <2>. QED  BY <1>8, <2>1 DEF NodeJudged, r, ops
<1>9. CASE Kind(n) = "VAR_REF"
  <2>. DEFINE e == Count(sym.kind \in {"NONE", "FUNCTION"})
  <2>1. r = Composed(n, sym.type, e, <<>>)
    BY <1>9, Zenon DEF JudgeNode, r, sym
  <2>2. e \in Nat /\ (e = 0 <=> sym.kind \notin {"NONE", "FUNCTION"})
    BY DEF Count
  <2>. HIDE DEF e
  <2>3. e = 0 /\ r.type = sym.type
    BY <1>0, <1>1, <1>6, <1>7, <2>1, <2>2, ComposedClean
  <2>. QED  BY <1>9, <2>2, <2>3 DEF NodeJudged, r, ops, sym
<1>10. CASE Kind(n) = "BINARY_OP"
  <2>1. r = Composed(n, binary[1], Count(binary[2]), ops)
    BY <1>10, Zenon DEF JudgeNode, r
  <2>2. 1 \in D /\ 2 \in D
    <3>1. Len(OperandNodes(n)) = 2
      BY <1>1, <1>10
    <3>. QED  BY <3>1 DEF D
  <2>3. ops[1].type \in DataType /\ ops[2].type \in DataType
        /\ ops[1] = judge[Child(n, 1)] /\ ops[2] = judge[Child(n, 2)]
    <3>1. OperandNodes(n) = Ast[n].children
      BY <1>10 DEF OperandNodes
    <3>. QED  BY <1>3, <1>4, <2>2, <3>1 DEF Child
  <2>4. binary[1] \in DataType /\ binary[2] \in BOOLEAN
    BY <2>3, BinaryIs
  <2>. DEFINE b == binary
  <2>0. b = BinaryType(Ast[n].op, judge[Child(n, 1)].type, judge[Child(n, 2)].type)
    BY <2>3
  <2>. HIDE DEF binary, b
  <2>5. Count(binary[2]) \in Nat /\ (Count(binary[2]) = 0 <=> ~binary[2])
    BY <2>4, CountIs
  <2>6. ~binary[2] /\ r.type = binary[1]
    BY <1>0, <1>1, <1>3, <2>1, <2>4, <2>5, ComposedClean
  <2>7. ~b[2] /\ r.type = b[1]
    BY <2>6 DEF b
  <2>8. NodeJudged(t, judge, n, r.type)
    BY <1>10, <2>0, <2>7 DEF NodeJudged
  <2>. QED  BY <2>8 DEF r, ops
<1>11. CASE Kind(n) = "UNARY_OP"
  <2>1. r = Composed(n, unary[1], Count(unary[2]), ops)
    BY <1>11, Zenon DEF JudgeNode, r
  <2>2. 1 \in D
    <3>1. Len(OperandNodes(n)) = 1
      BY <1>1, <1>11
    <3>. QED  BY <3>1 DEF D
  <2>3. ops[1].type \in DataType /\ ops[1] = judge[Child(n, 1)]
    <3>1. OperandNodes(n) = Ast[n].children
      BY <1>11 DEF OperandNodes
    <3>. QED  BY <1>3, <1>4, <2>2, <3>1 DEF Child
  <2>4. unary[1] \in DataType /\ unary[2] \in BOOLEAN
    BY <2>3, UnaryIs
  <2>. DEFINE b == unary
  <2>0. b = UnaryType(Ast[n].op, judge[Child(n, 1)].type)
    BY <2>3
  <2>. HIDE DEF unary, b
  <2>5. Count(unary[2]) \in Nat /\ (Count(unary[2]) = 0 <=> ~unary[2])
    BY <2>4, CountIs
  <2>6. ~unary[2] /\ r.type = unary[1]
    BY <1>0, <1>1, <1>3, <2>1, <2>4, <2>5, ComposedClean
  <2>7. ~b[2] /\ r.type = b[1]
    BY <2>6 DEF b
  <2>8. NodeJudged(t, judge, n, r.type)
    BY <1>11, <2>0, <2>7 DEF NodeJudged
  <2>. QED  BY <2>8 DEF r, ops
<1>12. CASE Kind(n) = "CALL" /\ sym.kind # "FUNCTION"
  <2>1. r = Composed(n, "VOID", 1, <<>>)
    BY <1>12, Zenon DEF JudgeNode, r, sym
  <2>2. "VOID" \in DataType /\ 1 \in Nat /\ 1 # 0
    BY DEF DataType
  <2>. QED  BY <1>0, <1>1, <1>7, <2>1, <2>2, ComposedClean
<1>13. CASE Kind(n) = "CALL" /\ sym.kind = "FUNCTION"
  <2>. DEFINE types == [i \in DOMAIN ops |-> ops[i].type]
              e == CallErrors(sym, types)
  <2>1. r = Composed(n, sym.type, e, ops)
    BY <1>13, Zenon DEF JudgeNode, r, sym
  <2>2. types \in [1 .. Len(OperandNodes(n)) -> DataType]
    BY <1>3, <1>4 DEF D
  <2>3. e \in Nat
    <3>. HIDE DEF types
    <3>. QED  BY <1>1, <1>6, <1>13, <2>2, CallErrorsAre
  <2>4. e = 0 /\ r.type = sym.type
    <3>. HIDE DEF e
    <3>. QED  BY <1>0, <1>1, <1>3, <1>6, <2>1, <2>3, ComposedClean
  <2>5. /\ Len(OperandNodes(n)) = Len(sym.params)
        /\ \A i \in 1 .. Len(OperandNodes(n)) : Accepts(sym.params[i], types[i])
    <3>. HIDE DEF types
    <3>. QED  BY <1>1, <1>6, <1>13, <2>2, <2>4, NoCallError
  <2>6. \A i \in D : types[i] = judge[OperandNodes(n)[i]].type
    BY <1>3
  <2>. HIDE DEF types
  <2>7. OperandNodes(n) = Ast[n].args
    BY <1>13 DEF OperandNodes
  <2>8. \A i \in 1 .. Len(Ast[n].args) : Accepts(sym.params[i], judge[Ast[n].args[i]].type)
    BY <2>5, <2>6, <2>7 DEF D
  <2>. QED  BY <1>13, <2>4, <2>5, <2>7, <2>8 DEF NodeJudged, r, ops, sym
<1>. QED
  BY <1>1, <1>8, <1>9, <1>10, <1>11, <1>12, <1>13 DEF ExprKind

LEMMA JudgeRule ==
  ASSUME NEW t \in Seq(Scope), NEW n \in Expression
  PROVE  JudgeOf(t)[n] = JudgeNode(t, n, Value(JudgeOf(t), n))
<1>1. \E f : f = Rule(t, f)
  BY JudgeExists
<1>2. JudgeOf(t) = Rule(t, JudgeOf(t))
  <2>. HIDE DEF Rule
  <2>. QED  BY <1>1 DEF JudgeOf
<1>. QED  BY <1>2 DEF Rule

(* The table t says of the name at node m what the tree does.              *)
Informed(r, seen, t, m) ==
    LET sym == symtab_lookup(t, Ast[m].name)
        g   == FindFunction(r, Ast[m].name)
    IN  /\ Kind(m) = "VAR_REF" /\ sym.kind \notin {"NONE", "FUNCTION"} =>
              sym.type = seen[m][Ast[m].name] /\ sym.type \in DataType
        /\ Kind(m) = "CALL" /\ sym.kind = "FUNCTION" =>
              /\ g # NoNode /\ sym.type = Ast[g].type
              /\ Len(sym.params) = Len(ParamsOf(g))
              /\ \A i \in 1 .. Len(ParamsOf(g)) : sym.params[i] = ParamsOf(g)[i].type

Known(r, seen, t, e) == \A m \in Subtree(e) : Informed(r, seen, t, m)

Right(r, f, seen, T, t, n) ==
    /\ JudgeOf(t)[n].type = T[n]
    /\ ExprTyped(r, f, T, seen, n)
    /\ \A m \in DOMAIN JudgeOf(t)[n].ann : JudgeOf(t)[n].ann[m] = T[m]

LEMMA TypeInIs ==
  ASSUME NEW r, NEW seen, NEW T, Static(r, seen, T), NEW n \in Expression
  PROVE  TypeIn(T, n) = T[n] /\ HasType(T, n)
<1>1. T[n] = TypeBy(r, seen, n, T) /\ DOMAIN T = Expression
  BY DEF Static, TypesRight
<1>2. Kind(n) = "LITERAL" => T[n] = Ast[n].type
  BY <1>1 DEF TypeBy
<1>. QED  BY <1>1, <1>2 DEF TypeIn, HasType

LEMMA NodeIsRight ==
  ASSUME NEW r, NEW f, NEW seen, NEW T, Static(r, seen, T), NEW t \in Seq(Scope),
         NEW n \in Expression, Passes(f, seen, n), Informed(r, seen, t, n),
         JudgeOf(t)[n].errors = 0,
         \A c \in Parts(n) : JudgeOf(t)[c].type = T[c]
  PROVE  JudgeOf(t)[n].type = T[n] /\ ExprRule(r, f, T, seen, n)
<1>. DEFINE judge == JudgeOf(t)
            type == judge[n].type
            sym == symtab_lookup(t, Ast[n].name)
            g == FindFunction(r, Ast[n].name)
<1>1. judge \in [Expression -> Judgement]
  BY JudgeIs
<1>2. judge[n] = JudgeNode(t, n, Value(judge, n)) /\ judge[n].errors = 0
  BY JudgeRule
<1>. HIDE DEF judge
<1>3. NodeJudged(t, judge, n, type)
  BY <1>1, <1>2, JudgedClean
<1>4. /\ n \in Node /\ Kind(n) \in ExprKind /\ Parts(n) \subseteq Expression
      /\ Kind(n) = "CALL" => Parts(n) = {Ast[n].args[i] : i \in 1 .. Len(Ast[n].args)}
  BY ExpressionIs DEF OperandNodes
<1>5. \A c \in Parts(n) : judge[c].type = T[c] /\ TypeIn(T, c) = T[c] /\ T[c] \in DataType
  <2>1. \A c \in Parts(n) : TypeIn(T, c) = T[c]
    BY <1>4, TypeInIs
  <2>2. \A c \in Parts(n) : T[c] \in DataType
    BY <1>4 DEF Static
  <2>. QED  BY <2>1, <2>2 DEF judge
<1>6. T[n] = TypeBy(r, seen, n, T) /\ HasType(T, n)
  BY TypeInIs DEF Static, TypesRight
<1>7. LooseInt(f, seen[n]) /\ \A c \in Parts(n) : seen[c] = seen[n]
  BY <1>4 DEF Passes
<1>. DEFINE Rest == /\ HasType(T, n) /\ \A c \in Parts(n) : seen[c] = seen[n]
<1>8. Rest
  BY <1>6, <1>7
<1>. HIDE DEF type, Rest
<1>9. CASE Kind(n) = "LITERAL"
  <2>1. type = T[n]
    BY <1>3, <1>6, <1>9 DEF NodeJudged, TypeBy
  <2>. QED  BY <1>8, <1>9, <2>1 DEF ExprRule, Rest, type, judge
<1>10. CASE Kind(n) = "VAR_REF"
  <2>1. sym.kind \notin {"NONE", "FUNCTION"} /\ type = sym.type
    BY <1>3, <1>10 DEF NodeJudged
  <2>2. sym.type = seen[n][Ast[n].name] /\ sym.type \in DataType
    BY <1>10, <2>1 DEF Informed
  <2>3. sym.type # NoType
    BY <2>2 DEF DataType, NoType
  <2>4. T[n] = IF seen[n][Ast[n].name] = NoType THEN "VOID" ELSE seen[n][Ast[n].name]
    BY <1>6, <1>10, Zenon DEF TypeBy
  <2>5. TypeOfVariable(f, seen[n], Ast[n].name) = seen[n][Ast[n].name]
    BY <1>7 DEF TypeOfVariable, LooseInt
  <2>6. type = T[n] /\ T[n] = TypeOfVariable(f, seen[n], Ast[n].name)
    <3>. HIDE DEF sym
    <3>. QED  BY <2>1, <2>2, <2>3, <2>4, <2>5
  <2>. QED  BY <1>8, <1>10, <2>6 DEF ExprRule, Rest, type, judge
<1>11. CASE Kind(n) = "BINARY_OP"
  <2>. DEFINE c1 == Child(n, 1)
              c2 == Child(n, 2)
              b == BinaryType(Ast[n].op, T[c1], T[c2])
  <2>1. c1 \in Parts(n) /\ c2 \in Parts(n)
    BY <1>11, OperatorParts
  <2>2. /\ judge[c1].type = T[c1] /\ TypeIn(T, c1) = T[c1] /\ T[c1] \in DataType
        /\ judge[c2].type = T[c2] /\ TypeIn(T, c2) = T[c2] /\ T[c2] \in DataType
    BY <1>5, <2>1
  <2>3. type = b[1] /\ ~b[2]
    BY <1>3, <1>11, <2>2 DEF NodeJudged
  <2>4. T[n] = b[1]
    BY <1>6, <1>11, Zenon DEF TypeBy
  <2>5. BinaryTyped(Ast[n].op, T[c1], T[c2], b[1])
    BY <2>2, <2>3, BinaryFits
  <2>. HIDE DEF b
  <2>6. BinaryTyped(Ast[n].op, TypeIn(T, c1), TypeIn(T, c2), T[n])
    BY <2>2, <2>4, <2>5
  <2>. QED  BY <1>8, <1>11, <2>3, <2>4, <2>6 DEF ExprRule, Rest, type, judge
<1>12. CASE Kind(n) = "UNARY_OP"
  <2>. DEFINE c1 == Child(n, 1)
              b == UnaryType(Ast[n].op, T[c1])
  <2>1. c1 \in Parts(n)
    BY <1>12, OperatorParts
  <2>2. judge[c1].type = T[c1] /\ TypeIn(T, c1) = T[c1] /\ T[c1] \in DataType
    BY <1>5, <2>1
  <2>3. type = b[1] /\ ~b[2]
    BY <1>3, <1>12, <2>2 DEF NodeJudged
  <2>4. T[n] = b[1]
    BY <1>6, <1>12, Zenon DEF TypeBy
  <2>5. UnaryTyped(Ast[n].op, T[c1], b[1])
    BY <2>3, UnaryFits
  <2>. HIDE DEF b
  <2>6. UnaryTyped(Ast[n].op, TypeIn(T, c1), T[n])
    BY <2>2, <2>4, <2>5
  <2>. QED  BY <1>8, <1>12, <2>3, <2>4, <2>6 DEF ExprRule, Rest, type, judge
<1>13. CASE Kind(n) = "CALL"
  <2>1. /\ sym.kind = "FUNCTION" /\ type = sym.type
        /\ Len(Ast[n].args) = Len(sym.params)
        /\ \A i \in 1 .. Len(Ast[n].args) :
              Accepts(sym.params[i], judge[Ast[n].args[i]].type)
    BY <1>3, <1>13 DEF NodeJudged
  <2>2. /\ g # NoNode /\ sym.type = Ast[g].type
        /\ Len(sym.params) = Len(ParamsOf(g))
        /\ \A i \in 1 .. Len(ParamsOf(g)) : sym.params[i] = ParamsOf(g)[i].type
    BY <1>13, <2>1 DEF Informed
  <2>3. T[n] = Ast[g].type
    <3>1. T[n] = IF g = NoNode THEN "VOID" ELSE Ast[g].type
      BY <1>6, <1>13, Zenon DEF TypeBy
    <3>. QED  BY <2>2, <3>1
  <2>. HIDE DEF sym, g
  <2>4. ASSUME NEW i \in 1 .. Len(Ast[n].args)
        PROVE  Takes(ParamsOf(g)[i].type, TypeIn(T, Ast[n].args[i]))
    <3>1. Ast[n].args[i] \in Parts(n)
      BY <1>4, <1>13
    <3>2. judge[Ast[n].args[i]].type = TypeIn(T, Ast[n].args[i])
      BY <1>5, <3>1
    <3>3. i \in 1 .. Len(ParamsOf(g))
      BY <2>1, <2>2
    <3>. QED  BY <2>1, <2>2, <3>2, <3>3, AcceptsTakes
  <2>5. CallTyped(r, T, n)
    BY <2>1, <2>2, <2>3, <2>4 DEF CallTyped, g
  <2>6. type = T[n]
    BY <2>1, <2>2, <2>3
  <2>. QED  BY <1>8, <1>13, <2>5, <2>6 DEF ExprRule, Rest, type, judge
<1>. QED  BY <1>4, <1>9, <1>10, <1>11, <1>12, <1>13 DEF ExprKind

LEMMA ExpressionIsRight ==
  ASSUME NEW r, NEW f, NEW seen, NEW T, Static(r, seen, T), NEW t \in Seq(Scope),
         NEW e \in Expression, Spread(f, seen, e), Known(r, seen, t, e),
         JudgeOf(t)[e].errors = 0
  PROVE  Right(r, f, seen, T, t, e)
<1>. DEFINE Given(n) == /\ n \in Expression /\ Spread(f, seen, n) /\ Known(r, seen, t, n)
                        /\ JudgeOf(t)[n].errors = 0
            S == {n \in Node : Given(n) => Right(r, f, seen, T, t, n)}
<1>1. ASSUME NEW n \in Node, Parts(n) \subseteq S, Given(n)
      PROVE  Right(r, f, seen, T, t, n)
  <2>1. /\ n \in Subtree(n) /\ Subtree(n) = {n} \cup UNION {Subtree(c) : c \in Parts(n)}
        /\ \A c \in Parts(n) : c \in Expression /\ Subtree(c) \subseteq Subtree(n)
    BY <1>1, ExpressionTree, SubtreeIs
  <2>2. Follows(t, JudgeOf(t), n, JudgeOf(t)[n])
    BY <1>1, JudgeIs
  <2>3. ASSUME NEW c \in Parts(n) PROVE Right(r, f, seen, T, t, c)
    <3>1. c \in Expression /\ Spread(f, seen, c) /\ Known(r, seen, t, c)
      BY <1>1, <2>1 DEF Spread, Known
    <3>2. JudgeOf(t)[c].errors = 0
      BY <1>1, <2>2 DEF Follows
    <3>. QED  BY <1>1, <3>1, <3>2
  <2>4. Passes(f, seen, n) /\ Informed(r, seen, t, n)
    BY <1>1, <2>1 DEF Spread, Known
  <2>5. \A c \in Parts(n) : JudgeOf(t)[c].type = T[c]
    BY <2>3 DEF Right
  <2>6. JudgeOf(t)[n].type = T[n] /\ ExprRule(r, f, T, seen, n)
    BY <1>1, <2>4, <2>5, NodeIsRight
  <2>7. ExprTyped(r, f, T, seen, n)
    <3>1. \A c \in Parts(n) : \A m \in Subtree(c) : ExprRule(r, f, T, seen, m)
      BY <2>3 DEF Right, ExprTyped
    <3>. QED  BY <2>1, <2>6, <3>1 DEF ExprTyped
  <2>8. ASSUME NEW m \in DOMAIN JudgeOf(t)[n].ann
        PROVE  JudgeOf(t)[n].ann[m] = T[m]
    <3>1. \/ m = n /\ JudgeOf(t)[n].ann[m] = JudgeOf(t)[n].type
          \/ \E c \in Parts(n) : /\ m \in DOMAIN JudgeOf(t)[c].ann
                                 /\ JudgeOf(t)[n].ann[m] = JudgeOf(t)[c].ann[m]
      BY <2>2 DEF Follows
    <3>. QED  BY <2>3, <2>6, <3>1 DEF Right
  <2>. QED  BY <2>6, <2>7, <2>8 DEF Right
<1>2. \A n \in Node : Parts(n) \subseteq S => n \in S
  <2>. SUFFICES ASSUME NEW n \in Node, Parts(n) \subseteq S, Given(n)
                PROVE  Right(r, f, seen, T, t, n)
    OBVIOUS
  <2>. HIDE DEF S, Given
  <2>. QED  BY <1>1
<1>3. e \in S
  <2>1. e \in Node
    BY DEF Expression
  <2>. HIDE DEF S
  <2>. QED  BY <1>2, <2>1, TreeInduction
<1>. QED  BY <1>3

-----------------------------------------------------------------------------
(* What the symbol table says, where certain types are seen.               *)

(* The scopes from the parameters' to d show what is seen.                 *)
Visible(t, d, f, types) ==
    \A x \in VarName \ LooseNames(f) :
       /\ types[x] = NoType => \A c \in 2 .. d : x \notin DOMAIN t[c]
       /\ types[x] # NoType =>
             \E c \in 2 .. d : /\ x \in DOMAIN t[c] /\ t[c][x].type = types[x]
                               /\ \A b \in 2 .. d : b > c => x \notin DOMAIN t[b]

LooseTyped(t, f) ==
    \A d \in 2 .. Len(t) : \A x \in DOMAIN t[d] : x \in LooseNames(f) => t[d][x].type = "INT"

OnlyGlobal(t) == HoldsFunctions(t[1]) /\ \A d \in 2 .. Len(t) : HasNoFunction(t[d])

Scoped(t, f, types) ==
    /\ t \in Seq(Scope) /\ t # <<>> /\ OnlyGlobal(t)
    /\ Visible(t, Len(t), f, types) /\ LooseTyped(t, f)

LEMMA LookupVariable ==
  ASSUME NEW t, NEW f, NEW types, Scoped(t, f, types), LooseInt(f, types),
         NEW x \in VarName, symtab_lookup(t, x).kind \notin {"NONE", "FUNCTION"}
  PROVE  symtab_lookup(t, x).type = types[x] /\ symtab_lookup(t, x).type \in DataType
<1>. DEFINE sym == symtab_lookup(t, x)
<1>1. t \in Seq(Scope) /\ Len(t) \in Nat
  BY DEF Scoped
<1>2. PICK d \in 1 .. Len(t) : /\ x \in DOMAIN t[d] /\ sym = t[d][x] /\ sym \in Symbol
                               /\ \A c \in 1 .. Len(t) : x \in DOMAIN t[c] => c <= d
  <2>1. sym # NoSymbol
    BY DEF NoSymbol
  <2>. QED  BY <1>1, <2>1, LookupInner
<1>3. sym.type \in DataType /\ sym.kind # "FUNCTION"
  BY <1>2 DEF Symbol
<1>. HIDE DEF sym
<1>4. d # 1
  <2>1. CASE d = 1
    <3>1. HoldsFunctions(t[1])
      BY DEF Scoped, OnlyGlobal
    <3>2. sym = Signature(Ast[FindFunction(root, x)].type, ParamTypes(FindFunction(root, x)))
      BY <1>2, <2>1, <3>1 DEF HoldsFunctions
    <3>. QED  BY <1>3, <3>2 DEF Signature
  <2>. QED  BY <2>1
<1>5. d \in 2 .. Len(t) /\ d \in Int
  BY <1>1, <1>2, <1>4
<1>6. CASE x \in LooseNames(f)
  <2>1. sym.type = "INT"
    BY <1>2, <1>5, <1>6 DEF Scoped, LooseTyped
  <2>. QED  BY <1>3, <1>6, <2>1 DEF LooseInt, sym
<1>7. CASE x \notin LooseNames(f)
  <2>1. types[x] # NoType
    BY <1>2, <1>5, <1>7 DEF Scoped, Visible
  <2>2. PICK c \in 2 .. Len(t) : /\ x \in DOMAIN t[c] /\ t[c][x].type = types[x]
                                 /\ \A b \in 2 .. Len(t) : b > c => x \notin DOMAIN t[b]
    BY <1>7, <2>1 DEF Scoped, Visible
  <2>3. c = d
    <3>1. c \in 1 .. Len(t) /\ c \in Int
      BY <1>1
    <3>2. c <= d
      BY <1>2, <2>2, <3>1
    <3>3. ~(d > c)
      BY <1>2, <1>5, <2>2
    <3>. QED  BY <1>5, <3>1, <3>2, <3>3
  <2>. QED  BY <1>2, <1>3, <2>2, <2>3 DEF sym
<1>. QED  BY <1>6, <1>7

LEMMA LookupFunction ==
  ASSUME root \in Roots, NEW t \in Seq(Scope), OnlyGlobal(t), NEW x,
         symtab_lookup(t, x).kind = "FUNCTION"
  PROVE  LET g == FindFunction(root, x)
         IN  /\ g \in Node /\ g # NoNode /\ g \in FunctionsOf(root)
             /\ symtab_lookup(t, x) = Signature(Ast[g].type, ParamTypes(g))
<1>. DEFINE sym == symtab_lookup(t, x)
            g == FindFunction(root, x)
<1>1. Len(t) \in Nat
  OBVIOUS
<1>2. PICK d \in 1 .. Len(t) : x \in DOMAIN t[d] /\ sym = t[d][x]
  <2>1. sym # NoSymbol
    BY DEF NoSymbol
  <2>. QED  BY <2>1, LookupInner
<1>3. sym.kind = "FUNCTION"
  OBVIOUS
<1>. HIDE DEF sym
<1>4. d = 1
  <2>1. CASE d # 1
    <3>1. d \in 2 .. Len(t)
      BY <1>1, <2>1
    <3>. QED  BY <1>2, <1>3, <3>1 DEF OnlyGlobal, HasNoFunction
  <2>. QED  BY <2>1
<1>5. x \in DOMAIN t[1] /\ HoldsFunctions(t[1])
  BY <1>2, <1>4 DEF OnlyGlobal
<1>6. sym = Signature(Ast[g].type, ParamTypes(g))
  BY <1>2, <1>4, <1>5 DEF HoldsFunctions
<1>7. x \in {Ast[Child(root, i)].name : i \in 1 .. Children(root)}
  BY <1>5 DEF HoldsFunctions
<1>8. g \in Node
  BY <1>7, FunctionsAre
<1>9. NoNode \notin Node
  BY AstAssumption
<1>10. g # NoNode /\ g \in FunctionsOf(root)
  BY <1>8, <1>9, FindIs
<1>. QED  BY <1>6, <1>8, <1>10 DEF sym

LEMMA InformedCall ==
  ASSUME root \in Roots, KeepsClear(root, MaxParams), NEW t \in Seq(Scope), OnlyGlobal(t),
         NEW seen, NEW m \in Node, Kind(m) = "CALL"
  PROVE  Informed(root, seen, t, m)
<1>. DEFINE sym == symtab_lookup(t, Ast[m].name)
            g   == FindFunction(root, Ast[m].name)
<1>1. ASSUME sym.kind = "FUNCTION"
      PROVE  /\ g # NoNode /\ sym.type = Ast[g].type
             /\ Len(sym.params) = Len(ParamsOf(g))
             /\ \A i \in 1 .. Len(ParamsOf(g)) : sym.params[i] = ParamsOf(g)[i].type
  <2>1. /\ g \in Node /\ g # NoNode /\ g \in FunctionsOf(root)
        /\ sym = Signature(Ast[g].type, ParamTypes(g))
    BY <1>1, LookupFunction
  <2>. HIDE DEF sym, g
  <2>2. sym.type = Ast[g].type /\ sym.params = ParamTypes(g)
    BY <2>1 DEF Signature
  <2>3. Len(ParamsOf(g)) <= MaxParams
    BY <2>1 DEF KeepsClear
  <2>4. ParamsOf(g) \in Seq(Param) /\ ParamsOf(g) = Ast[g].params
    BY <2>1, NodeIs DEF ParamsOf
  <2>5. (IF Len(Ast[g].params) < MaxParams THEN Len(Ast[g].params) ELSE MaxParams)
            = Len(ParamsOf(g))
    <3>1. Len(ParamsOf(g)) \in Nat
      BY <2>4
    <3>. QED  BY <2>3, <2>4, <3>1, MaxParamsAssumption
  <2>6. ParamTypes(g) = [i \in 1 .. Len(ParamsOf(g)) |-> ParamsOf(g)[i].type]
    BY <2>5 DEF ParamTypes, ParamsOf
  <2>7. Len(ParamsOf(g)) \in Nat
    BY <2>4
  <2>. QED  BY <2>1, <2>2, <2>6, <2>7
<1>2. Kind(m) # "VAR_REF"
  OBVIOUS
<1>. QED  BY <1>1, <1>2 DEF Informed

LEMMA SeenSame ==
  ASSUME NEW f, NEW seen, NEW e \in Expression, Spread(f, seen, e)
  PROVE  \A m \in Subtree(e) : seen[m] = seen[e]
<1>. DEFINE S == {n \in Node : n \in Expression /\ Spread(f, seen, n) =>
                                  \A m \in Subtree(n) : seen[m] = seen[n]}
<1>1. ASSUME NEW n \in Node, Parts(n) \subseteq S, n \in Expression, Spread(f, seen, n)
      PROVE  \A m \in Subtree(n) : seen[m] = seen[n]
  <2>1. /\ n \in Subtree(n) /\ Subtree(n) = {n} \cup UNION {Subtree(c) : c \in Parts(n)}
        /\ \A c \in Parts(n) : c \in Expression /\ Subtree(c) \subseteq Subtree(n)
        /\ Kind(n) \in ExprKind
    BY <1>1, ExpressionTree, ExpressionIs, SubtreeIs
  <2>2. \A c \in Parts(n) : Spread(f, seen, c) /\ seen[c] = seen[n]
    BY <1>1, <2>1 DEF Spread, Passes
  <2>3. \A c \in Parts(n) : \A m \in Subtree(c) : seen[m] = seen[n]
    BY <1>1, <2>1, <2>2
  <2>. QED  BY <2>1, <2>3
<1>2. \A n \in Node : Parts(n) \subseteq S => n \in S
  <2>. SUFFICES ASSUME NEW n \in Node, Parts(n) \subseteq S, n \in Expression,
                       Spread(f, seen, n)
                PROVE  \A m \in Subtree(n) : seen[m] = seen[n]
    OBVIOUS
  <2>. HIDE DEF S
  <2>. QED  BY <1>1
<1>3. e \in S
  <2>1. e \in Node
    BY DEF Expression
  <2>. HIDE DEF S
  <2>. QED  BY <1>2, <2>1, TreeInduction
<1>. QED  BY <1>3

LEMMA KnownHere ==
  ASSUME root \in Roots, KeepsClear(root, MaxParams), NEW f, NEW seen, NEW t,
         NEW e \in Expression, Spread(f, seen, e), Scoped(t, f, seen[e])
  PROVE  Known(root, seen, t, e)
<1>1. /\ Subtree(e) \subseteq Expression
      /\ \A m \in Subtree(e) : seen[m] = seen[e]
      /\ LooseInt(f, seen[e])
  <2>1. Subtree(e) \subseteq Expression /\ e \in Subtree(e)
    BY ExpressionTree
  <2>2. Passes(f, seen, e)
    BY <2>1 DEF Spread
  <2>. QED  BY <2>1, <2>2, SeenSame DEF Passes
<1>2. t \in Seq(Scope) /\ OnlyGlobal(t)
  BY DEF Scoped
<1>3. ASSUME NEW m \in Subtree(e) PROVE Informed(root, seen, t, m)
  <2>1. m \in Node
    BY <1>1 DEF Expression
  <2>2. CASE Kind(m) = "CALL"
    BY <1>2, <2>1, <2>2, InformedCall
  <2>3. CASE Kind(m) = "VAR_REF"
    <3>1. Ast[m].name \in VarName
      BY <2>1, <2>3, AstAssumption
    <3>2. symtab_lookup(t, Ast[m].name).kind \notin {"NONE", "FUNCTION"} =>
             /\ symtab_lookup(t, Ast[m].name).type = seen[e][Ast[m].name]
             /\ symtab_lookup(t, Ast[m].name).type \in DataType
      BY <1>1, <3>1, LookupVariable
    <3>3. seen[m] = seen[e]
      BY <1>1
    <3>. QED  BY <2>3, <3>2, <3>3 DEF Informed
  <2>4. CASE Kind(m) \notin {"CALL", "VAR_REF"}
    BY <2>4 DEF Informed
  <2>. QED  BY <2>2, <2>3, <2>4
<1>. QED  BY <1>3 DEF Known

LEMMA LookupInserted ==
  ASSUME tab \in Seq(Scope), Len(tab) \in Nat \ {0}, NEW name, NEW symbol,
         NEW x, x # name
  PROVE  symtab_lookup(symtab_insert(tab, name, symbol), x) = symtab_lookup(tab, x)
<1>. DEFINE t == symtab_insert(tab, name, symbol)
<1>1. /\ Len(t) = Len(tab)
      /\ \A d \in 1 .. Len(tab) : /\ x \in DOMAIN t[d] <=> x \in DOMAIN tab[d]
                                  /\ x \in DOMAIN tab[d] => t[d][x] = tab[d][x]
  <2>1. CASE DeclaredHere(tab, name)
    BY <2>1 DEF symtab_insert
  <2>2. CASE ~DeclaredHere(tab, name)
    <3>. DEFINE scope == [n \in DOMAIN Current(tab) \cup {name} |->
                             IF n \in DOMAIN Current(tab) THEN Current(tab)[n] ELSE symbol]
    <3>1. t = [tab EXCEPT ![Len(tab)] = scope]
      BY <2>2 DEF symtab_insert
    <3>2. /\ x \in DOMAIN scope <=> x \in DOMAIN tab[Len(tab)]
          /\ x \in DOMAIN tab[Len(tab)] => scope[x] = tab[Len(tab)][x]
      BY DEF Current
    <3>. HIDE DEF scope, t
    <3>3. Len(t) = Len(tab) /\ t[Len(tab)] = scope
          /\ \A d \in 1 .. Len(tab) : d # Len(tab) => t[d] = tab[d]
      BY <3>1
    <3>. QED  BY <3>2, <3>3
  <2>. QED  BY <2>1, <2>2
<1>. HIDE DEF t
<1>2. {d \in 1 .. Len(t) : x \in DOMAIN t[d]} = {d \in 1 .. Len(tab) : x \in DOMAIN tab[d]}
  BY <1>1
<1>. DEFINE having == {d \in 1 .. Len(tab) : x \in DOMAIN tab[d]}
            k == CHOOSE d \in having : d \in having /\ \A c \in having : c <= d
<1>3. symtab_lookup(t, x) = IF having = {} THEN NoSymbol ELSE t[k][x]
  <2>. DEFINE others == {d \in 1 .. Len(t) : x \in DOMAIN t[d]}
  <2>1. symtab_lookup(t, x) =
           IF others = {} THEN NoSymbol
           ELSE t[CHOOSE d \in others : d \in others /\ \A c \in others : c <= d][x]
    BY DEF symtab_lookup
  <2>2. others = having
    BY <1>2
  <2>. HIDE DEF others, having
  <2>. QED  BY <2>1, <2>2
<1>4. symtab_lookup(tab, x) = IF having = {} THEN NoSymbol ELSE tab[k][x]
  BY DEF symtab_lookup
<1>5. CASE having # {}
  <2>1. \E d \in having : d \in having /\ \A c \in having : c <= d
    <3>1. \E d \in 1 .. Len(tab) : /\ x \in DOMAIN tab[d]
                                   /\ \A c \in 1 .. Len(tab) : x \in DOMAIN tab[c] => c <= d
      BY <1>5, LookupInner
    <3>. QED  BY <3>1
  <2>2. k \in having
    <3>. HIDE DEF having
    <3>. QED  BY <2>1
  <2>. HIDE DEF k
  <2>3. t[k][x] = tab[k][x]
    BY <1>1, <2>2
  <2>. QED  BY <1>3, <1>4, <1>5, <2>3 DEF t
<1>. QED  BY <1>3, <1>4, <1>5 DEF t

(* The same for the initializer of a variable that is just declared.       *)
LEMMA KnownDeclared ==
  ASSUME CheckInv, KeepsClear(root, MaxParams), NEW f, NEW seen,
         NEW e \in Expression, Spread(f, seen, e), Scoped(tab, f, seen[e]), Len(tab) >= 2,
         NEW name \in STRING, NEW type \in DataType,
         \A m \in Subtree(e) : Kind(m) = "VAR_REF" => Ast[m].name # name
  PROVE  Known(root, seen, symtab_insert(tab, name, Variable(type)), e)
<1>. DEFINE t == symtab_insert(tab, name, Variable(type))
<1>1. Known(root, seen, tab, e)
  BY KnownHere DEF CheckInv
<1>2. /\ t \in Seq(Scope) /\ Len(t) = Len(tab) /\ t[1] = tab[1]
      /\ \A d \in 2 .. Len(t) : HasNoFunction(t[d])
  BY Inserting DEF Scoped, OnlyGlobal
<1>3. OnlyGlobal(t)
  BY <1>2 DEF Scoped, OnlyGlobal
<1>4. tab \in Seq(Scope) /\ Len(tab) \in Nat \ {0}
  BY TabNotEmpty DEF CheckInv
<1>5. \A x : x # name => symtab_lookup(t, x) = symtab_lookup(tab, x)
  BY <1>4, LookupInserted
<1>. HIDE DEF t
<1>6. ASSUME NEW m \in Subtree(e) PROVE Informed(root, seen, t, m)
  <2>1. m \in Node
    BY ExpressionTree DEF Expression
  <2>2. CASE Kind(m) = "CALL"
    BY <1>2, <1>3, <2>1, <2>2, InformedCall DEF CheckInv
  <2>3. CASE Kind(m) # "CALL"
    <3>1. Informed(root, seen, tab, m)
      BY <1>1 DEF Known
    <3>2. Kind(m) = "VAR_REF" => symtab_lookup(t, Ast[m].name) = symtab_lookup(tab, Ast[m].name)
      BY <1>5
    <3>. QED  BY <2>3, <3>1, <3>2 DEF Informed
  <2>. QED  BY <2>2, <2>3
<1>. QED  BY <1>6 DEF Known, t

-----------------------------------------------------------------------------
(* The traversal is in one function; what is open around it shows what the *)
(* nodes it is in see, and what it has left is well typed.                 *)

Before(f, seen, n, i) ==
    IF Kind(n) = "BLOCK" /\ i > 1 THEN SeenAfter(f, seen, Child(n, i - 1)) ELSE seen[n]

(* What is seen where the activation at k of the traversal s is.           *)
Now(s, seen, k) ==
    IF k = 2 THEN seen[Child(s[2].n, 1)]
    ELSE IF k < Len(s) THEN seen[s[k + 1].n]
    ELSE Before(s[2].n, seen, s[k].n, s[k].i)

Shows(s, t, seen, k) ==
    s[2].i > 0 => Visible(t, Depth(s, k), s[2].n, Now(s, seen, k))

Shown(s, t, seen) ==
    /\ Len(s) >= 2 =>
          /\ LooseTyped(t, s[2].n)
          /\ s[2].i > 0 => ParamsSeen(s[2].n, seen[Child(s[2].n, 1)])
    /\ \A k \in 2 .. Len(s) : Shows(s, t, seen, k)

TreeTyped(f, T, seen, x) == \A m \in Nodes(x, StmtKind) : StmtRule(root, f, T, seen, m)

ChildTyped(f, T, seen, n, i) ==
    IF Kind(n) = "PROGRAM" THEN FunctionTyped(root, Child(n, i), T, seen)
    ELSE IF i \in ExprChildren(n) THEN ExprTyped(root, f, T, seen, Child(n, i))
    ELSE TreeTyped(f, T, seen, Child(n, i))

TypedSoFar(s, T, seen) ==
    \A k \in 1 .. Len(s) : \A i \in 1 .. Children(s[k].n) :
       i < s[k].i /\ (k = Len(s) \/ i # s[k].i - 1) =>
          ChildTyped(s[2].n, T, seen, s[k].n, i)

LEMMA OnStack ==
  ASSUME CheckInv, Chain(todo), Len(todo) >= 2
  PROVE  /\ todo[2].n \in FunctionsOf(root) /\ todo[2].n \in Node
         /\ Len(todo) > 2 => todo[2].i = 2
         /\ \A k \in 3 .. Len(todo) : todo[k].n \in Subtree(Child(todo[2].n, 1))
<1>. DEFINE f == todo[2].n
            b == Child(f, 1)
            N == Len(todo)
            Bad == {k \in 3 .. N : todo[k].n \notin Subtree(b)}
<1>1. /\ N \in Nat /\ N >= 2 /\ todo[1].n = root /\ root \in Roots /\ todo # <<>>
      /\ \A k \in 1 .. N - 1 : /\ todo[k].i - 1 \in 1 .. Children(todo[k].n)
                               /\ todo[k + 1].n = Child(todo[k].n, todo[k].i - 1)
  <2>1. todo \in Seq(Activation) /\ (todo # <<>> => todo[1].n = root) /\ root \in Roots
    BY DEF CheckInv, Path
  <2>2. N \in Nat /\ N >= 2 /\ todo # <<>>
    BY <2>1
  <2>. QED  BY <2>1, <2>2 DEF Chain
<1>2. f \in FunctionsOf(root)
  <2>1. 1 \in 1 .. N - 1
    BY <1>1
  <2>2. f = Child(root, todo[1].i - 1) /\ todo[1].i - 1 \in 1 .. Children(root)
    BY <1>1, <2>1
  <2>. QED  BY <2>2 DEF FunctionsOf
<1>3. f \in Node /\ Children(f) = 1 /\ b \in Node /\ b \in Subtree(b)
  <2>1. f \in Node /\ Children(f) = 1 /\ b \in Node
    BY <1>1, <1>2, FunctionIs
  <2>. HIDE DEF b
  <2>. QED  BY <2>1, SubtreeIs
<1>4. ASSUME N > 2 PROVE todo[2].i = 2 /\ todo[3].n = b
  <2>1. 2 \in 1 .. N - 1
    BY <1>1, <1>4
  <2>2. todo[2].i - 1 \in 1 .. 1 /\ todo[3].n = Child(f, todo[2].i - 1)
    <3>1. /\ todo[2].i - 1 \in 1 .. Children(todo[2].n)
          /\ todo[2 + 1].n = Child(todo[2].n, todo[2].i - 1)
      BY <1>1, <2>1
    <3>. QED  BY <1>3, <3>1
  <2>3. todo[2] \in Activation
    BY <2>1, <1>1, ElementOfSeq DEF CheckInv, Path
  <2>4. todo[2].i \in Nat
    BY <2>3 DEF Activation
  <2>. QED  BY <2>2, <2>4
<1>. HIDE DEF f, b
<1>5. Bad = {}
  <2>1. CASE Bad # {}
    <3>1. Bad \in SUBSET Nat
      BY <1>1
    <3>. HIDE DEF Bad
    <3>2. PICK x \in Bad : \A y \in Bad : x <= y
      BY <2>1, <3>1, LeastOf
    <3>3. x \in 3 .. N /\ todo[x].n \notin Subtree(b)
      BY <3>2 DEF Bad
    <3>4. x # 3
      BY <1>1, <1>3, <1>4, <3>3
    <3>5. x - 1 \in 3 .. N /\ x - 1 \in 1 .. N - 1 /\ ~(x <= x - 1) /\ (x - 1) + 1 = x
      BY <1>1, <3>3, <3>4
    <3>6. todo[x - 1].n \in Subtree(b)
      <4>1. x - 1 \notin Bad
        BY <3>2, <3>5
      <4>. QED  BY <3>5, <4>1 DEF Bad
    <3>. DEFINE c == todo[x - 1].n
                j == todo[x - 1].i - 1
    <3>7. todo[x].n = Child(c, j) /\ j \in 1 .. Children(c)
      BY <1>1, <3>5
    <3>. HIDE DEF c, j
    <3>8. c \in Node /\ Subtree(c) \subseteq Subtree(b)
      BY <1>3, <3>6, SubtreeClosed DEF c
    <3>9. Child(c, j) \in Parts(c) /\ Child(c, j) \in Node
      BY <3>7, <3>8, ChildIs DEF Parts
    <3>10. Child(c, j) \in Subtree(Child(c, j))
      BY <3>9, SubtreeIs
    <3>11. Child(c, j) \in Subtree(c)
      BY <3>8, <3>9, <3>10, SubtreeIs
    <3>. QED  BY <3>3, <3>7, <3>8, <3>11
  <2>. QED  BY <2>1
<1>. QED  BY <1>1, <1>2, <1>3, <1>4, <1>5 DEF Bad, f, b

(* A node on the stack that has a child there is a statement.              *)
LEMMA StackStmt ==
  ASSUME CheckInv, Chain(todo), NEW k \in 3 .. Len(todo) - 1
  PROVE  /\ Kind(todo[k].n) \in StmtKind /\ todo[k].n \in Node
         /\ todo[k].i - 1 \in 1 .. Children(todo[k].n) /\ todo[k].i \in Nat
         /\ todo[k + 1].n = Child(todo[k].n, todo[k].i - 1)
         /\ todo[k + 1].n \in Node
<1>. DEFINE n == todo[k].n
            j == todo[k].i - 1
<1>1. k \in 1 .. Len(todo) - 1 /\ k \in 1 .. Len(todo) /\ k # 1 /\ k # 2 /\ Len(todo) \in Nat
  BY DEF CheckInv, Path
<1>2. todo[k] \in Activation /\ n \in Node /\ todo[k].i \in Nat
  <2>1. todo[k] \in Activation
    BY <1>1, ElementOfSeq DEF CheckInv, Path
  <2>. QED  BY <2>1 DEF Activation
<1>3. j \in 1 .. Children(n) /\ j \notin ExprChildren(n) /\ todo[k + 1].n = Child(n, j)
  BY <1>1 DEF Chain
<1>4. Kind(n) # "PROGRAM" /\ Kind(n) # "FUNC_DECL"
  BY <1>1 DEF CheckInv, Path
<1>. HIDE DEF n, j
<1>5. Kind(n) \in NodeKind
  BY <1>2, NodeIs
<1>6. Kind(n) \notin {"BINARY_OP", "UNARY_OP"}
  BY <1>2, <1>3, ExprChildrenAre
<1>7. Kind(n) \notin {"CALL", "LITERAL", "VAR_REF"}
  <2>1. CASE Kind(n) \in {"CALL", "LITERAL", "VAR_REF"}
    <3>1. Children(n) = 0
      BY <1>2, <2>1, AstAssumption DEF WellShaped, WellCounted
    <3>. QED  BY <1>3, <3>1
  <2>. QED  BY <2>1
<1>8. Kind(n) \in StmtKind
  BY <1>4, <1>5, <1>6, <1>7 DEF NodeKind, ExprKind
<1>9. Child(n, j) \in Node
  BY <1>2, <1>3, ChildIs
<1>. QED  BY <1>2, <1>3, <1>8, <1>9 DEF n, j

LEMMA StackPasses ==
  ASSUME CheckInv, Chain(todo), NEW seen, NEW T, Static(root, seen, T),
         NEW k \in 3 .. Len(todo)
  PROVE  /\ todo[k].n \in Node /\ Spread(todo[2].n, seen, todo[k].n)
         /\ Passes(todo[2].n, seen, todo[k].n) /\ todo[k].n \in Subtree(todo[2].n)
         /\ seen[todo[k].n] \in VarTypes
<1>. DEFINE f == todo[2].n
            b == Child(f, 1)
            n == todo[k].n
<1>1. /\ f \in FunctionsOf(root) /\ n \in Subtree(b)
  <2>1. Len(todo) >= 2
    BY DEF CheckInv, Path
  <2>. QED  BY <2>1, OnStack
<1>2. b \in Node /\ Subtree(f) = {f} \cup Subtree(b)
  BY <1>1, FunctionIs DEF CheckInv
<1>3. Spread(f, seen, b)
  BY <1>1 DEF Static, SeenRight
<1>. HIDE DEF f, b, n
<1>4. n \in Node /\ Subtree(n) \subseteq Subtree(b) /\ n \in Subtree(n)
  BY <1>1, <1>2, SubtreeClosed, SubtreeIs
<1>5. Spread(f, seen, n) /\ Passes(f, seen, n)
  BY <1>3, <1>4 DEF Spread
<1>6. seen[n] \in VarTypes
  BY <1>4 DEF Static
<1>. QED  BY <1>1, <1>2, <1>4, <1>5, <1>6 DEF f, n

Ready(seen, T) ==
    /\ JudgeInv /\ Static(root, seen, T) /\ KeepsClear(root, MaxParams)
    /\ error_count = 0
    /\ Shown(todo, tab, seen) /\ TypedSoFar(todo, T, seen)

NotesRight(notes, T) == \A n \in DOMAIN notes : notes[n] = T[n]

(* The node on top is in a function, and the table shows what it sees.     *)
LEMMA InFunction ==
  ASSUME NEW seen, NEW T, Ready(seen, T), todo # <<>>,
         Kind(Top.n) \notin {"PROGRAM", "FUNC_DECL"}
  PROVE  /\ todo[2].n \in FunctionsOf(root) /\ todo[2].n \in Node
         /\ Top.n \in Node /\ Top.n \in Subtree(todo[2].n) /\ Top.i \in Nat
         /\ Spread(todo[2].n, seen, Top.n) /\ Passes(todo[2].n, seen, Top.n)
         /\ Len(tab) >= 2 /\ Len(todo) >= 3 /\ Top = todo[Len(todo)]
         /\ Scoped(tab, todo[2].n, Before(todo[2].n, seen, Top.n, Top.i))
<1>1. CheckInv /\ Chain(todo) /\ Static(root, seen, T)
  BY DEF Ready, JudgeInv
<1>2. Len(todo) >= 3 /\ Len(tab) >= 2
  BY <1>1, InBody
<1>3. /\ Top = todo[Len(todo)] /\ Top.n \in Node /\ Top.i \in Nat /\ Len(todo) \in Nat
      /\ Len(todo) \in 3 .. Len(todo) /\ Len(todo) \in 2 .. Len(todo)
  BY <1>1, <1>2, TopIs DEF CheckInv
<1>4. /\ Spread(todo[2].n, seen, Top.n) /\ Passes(todo[2].n, seen, Top.n)
      /\ Top.n \in Subtree(todo[2].n)
  BY <1>1, <1>3, StackPasses
<1>5. todo[2].n \in FunctionsOf(root) /\ todo[2].n \in Node /\ todo[2].i = 2
  BY <1>1, <1>2, OnStack
<1>6. Visible(tab, Len(tab), todo[2].n, Before(todo[2].n, seen, Top.n, Top.i))
  <2>1. Shows(todo, tab, seen, Len(todo))
    BY <1>3 DEF Ready, Shown
  <2>2. Depth(todo, Len(todo)) = Len(tab)
    BY <1>1, DepthInTable
  <2>3. Now(todo, seen, Len(todo)) = Before(todo[2].n, seen, Top.n, Top.i)
    BY <1>2, <1>3 DEF Now
  <2>. QED  BY <1>5, <2>1, <2>2, <2>3 DEF Shows
<1>7. LooseTyped(tab, todo[2].n)
  BY <1>2, <1>3 DEF Ready, Shown
<1>8. tab \in Seq(Scope) /\ tab # <<>> /\ OnlyGlobal(tab)
  <2>1. todo # <<>> /\ todo[1].i > 0
    <3>1. 1 \in 1 .. Len(todo) /\ 1 < Len(todo)
      BY <1>2, <1>3
    <3>. QED  BY <1>1, <3>1 DEF CheckInv, Path
  <2>2. tab \in Seq(Scope) /\ Len(tab) \in Nat \ {0}
    BY <1>1, TabNotEmpty DEF CheckInv
  <2>3. Registered(todo, tab)
    BY <1>1 DEF CheckInv
  <2>. QED  BY <2>1, <2>2, <2>3 DEF Registered, OnlyGlobal
<1>. QED  BY <1>2, <1>3, <1>4, <1>5, <1>6, <1>7, <1>8 DEF Scoped

JudgedRight(f, T, seen, e, judged) ==
    /\ judged.type = TypeIn(T, e) /\ ExprTyped(root, f, T, seen, e)
    /\ NotesRight(judged.ann, T)

LEMMA ChildSpread ==
  ASSUME NEW f, NEW seen, NEW n \in Node, Kind(n) \in StmtKind, NEW i \in ExprChildren(n),
         Spread(f, seen, n)
  PROVE  /\ Child(n, i) \in Expression /\ Spread(f, seen, Child(n, i))
         /\ seen[Child(n, i)] = seen[n] /\ Kind(n) # "BLOCK"
         /\ Subtree(Child(n, i)) \subseteq Subtree(n)
<1>. DEFINE e == Child(n, i)
<1>1. i \in 1 .. Children(n) /\ e \in Expression /\ e \in Node
  BY ExprChildIs
<1>2. e \in Parts(n)
  BY <1>1 DEF Parts
<1>3. Kind(n) # "BLOCK"
  BY ExprChildrenAre
<1>. HIDE DEF e
<1>4. Subtree(e) \subseteq Subtree(n) /\ n \in Subtree(n)
  BY <1>2, SubtreeIs
<1>5. Spread(f, seen, e) /\ Passes(f, seen, n)
  BY <1>4 DEF Spread
<1>6. seen[e] = seen[n]
  BY <1>1, <1>3, <1>5 DEF Passes, PassesOn, e
<1>. QED  BY <1>1, <1>3, <1>4, <1>5, <1>6 DEF e

LEMMA JudgedTop ==
  ASSUME NEW seen, NEW T, Ready(seen, T), todo # <<>>, Kind(Top.n) \in StmtKind,
         NEW i \in ExprChildren(Top.n),
         check_expression(tab, Child(Top.n, i)).errors = 0
  PROVE  JudgedRight(todo[2].n, T, seen, Child(Top.n, i),
                     check_expression(tab, Child(Top.n, i)))
<1>. DEFINE e == Child(Top.n, i)
            f == todo[2].n
<1>1. Kind(Top.n) \notin {"PROGRAM", "FUNC_DECL"}
  BY DEF StmtKind
<1>2. /\ Top.n \in Node /\ Spread(f, seen, Top.n)
      /\ Scoped(tab, f, Before(f, seen, Top.n, Top.i))
  BY <1>1, InFunction
<1>3. /\ e \in Expression /\ Spread(f, seen, e) /\ seen[e] = seen[Top.n]
      /\ Kind(Top.n) # "BLOCK"
  BY <1>2, ChildSpread
<1>4. Before(f, seen, Top.n, Top.i) = seen[e]
  BY <1>3 DEF Before
<1>5. /\ root \in Roots /\ KeepsClear(root, MaxParams) /\ tab \in Seq(Scope)
      /\ Static(root, seen, T)
  BY DEF Ready, JudgeInv, CheckInv
<1>. HIDE DEF e, f
<1>6. Known(root, seen, tab, e)
  BY <1>2, <1>3, <1>4, <1>5, KnownHere
<1>7. check_expression(tab, e) = JudgeOf(tab)[e]
  BY <1>3, <1>5, JudgeIs
<1>8. Right(root, f, seen, T, tab, e)
  <2>1. JudgeOf(tab)[e].errors = 0
    BY <1>7 DEF e
  <2>. QED  BY <1>3, <1>5, <1>6, <2>1, ExpressionIsRight
<1>9. TypeIn(T, e) = T[e]
  BY <1>3, <1>5, TypeInIs
<1>10. JudgedRight(f, T, seen, e, check_expression(tab, e))
  BY <1>7, <1>8, <1>9 DEF Right, JudgedRight, NotesRight
<1>. QED  BY <1>10 DEF e, f

LEMMA JudgedDeclared ==
  ASSUME NEW seen, NEW T, Ready(seen, T), todo # <<>>, Kind(Top.n) = "VAR_DECL",
         Children(Top.n) > 0, NEW t,
         t = symtab_insert(tab, Ast[Top.n].name, Variable(Ast[Top.n].type)),
         check_expression(t, Child(Top.n, 1)).errors = 0
  PROVE  JudgedRight(todo[2].n, T, seen, Child(Top.n, 1),
                     check_expression(t, Child(Top.n, 1)))
<1>. DEFINE e == Child(Top.n, 1)
            f == todo[2].n
            n == Top.n
<1>1. /\ n \in Node /\ Spread(f, seen, n) /\ f \in FunctionsOf(root)
      /\ n \in Subtree(f) /\ Len(tab) >= 2
      /\ Scoped(tab, f, Before(f, seen, n, Top.i))
  BY InFunction
<1>2. 1 \in ExprChildren(n)
  <2>1. Children(n) \in Nat
    BY <1>1, NodeIs
  <2>2. ExprChildren(n) = 1 .. Children(n)
    BY <1>1, ExprChildrenAre
  <2>. QED  BY <2>1, <2>2
<1>3. /\ e \in Expression /\ Spread(f, seen, e) /\ seen[e] = seen[n]
      /\ Subtree(e) \subseteq Subtree(n)
  BY <1>1, <1>2, ChildSpread DEF StmtKind
<1>4. Before(f, seen, n, Top.i) = seen[e]
  BY <1>3 DEF Before
<1>5. /\ CheckInv /\ root \in Roots /\ KeepsClear(root, MaxParams) /\ tab \in Seq(Scope)
      /\ Static(root, seen, T)
      /\ \A d \in 2 .. Len(tab) : HasNoFunction(tab[d])
  BY SameTable DEF Ready, JudgeInv, CheckInv
<1>6. Ast[n].name \in STRING /\ Ast[n].type \in DataType
  BY <1>1, NodeIs
<1>7. \A m \in Subtree(e) : Kind(m) = "VAR_REF" => Ast[m].name # Ast[n].name
  <2>1. NoSelfInit(f)
    BY <1>1, <1>5 DEF KeepsClear
  <2>2. n \in Nodes(f, {"VAR_DECL"})
    BY <1>1 DEF Nodes
  <2>3. \A m \in Subtree(e) : Kind(m) = "VAR_REF" => m \in Nodes(n, {"VAR_REF"})
    BY <1>3 DEF Nodes
  <2>. HIDE DEF n
  <2>. QED  BY <2>1, <2>2, <2>3 DEF NoSelfInit
<1>8. t \in Seq(Scope)
  BY <1>1, <1>5, <1>6, Inserting
<1>9. t = symtab_insert(tab, Ast[n].name, Variable(Ast[n].type))
  OBVIOUS
<1>0. check_expression(t, e).errors = 0
  OBVIOUS
<1>. HIDE DEF e, f, n
<1>10. Scoped(tab, f, seen[e])
  BY <1>1, <1>4
<1>11. Known(root, seen, t, e)
  BY <1>1, <1>3, <1>5, <1>6, <1>7, <1>9, <1>10, KnownDeclared
<1>12. check_expression(t, e) = JudgeOf(t)[e]
  BY <1>3, <1>8, JudgeIs
<1>13. Right(root, f, seen, T, t, e)
  <2>1. JudgeOf(t)[e].errors = 0
    BY <1>0, <1>12
  <2>. QED  BY <1>3, <1>5, <1>8, <1>11, <2>1, ExpressionIsRight
<1>14. TypeIn(T, e) = T[e]
  BY <1>3, <1>5, TypeInIs
<1>15. JudgedRight(f, T, seen, e, check_expression(t, e))
  BY <1>12, <1>13, <1>14 DEF Right, JudgedRight, NotesRight
<1>. QED  BY <1>15 DEF e, f

LEMMA OverRight ==
  ASSUME NEW T, NEW f \in Notes, NEW g \in Notes, NotesRight(f, T), NotesRight(g, T)
  PROVE  NotesRight(Over(f, g), T)
<1>1. IsOver(f, g, Over(f, g))
  BY NotesOver
<1>. QED  BY <1>1 DEF IsOver, NotesRight

(* A step that judges and leaves no error found none.                      *)
LEMMA CleanJudge ==
  ASSUME NEW t \in Seq(Scope), NEW e \in Expression, NEW others \in Nat, NEW P,
         error_count = 0, error_count' = 0,
         error_count' = error_count + others + check_expression(t, e).errors + Count(P)
  PROVE  /\ others = 0 /\ check_expression(t, e).errors = 0 /\ ~P
         /\ check_expression(t, e).ann \in Notes
<1>1. check_expression(t, e) \in Judgement
  BY JudgementIsSourced
<1>2. check_expression(t, e).errors \in Nat /\ check_expression(t, e).ann \in Notes
  BY <1>1 DEF Judgement
<1>3. Count(P) \in Nat /\ (Count(P) = 0 => ~P)
  BY CountNat
<1>4. \A a, b, c \in Nat : 0 + a + b + c = 0 => a = 0 /\ b = 0 /\ c = 0
  OBVIOUS
<1>. QED  BY <1>2, <1>3, <1>4

LEMMA StmtFrom ==
  ASSUME NEW f, NEW seen, NEW T, NEW n \in Node, Kind(n) \in StmtKind, Passes(f, seen, n),
         \A i \in ExprChildren(n) : ExprTyped(root, f, T, seen, Child(n, i)),
         Kind(n) = "VAR_DECL" /\ Children(n) > 0 =>
            Takes(Ast[n].type, TypeIn(T, Child(n, 1))),
         Kind(n) = "ASSIGN" =>
            LET type == TypeOfVariable(f, seen[n], Ast[n].name)
            IN  type # NoType /\ Takes(type, TypeIn(T, Child(n, 1))),
         Kind(n) = "RETURN" =>
            /\ Ast[f].type = "VOID" <=> Children(n) = 0
            /\ Children(n) > 0 => Takes(Ast[f].type, TypeIn(T, Child(n, 1)))
  PROVE  StmtRule(root, f, T, seen, n)
<1>1. \A i \in 1 .. Children(n) :
         seen[Child(n, i)] = IF Kind(n) = "BLOCK" /\ i > 1
                             THEN SeenAfter(f, seen, Child(n, i - 1)) ELSE seen[n]
  BY DEF Passes, PassesOn
<1>. QED  BY <1>1 DEF StmtRule

Typed1(seen, T) ==
    StmtRule(root, todo[2].n, T, seen, Top.n) /\ NotesRight(ann', T)

LEMMA TopStmt ==
  ASSUME NEW seen, NEW T, Ready(seen, T), todo # <<>>,
         Kind(Top.n) \in {"VAR_DECL", "ASSIGN", "RETURN", "PRINT"}
  PROVE  LET n == Top.n
             f == todo[2].n
         IN  /\ n \in Node /\ Kind(n) \in StmtKind /\ f \in FunctionsOf(root) /\ f \in Node
             /\ n \in Subtree(f) /\ Passes(f, seen, n)
             /\ Scoped(tab, f, seen[n]) /\ LooseInt(f, seen[n])
             /\ ExprChildren(n) = 1 .. Children(n) /\ Children(n) \in {0, 1}
             /\ Children(n) = 1 => Child(n, 1) \in Expression
             /\ ann \in Notes /\ tab \in Seq(Scope) /\ ret_type = Ast[f].type
<1>1. Kind(Top.n) \notin {"PROGRAM", "FUNC_DECL"} /\ Kind(Top.n) \in StmtKind
      /\ Kind(Top.n) # "BLOCK"
  BY DEF StmtKind
<1>2. /\ Top.n \in Node /\ Passes(todo[2].n, seen, Top.n)
      /\ todo[2].n \in FunctionsOf(root) /\ todo[2].n \in Node
      /\ Top.n \in Subtree(todo[2].n) /\ Len(todo) >= 3
      /\ Scoped(tab, todo[2].n, Before(todo[2].n, seen, Top.n, Top.i))
  BY <1>1, InFunction
<1>3. Before(todo[2].n, seen, Top.n, Top.i) = seen[Top.n]
  BY <1>1 DEF Before
<1>4. ExprChildren(Top.n) = 1 .. Children(Top.n)
  BY <1>2, ExprChildrenAre
<1>5. Children(Top.n) \in {0, 1} /\ (Children(Top.n) = 1 => Child(Top.n, 1) \in Expression)
  <2>1. Children(Top.n) \in {0, 1} /\ (Children(Top.n) > 0 => Child(Top.n, 1) \in Expression)
    BY <1>2, OnlyChild
  <2>. QED  BY <2>1
<1>6. ret_type = Ast[todo[2].n].type
  <2>1. todo[2].i = 2
    BY <1>2, OnStack DEF Ready, JudgeInv
  <2>2. ReturnsAs(todo, ret_type) /\ Len(todo) >= 2
    BY <1>2 DEF Ready, JudgeInv, CheckInv, Path
  <2>. QED  BY <2>1, <2>2 DEF ReturnsAs
<1>7. ann \in Notes /\ tab \in Seq(Scope)
  BY DEF Ready, JudgeInv, FoundInv, CheckInv
<1>. QED  BY <1>1, <1>2, <1>3, <1>4, <1>5, <1>6, <1>7 DEF Passes

LEMMA VarDeclTyped ==
  ASSUME NEW seen, NEW T, Ready(seen, T), NotesRight(ann, T), CheckVarDecl, error_count' = 0
  PROVE  /\ Typed1(seen, T) /\ ~DeclaredHere(tab, Ast[Top.n].name)
         /\ tab' = symtab_insert(tab, Ast[Top.n].name, Variable(Ast[Top.n].type))
<1>. DEFINE n == Top.n
            f == todo[2].n
            e == Child(n, 1)
            decl == Ast[n]
            t == symtab_insert(tab, decl.name, Variable(decl.type))
            errors == Count(decl.type = "VOID") + Count(DeclaredHere(tab, decl.name))
            P == ~Accepts(decl.type, check_expression(t, e).type)
<1>1. todo # <<>> /\ Kind(n) = "VAR_DECL"
  BY DEF CheckVarDecl, On
<1>2. /\ n \in Node /\ Kind(n) \in StmtKind /\ Passes(f, seen, n)
      /\ ExprChildren(n) = 1 .. Children(n) /\ Children(n) \in {0, 1}
      /\ Children(n) = 1 => e \in Expression
      /\ ann \in Notes
  BY <1>1, TopStmt
<1>3. errors \in Nat /\ (errors = 0 => ~DeclaredHere(tab, decl.name))
  <2>1. \A a, b \in Nat : a + b \in Nat /\ (a + b = 0 => b = 0)
    OBVIOUS
  <2>. QED  BY <2>1, CountNat
<1>4. tab' = t
  BY DEF CheckVarDecl, Judge
<1>5. t \in Seq(Scope)
  <2>1. Len(tab) >= 2 /\ CheckInv
    BY <1>1, InFunction DEF Ready, JudgeInv
  <2>2. decl.name \in STRING /\ decl.type \in DataType
    BY <1>2, NodeIs
  <2>. QED  BY <2>1, <2>2, SameTable, Inserting
<1>6. error_count = 0
  BY DEF Ready
<1>7. CASE Children(n) = 1
  <2>1. /\ error_count' = error_count + errors + check_expression(t, e).errors + Count(P)
        /\ ann' = Over(check_expression(t, e).ann, ann)
    BY <1>7 DEF CheckVarDecl, Judge
  <2>. HIDE DEF t, e, errors, P, n, f
  <2>2. /\ errors = 0 /\ check_expression(t, e).errors = 0 /\ ~P
        /\ check_expression(t, e).ann \in Notes
    BY <1>2, <1>3, <1>5, <1>6, <1>7, <2>1, CleanJudge
  <2>3. JudgedRight(f, T, seen, e, check_expression(t, e))
    <3>1. Children(n) > 0
      BY <1>7
    <3>. QED  BY <1>1, <2>2, <3>1, JudgedDeclared DEF f, e, n, t
  <2>4. NotesRight(ann', T)
    BY <1>2, <2>1, <2>2, <2>3, OverRight DEF JudgedRight
  <2>5. Takes(decl.type, TypeIn(T, e)) /\ ExprTyped(root, f, T, seen, e)
    BY <2>2, <2>3, AcceptsTakes DEF JudgedRight, P
  <2>6. \A i \in ExprChildren(n) : ExprTyped(root, f, T, seen, Child(n, i))
    BY <1>2, <1>7, <2>5 DEF e
  <2>7. StmtRule(root, f, T, seen, n)
    BY <1>1, <1>2, <2>5, <2>6, StmtFrom DEF e
  <2>. QED  BY <1>3, <1>4, <2>2, <2>4, <2>7 DEF Typed1, n, f, t
<1>8. CASE Children(n) = 0
  <2>1. error_count' = error_count + errors /\ ann' = ann
    BY <1>8 DEF CheckVarDecl
  <2>. HIDE DEF t, e, errors, P, n, f
  <2>2. errors = 0
    BY <1>3, <1>6, <2>1
  <2>3. StmtRule(root, f, T, seen, n)
    BY <1>1, <1>2, <1>8, StmtFrom
  <2>. QED  BY <1>3, <1>4, <2>1, <2>2, <2>3 DEF Typed1, n, f, t
<1>. QED  BY <1>2, <1>7, <1>8

LEMMA AssignTyped ==
  ASSUME NEW seen, NEW T, Ready(seen, T), NotesRight(ann, T), CheckAssign, error_count' = 0
  PROVE  Typed1(seen, T) /\ tab' = tab
<1>. DEFINE n == Top.n
            f == todo[2].n
            e == Child(n, 1)
            x == Ast[n].name
            sym == symtab_lookup(tab, x)
            P == ~Accepts(sym.type, check_expression(tab, e).type)
<1>1. todo # <<>> /\ Kind(n) = "ASSIGN"
  BY DEF CheckAssign, On
<1>2. /\ n \in Node /\ Kind(n) \in StmtKind /\ f \in FunctionsOf(root) /\ n \in Subtree(f)
      /\ Passes(f, seen, n) /\ Scoped(tab, f, seen[n]) /\ LooseInt(f, seen[n])
      /\ ExprChildren(n) = 1 .. Children(n) /\ Children(n) \in {0, 1}
      /\ Children(n) = 1 => e \in Expression
      /\ ann \in Notes /\ tab \in Seq(Scope)
  BY <1>1, TopStmt
<1>3. Children(n) = 1 /\ e \in Expression
  BY <1>1, <1>2, OnlyChild
<1>4. error_count = 0 /\ root \in Roots /\ KeepsClear(root, MaxParams)
  BY DEF Ready, JudgeInv, CheckInv
<1>5. sym # NoSymbol
  BY <1>4 DEF CheckAssign
<1>6. /\ tab' = tab
      /\ error_count' = error_count + 0 + check_expression(tab, e).errors + Count(P)
      /\ ann' = Over(check_expression(tab, e).ann, ann)
  BY <1>5 DEF CheckAssign, Judge
<1>7. x \in VarName
  BY <1>1, <1>2, AstAssumption
<1>. HIDE DEF n, f, e, P
<1>8. sym.kind \notin {"NONE", "FUNCTION"}
  <2>1. sym.kind # "NONE"
    <3>1. sym \in Symbol
      BY <1>2, <1>5, LookupInner
    <3>. HIDE DEF sym
    <3>. QED  BY <3>1 DEF Symbol, SymKind
  <2>2. sym.kind # "FUNCTION"
    <3>1. FindFunction(root, x) = NoNode
      <4>1. AssignsVariables(root, f)
        BY <1>2, <1>4 DEF KeepsClear
      <4>2. n \in Nodes(f, {"ASSIGN"})
        BY <1>1, <1>2 DEF Nodes
      <4>. QED  BY <4>1, <4>2 DEF AssignsVariables
    <3>2. OnlyGlobal(tab)
      BY <1>2 DEF Scoped
    <3>. HIDE DEF x
    <3>. QED  BY <1>2, <1>4, <3>1, <3>2, LookupFunction
  <2>. QED  BY <2>1, <2>2
<1>9. sym.type = seen[n][x] /\ sym.type \in DataType
  <2>. HIDE DEF x
  <2>. QED  BY <1>2, <1>7, <1>8, LookupVariable
<1>10. TypeOfVariable(f, seen[n], x) = sym.type /\ sym.type # NoType
  <2>1. sym.type # NoType
    BY <1>9 DEF DataType, NoType
  <2>2. TypeOfVariable(f, seen[n], x) = seen[n][x]
    BY <1>2 DEF TypeOfVariable, LooseInt
  <2>. QED  BY <1>9, <2>1, <2>2
<1>. HIDE DEF sym
<1>11. /\ check_expression(tab, e).errors = 0 /\ ~P
       /\ check_expression(tab, e).ann \in Notes
  BY <1>2, <1>3, <1>4, <1>6, CleanJudge
<1>12. JudgedRight(f, T, seen, e, check_expression(tab, e))
  <2>1. 1 \in ExprChildren(n)
    BY <1>2, <1>3
  <2>. QED  BY <1>1, <1>2, <1>11, <2>1, JudgedTop DEF f, e, n
<1>13. NotesRight(ann', T)
  BY <1>2, <1>6, <1>11, <1>12, OverRight DEF JudgedRight
<1>14. Takes(sym.type, TypeIn(T, e)) /\ ExprTyped(root, f, T, seen, e)
  BY <1>11, <1>12, AcceptsTakes DEF JudgedRight, P
<1>15. \A i \in ExprChildren(n) : ExprTyped(root, f, T, seen, Child(n, i))
  BY <1>2, <1>3, <1>14 DEF e
<1>16. LET type == TypeOfVariable(f, seen[n], x)
       IN  type # NoType /\ Takes(type, TypeIn(T, e))
  BY <1>10, <1>14
<1>17. StmtRule(root, f, T, seen, n)
  BY <1>1, <1>2, <1>15, <1>16, StmtFrom DEF e
<1>. QED  BY <1>6, <1>13, <1>17 DEF Typed1, n, f

LEMMA ReturnTyped ==
  ASSUME NEW seen, NEW T, Ready(seen, T), NotesRight(ann, T), CheckReturn, error_count' = 0
  PROVE  Typed1(seen, T) /\ tab' = tab
<1>. DEFINE n == Top.n
            f == todo[2].n
            e == Child(n, 1)
            P == ~Accepts(ret_type, check_expression(tab, e).type)
            Q == (ret_type = "VOID") # (Children(n) = 0)
<1>1. todo # <<>> /\ Kind(n) = "RETURN"
  BY DEF CheckReturn, On
<1>2. /\ n \in Node /\ Kind(n) \in StmtKind /\ Passes(f, seen, n)
      /\ ExprChildren(n) = 1 .. Children(n) /\ Children(n) \in {0, 1}
      /\ Children(n) = 1 => e \in Expression
      /\ ann \in Notes /\ tab \in Seq(Scope) /\ ret_type = Ast[f].type
  BY <1>1, TopStmt
<1>3. error_count = 0
  BY DEF Ready
<1>4. CASE ret_type # "VOID" /\ Children(n) > 0
  <2>1. /\ tab' = tab
        /\ error_count' = error_count + 0 + check_expression(tab, e).errors + Count(P)
        /\ ann' = Over(check_expression(tab, e).ann, ann)
    BY <1>4 DEF CheckReturn, Judge
  <2>. HIDE DEF n, f, e, P
  <2>2. Children(n) = 1 /\ e \in Expression
    BY <1>2, <1>4
  <2>3. /\ check_expression(tab, e).errors = 0 /\ ~P
        /\ check_expression(tab, e).ann \in Notes
    BY <1>2, <1>3, <2>1, <2>2, CleanJudge
  <2>4. JudgedRight(f, T, seen, e, check_expression(tab, e))
    <3>1. 1 \in ExprChildren(n)
      BY <1>2, <2>2
    <3>. QED  BY <1>1, <1>2, <2>3, <3>1, JudgedTop DEF f, e, n
  <2>5. NotesRight(ann', T)
    BY <1>2, <2>1, <2>3, <2>4, OverRight DEF JudgedRight
  <2>6. Takes(Ast[f].type, TypeIn(T, e)) /\ ExprTyped(root, f, T, seen, e)
    BY <1>2, <2>3, <2>4, AcceptsTakes DEF JudgedRight, P
  <2>7. \A i \in ExprChildren(n) : ExprTyped(root, f, T, seen, Child(n, i))
    BY <1>2, <2>2, <2>6 DEF e
  <2>8. Ast[f].type = "VOID" <=> Children(n) = 0
    BY <1>2, <1>4
  <2>9. StmtRule(root, f, T, seen, n)
    BY <1>1, <1>2, <2>6, <2>7, <2>8, StmtFrom DEF e
  <2>. QED  BY <2>1, <2>5, <2>9 DEF Typed1, n, f
<1>5. CASE ~(ret_type # "VOID" /\ Children(n) > 0)
  <2>1. tab' = tab /\ ann' = ann /\ error_count' = error_count + Count(Q)
    BY <1>5 DEF CheckReturn
  <2>2. Count(Q) \in Nat /\ (Count(Q) = 0 => ~Q)
    BY CountNat
  <2>3. ~Q
    <3>. HIDE DEF Q
    <3>. QED  BY <1>3, <2>1, <2>2
  <2>4. ret_type = "VOID" <=> Children(n) = 0
    BY <2>3
  <2>5. Children(n) = 0
    BY <1>2, <1>5, <2>4
  <2>. HIDE DEF n, f
  <2>6. StmtRule(root, f, T, seen, n)
    BY <1>1, <1>2, <2>4, <2>5, StmtFrom
  <2>. QED  BY <2>1, <2>6 DEF Typed1, n, f
<1>. QED  BY <1>4, <1>5

LEMMA PrintTyped ==
  ASSUME NEW seen, NEW T, Ready(seen, T), NotesRight(ann, T), CheckPrint, error_count' = 0
  PROVE  Typed1(seen, T) /\ tab' = tab
<1>. DEFINE n == Top.n
            f == todo[2].n
            e == Child(n, 1)
<1>1. todo # <<>> /\ Kind(n) = "PRINT"
  BY DEF CheckPrint, On
<1>2. /\ n \in Node /\ Kind(n) \in StmtKind /\ Passes(f, seen, n)
      /\ ExprChildren(n) = 1 .. Children(n) /\ Children(n) \in {0, 1}
      /\ Children(n) = 1 => e \in Expression
      /\ ann \in Notes /\ tab \in Seq(Scope)
  BY <1>1, TopStmt
<1>3. Children(n) = 1 /\ e \in Expression
  BY <1>1, <1>2, OnlyChild
<1>4. error_count = 0
  BY DEF Ready
<1>5. /\ tab' = tab
      /\ error_count' = error_count + 0 + check_expression(tab, e).errors + Count(FALSE)
      /\ ann' = Over(check_expression(tab, e).ann, ann)
  BY DEF CheckPrint, Judge
<1>. HIDE DEF n, f, e
<1>6. /\ check_expression(tab, e).errors = 0
      /\ check_expression(tab, e).ann \in Notes
  BY <1>2, <1>3, <1>4, <1>5, CleanJudge
<1>7. JudgedRight(f, T, seen, e, check_expression(tab, e))
  <2>1. 1 \in ExprChildren(n)
    BY <1>2, <1>3
  <2>. QED  BY <1>1, <1>2, <1>6, <2>1, JudgedTop DEF f, e, n
<1>8. NotesRight(ann', T)
  BY <1>2, <1>5, <1>6, <1>7, OverRight DEF JudgedRight
<1>9. \A i \in ExprChildren(n) : ExprTyped(root, f, T, seen, Child(n, i))
  BY <1>2, <1>3, <1>7 DEF e, JudgedRight
<1>10. StmtRule(root, f, T, seen, n)
  BY <1>1, <1>2, <1>9, StmtFrom
<1>. QED  BY <1>5, <1>8, <1>10 DEF Typed1, n, f

LEMMA ConditionTyped ==
  ASSUME NEW seen, NEW T, Ready(seen, T), NotesRight(ann, T), CheckCondition,
         error_count' = 0
  PROVE  /\ ExprTyped(root, todo[2].n, T, seen, Child(Top.n, Top.i))
         /\ NotesRight(ann', T) /\ tab' = tab
<1>. DEFINE n == Top.n
            f == todo[2].n
            e == Child(n, Top.i)
            P == check_expression(tab, e).type \notin {"BOOL", "INT", "VOID"}
<1>1. todo # <<>> /\ Kind(n) \in {"IF", "WHILE", "FOR"} /\ Top.i \in ExprChildren(n)
  BY DEF CheckCondition, On
<1>2. /\ tab' = tab
      /\ error_count' = error_count + 0 + check_expression(tab, e).errors + Count(P)
      /\ ann' = Over(check_expression(tab, e).ann, ann)
  BY DEF CheckCondition, Judge
<1>3. Kind(n) \in StmtKind /\ n \in Node
  BY <1>1, InFunction DEF StmtKind
<1>4. e \in Expression
  BY <1>1, <1>3, ExprChildIs
<1>5. error_count = 0 /\ ann \in Notes /\ tab \in Seq(Scope)
  BY DEF Ready, JudgeInv, FoundInv, CheckInv
<1>. HIDE DEF n, f, e, P
<1>6. /\ check_expression(tab, e).errors = 0
      /\ check_expression(tab, e).ann \in Notes
  BY <1>2, <1>4, <1>5, CleanJudge
<1>7. JudgedRight(f, T, seen, e, check_expression(tab, e))
  BY <1>1, <1>3, <1>6, JudgedTop DEF f, e, n
<1>8. NotesRight(ann', T)
  BY <1>2, <1>5, <1>6, <1>7, OverRight DEF JudgedRight
<1>. QED  BY <1>2, <1>7, <1>8 DEF JudgedRight, n, f, e


-----------------------------------------------------------------------------
(* What is left is well typed.                                             *)

LEMMA LeavesBy ==
  ASSUME CheckInv, [Next]_vars, todo # <<>>, todo' = Below
  PROVE  \/ LeaveScope \/ LeaveNode \/ SkipExpression
         \/ CheckVarDecl \/ CheckAssign \/ CheckReturn \/ CheckPrint
<1>1. Top.i \in Nat /\ Len(todo) \in Nat \ {0}
  BY TopIs DEF CheckInv
<1>2. Len(Below) = Len(todo) - 1 /\ Len(Advanced) = Len(todo) /\ Below # todo
      /\ Below # Advanced
  <2>1. Len(Below) = Len(todo) - 1 /\ Len(Advanced) = Len(todo)
    BY BelowIs, Advancing DEF CheckInv
  <2>. QED  BY <1>1, <2>1
<1>3. ~UNCHANGED vars /\ ~Checked
  BY <1>2 DEF vars, Checked
<1>4. ~Begin /\ ~Finish
  BY <1>2 DEF Begin, Finish, CheckInv
<1>5. ~RegisterFunctions /\ ~EnterFunction /\ ~EnterBlock /\ ~CheckCondition
  BY <1>2 DEF RegisterFunctions, EnterFunction, EnterBlock, CheckCondition
<1>6. ~TraverseChild
  <2>1. CASE TraverseChild
    <3>1. todo' = Descent /\ Top.i \in 1 .. Children(Top.n)
      BY <2>1 DEF TraverseChild, Descent
    <3>2. Len(Descent) = Len(todo) + 1
      BY <3>1, Descending DEF Descent, CheckInv
    <3>. QED  BY <1>1, <1>2, <3>1, <3>2
  <2>. QED  BY <2>1
<1>. QED  BY <1>3, <1>4, <1>5, <1>6 DEF Next, Step

LEMMA TurnsBy ==
  ASSUME CheckInv, [Next]_vars, todo # <<>>, todo' = Advanced,
         Top.i \in 1 .. Children(Top.n)
  PROVE  CheckCondition
<1>1. /\ Top.i \in Nat /\ Len(todo) \in Nat \ {0}
      /\ Len(Below) = Len(todo) - 1 /\ Len(Advanced) = Len(todo)
      /\ Advanced[Len(todo)].i = Top.i + 1 /\ Top = todo[Len(todo)]
  BY TopIs, BelowIs, Advancing DEF CheckInv
<1>2. Advanced # todo /\ Advanced # Below /\ Advanced # Descent
  <2>1. Advanced # todo /\ Advanced # Below
    BY <1>1
  <2>2. Len(Descent) = Len(todo) + 1
    BY Descending DEF Descent, CheckInv
  <2>. QED  BY <1>1, <2>1, <2>2
<1>3. ~UNCHANGED vars /\ ~Checked /\ ~Begin /\ ~Finish /\ ~TraverseChild
  BY <1>2 DEF vars, Checked, Begin, Finish, TraverseChild, Descent, CheckInv
<1>4. ~RegisterFunctions /\ ~EnterFunction /\ ~EnterBlock
  BY DEF RegisterFunctions, EnterFunction, EnterBlock
<1>5. ~LeaveScope /\ ~LeaveNode /\ ~SkipExpression /\ ~CheckVarDecl /\ ~CheckAssign
      /\ ~CheckReturn /\ ~CheckPrint
  BY <1>2 DEF LeaveScope, LeaveNode, SkipExpression, CheckVarDecl, CheckAssign,
              CheckReturn, CheckPrint
<1>. QED  BY <1>3, <1>4, <1>5 DEF Next, Step

LEMMA NotesStay ==
  ASSUME NEW seen, NEW T, Ready(seen, T), NotesRight(ann, T), [Next]_vars,
         error_count' = 0
  PROVE  NotesRight(ann', T)
<1>1. CASE CheckVarDecl \/ CheckAssign \/ CheckReturn \/ CheckPrint
  BY <1>1, VarDeclTyped, AssignTyped, ReturnTyped, PrintTyped DEF Typed1
<1>2. CASE CheckCondition
  BY <1>2, ConditionTyped
<1>3. CASE JudgesNothing \/ Checked
  <2>1. ann' = ann
    BY <1>3 DEF JudgesNothing, Checked, RegisterFunctions, EnterFunction, EnterBlock,
                TraverseChild, LeaveScope, LeaveNode, SkipExpression, Begin, Finish, vars
  <2>. QED  BY <2>1
<1>. QED  BY <1>1, <1>2, <1>3 DEF Next, Step, JudgesNothing

LEMMA ExpressionHasTree ==
  ASSUME NEW f, NEW T, NEW seen, NEW n \in Expression
  PROVE  TreeTyped(f, T, seen, n)
<1>1. \A m \in Subtree(n) : Kind(m) \in ExprKind
  BY ExpressionTree DEF Expression
<1>2. ExprKind \cap StmtKind = {}
  BY DEF ExprKind, StmtKind
<1>. QED  BY <1>1, <1>2 DEF TreeTyped, Nodes

LEMMA ChildrenMakeTyped ==
  ASSUME NEW f, NEW T, NEW seen, NEW n \in Node, Kind(n) \in StmtKind,
         StmtRule(root, f, T, seen, n),
         \A i \in 1 .. Children(n) :
            i \notin ExprChildren(n) => TreeTyped(f, T, seen, Child(n, i))
  PROVE  TreeTyped(f, T, seen, n)
<1>1. Parts(n) = {Child(n, i) : i \in 1 .. Children(n)}
  BY StmtIs
<1>2. ASSUME NEW m \in Nodes(n, StmtKind) PROVE StmtRule(root, f, T, seen, m)
  <2>1. m \in Subtree(n) /\ Kind(m) \in StmtKind
    BY DEF Nodes
  <2>2. CASE m = n
    BY <2>2
  <2>3. CASE m # n
    <3>1. PICK i \in 1 .. Children(n) : m \in Subtree(Child(n, i))
      BY <1>1, <2>1, <2>3, SubtreeIs
    <3>2. i \in ExprChildren(n) => Child(n, i) \in Expression
      BY ExprChildIs
    <3>3. TreeTyped(f, T, seen, Child(n, i))
      BY <3>2, ExpressionHasTree
    <3>. QED  BY <2>1, <3>1, <3>3 DEF TreeTyped, Nodes
  <2>. QED  BY <2>2, <2>3
<1>. QED  BY <1>2 DEF TreeTyped

Passed(n, T, seen) ==
    /\ Kind(n) \in StmtKind \cup ExprKind => TreeTyped(todo[2].n, T, seen, n)
    /\ Kind(n) = "FUNC_DECL" => FunctionTyped(root, n, T, seen)
    /\ Kind(n) = "PROGRAM" => WellTyped(root, T, seen)

LEMMA LeftIsTyped ==
  ASSUME NEW seen, NEW T, Ready(seen, T), NotesRight(ann, T), [Next]_vars,
         todo # <<>>, todo' = Below, error_count' = 0
  PROVE  Passed(Top.n, T, seen)
<1>1. CheckInv /\ Chain(todo) /\ Static(root, seen, T) /\ TypedSoFar(todo, T, seen)
      /\ Shown(todo, tab, seen)
  BY DEF Ready, JudgeInv
<1>2. /\ Top.n \in Node /\ Top.i \in Nat /\ Len(todo) \in 1 .. Len(todo)
      /\ Top = todo[Len(todo)] /\ Len(todo) \in Nat \ {0}
      /\ Kind(Top.n) = "PROGRAM" <=> Len(todo) = 1
      /\ Kind(Top.n) = "FUNC_DECL" <=> Len(todo) = 2
      /\ Children(Top.n) \in Nat
  BY <1>1, TopIs, NodeIs DEF CheckInv
<1>3. \/ LeaveScope \/ LeaveNode \/ SkipExpression
      \/ CheckVarDecl \/ CheckAssign \/ CheckReturn \/ CheckPrint
  BY <1>1, LeavesBy
<1>4. CASE LeaveScope \/ LeaveNode
  <2>1. /\ Kind(Top.n) \in {"PROGRAM", "IF", "WHILE", "FOR", "FUNC_DECL", "BLOCK"}
        /\ Top.i > Children(Top.n)
    BY <1>4 DEF LeaveScope, LeaveNode, On
  <2>2. \A i \in 1 .. Children(Top.n) : i < Top.i
    BY <1>2, <2>1
  <2>3. \A i \in 1 .. Children(Top.n) : ChildTyped(todo[2].n, T, seen, Top.n, i)
    BY <1>1, <1>2, <2>2 DEF TypedSoFar
  <2>4. CASE Kind(Top.n) \in {"IF", "WHILE", "FOR", "BLOCK"}
    <3>1. Kind(Top.n) \in StmtKind /\ Kind(Top.n) \notin {"PROGRAM", "FUNC_DECL"}
      BY <2>4 DEF StmtKind
    <3>2. Passes(todo[2].n, seen, Top.n)
      BY <3>1, InFunction
    <3>3. \A i \in ExprChildren(Top.n) : ExprTyped(root, todo[2].n, T, seen, Child(Top.n, i))
      <4>1. \A i \in ExprChildren(Top.n) : i \in 1 .. Children(Top.n)
        BY <1>2, ExprChildIs
      <4>. QED  BY <2>3, <3>1, <4>1 DEF ChildTyped
    <3>4. Kind(Top.n) \notin {"VAR_DECL", "ASSIGN", "RETURN"}
      BY <2>4
    <3>5. StmtRule(root, todo[2].n, T, seen, Top.n)
      BY <1>2, <3>1, <3>2, <3>3, <3>4, StmtFrom
    <3>6. \A i \in 1 .. Children(Top.n) :
             i \notin ExprChildren(Top.n) => TreeTyped(todo[2].n, T, seen, Child(Top.n, i))
      BY <2>3, <3>1 DEF ChildTyped
    <3>7. TreeTyped(todo[2].n, T, seen, Top.n)
      BY <1>2, <3>1, <3>5, <3>6, ChildrenMakeTyped
    <3>. QED  BY <3>1, <3>7 DEF Passed
  <2>5. CASE Kind(Top.n) = "FUNC_DECL"
    <3>1. Len(todo) = 2 /\ todo[2] = Top
      BY <1>2, <2>5
    <3>2. Top.n \in FunctionsOf(root) /\ root \in Roots
      BY <1>1, <3>1, OnStack DEF CheckInv
    <3>3. Children(Top.n) = 1 /\ Subtree(Top.n) = {Top.n} \cup Subtree(Child(Top.n, 1))
      BY <3>2, FunctionIs
    <3>4. Top.i > 0 /\ 1 \in 1 .. Children(Top.n)
      BY <1>2, <2>1, <3>3
    <3>5. ParamsSeen(Top.n, seen[Child(Top.n, 1)])
      BY <1>1, <3>1, <3>4 DEF Shown
    <3>6. ExprChildren(Top.n) = {}
      BY <1>2, <2>5, ExprChildrenAre
    <3>7. TreeTyped(Top.n, T, seen, Child(Top.n, 1))
      <4>1. ChildTyped(Top.n, T, seen, Top.n, 1)
        BY <2>3, <3>1, <3>4
      <4>. QED  BY <2>5, <3>6, <4>1 DEF ChildTyped
    <3>8. Nodes(Top.n, StmtKind) = Nodes(Child(Top.n, 1), StmtKind)
      BY <2>5, <3>3 DEF Nodes, StmtKind
    <3>9. FunctionTyped(root, Top.n, T, seen)
      BY <3>5, <3>7, <3>8 DEF FunctionTyped, TreeTyped
    <3>10. Kind(Top.n) \notin StmtKind \cup ExprKind
      BY <2>5 DEF StmtKind, ExprKind
    <3>. QED  BY <2>5, <3>9, <3>10 DEF Passed
  <2>6. CASE Kind(Top.n) = "PROGRAM"
    <3>1. Top.n = root
      BY <1>1, <1>2, <2>6 DEF CheckInv, Path
    <3>2. \A i \in 1 .. Children(root) : FunctionTyped(root, Child(root, i), T, seen)
      BY <2>3, <2>6, <3>1 DEF ChildTyped
    <3>3. WellTyped(root, T, seen)
      BY <1>1, <3>2 DEF WellTyped, FunctionsOf, Static
    <3>4. Kind(Top.n) \notin StmtKind \cup ExprKind
      BY <2>6 DEF StmtKind, ExprKind
    <3>. QED  BY <2>6, <3>3, <3>4 DEF Passed
  <2>. QED  BY <2>1, <2>4, <2>5, <2>6
<1>5. CASE SkipExpression
  <2>1. Top.n \in Expression /\ Kind(Top.n) \in ExprKind
    BY <1>2, <1>5 DEF SkipExpression, On, Expression
  <2>2. Kind(Top.n) \notin {"PROGRAM", "FUNC_DECL"}
    BY <2>1 DEF ExprKind
  <2>. QED  BY <2>1, <2>2, ExpressionHasTree DEF Passed
<1>6. CASE CheckVarDecl \/ CheckAssign \/ CheckReturn \/ CheckPrint
  <2>1. StmtRule(root, todo[2].n, T, seen, Top.n)
    BY <1>6, VarDeclTyped, AssignTyped, ReturnTyped, PrintTyped DEF Typed1
  <2>2. Kind(Top.n) \in {"VAR_DECL", "ASSIGN", "RETURN", "PRINT"}
    BY <1>6 DEF CheckVarDecl, CheckAssign, CheckReturn, CheckPrint, On
  <2>3. ExprChildren(Top.n) = 1 .. Children(Top.n)
    BY <1>2, <2>2, ExprChildrenAre
  <2>4. Kind(Top.n) \in StmtKind /\ Kind(Top.n) \notin {"PROGRAM", "FUNC_DECL"}
    BY <2>2 DEF StmtKind
  <2>5. TreeTyped(todo[2].n, T, seen, Top.n)
    BY <1>2, <2>1, <2>3, <2>4, ChildrenMakeTyped
  <2>. QED  BY <2>4, <2>5 DEF Passed
<1>. QED  BY <1>3, <1>4, <1>5, <1>6


LEMMA ProgramChild ==
  ASSUME NEW f, NEW g, NEW T, NEW seen, NEW n, NEW i, f = g \/ Kind(n) = "PROGRAM",
         ChildTyped(f, T, seen, n, i)
  PROVE  ChildTyped(g, T, seen, n, i)
<1>1. CASE f = g
  BY <1>1
<1>2. CASE Kind(n) = "PROGRAM"
  BY <1>2 DEF ChildTyped
<1>. QED  BY <1>1, <1>2

LEMMA TypedKept ==
  ASSUME NEW seen, NEW T, Ready(seen, T), NotesRight(ann, T), [Next]_vars,
         error_count' = 0
  PROVE  TypedSoFar(todo', T, seen)
<1>1. /\ Moves /\ CheckInv /\ Chain(todo) /\ Path(todo) /\ root \in Roots
      /\ Static(root, seen, T) /\ TypedSoFar(todo, T, seen)
  BY StepMoves DEF Ready, JudgeInv, CheckInv
<1>. DEFINE N == Len(todo)
<1>0. ASSUME todo # <<>>
      PROVE  /\ N \in Nat \ {0} /\ Top = todo[N] /\ Top.i \in Nat /\ Top.n \in Node
             /\ Len(Below) = N - 1 /\ \A j \in 1 .. N - 1 : Below[j] = todo[j]
             /\ Len(Advanced) = N
             /\ \A j \in 1 .. N : /\ Advanced[j].n = todo[j].n
                                  /\ j # N => Advanced[j] = todo[j]
             /\ Advanced[N].i = Top.i + 1
             /\ Kind(todo[1].n) = "PROGRAM"
  <2>1. N \in Nat \ {0}
    BY <1>0, <1>1, TopIs
  <2>2. 1 \in 1 .. N
    BY <2>1
  <2>3. Kind(todo[1].n) = "PROGRAM"
    BY <1>1, <2>2 DEF Path
  <2>. QED  BY <1>0, <1>1, <2>1, <2>3, TopIs, BelowIs, Advancing
<1>2. ASSUME todo # <<>>, NEW k \in 1 .. N, NEW i \in 1 .. Children(todo[k].n),
             i < todo[k].i, k = N \/ i # todo[k].i - 1,
             NEW f, k >= 2 => f = todo[2].n
      PROVE  ChildTyped(f, T, seen, todo[k].n, i)
  <2>1. ChildTyped(todo[2].n, T, seen, todo[k].n, i)
    BY <1>1, <1>2 DEF TypedSoFar
  <2>2. k = 1 \/ k >= 2
    BY <1>0, <1>2
  <2>3. f = todo[2].n \/ Kind(todo[k].n) = "PROGRAM"
    BY <1>0, <1>2, <2>2
  <2>. QED  BY <2>1, <2>3, ProgramChild
<1>. HIDE DEF N
<1>5. CASE todo' = todo
  BY <1>1, <1>5
<1>6. CASE todo = <<>> /\ todo' = <<Visit(root)>>
  <2>1. Len(todo') = 1 /\ todo'[1] = Visit(root)
    BY <1>6
  <2>2. Visit(root).i = 0 /\ Visit(root).n = root /\ Children(root) \in Nat
    BY <1>1, RootIsProgram, NodeIs DEF Visit
  <2>. QED  BY <2>1, <2>2 DEF TypedSoFar
<1>7. CASE todo # <<>> /\ todo' = Below
  <2>2. Passed(Top.n, T, seen)
    BY <1>7, LeftIsTyped
  <2>4. ASSUME NEW k \in 1 .. N - 1, NEW i \in 1 .. Children(Below[k].n), i < Below[k].i,
               k = N - 1 \/ i # Below[k].i - 1
        PROVE  ChildTyped(Below[2].n, T, seen, Below[k].n, i)
    <3>1. Below[k] = todo[k] /\ k \in 1 .. N /\ k # N /\ N \in Nat
      BY <1>0, <1>7
    <3>0. k >= 2 => Below[2].n = todo[2].n
      BY <1>0, <1>7, <3>1
    <3>2. CASE i # todo[k].i - 1
      BY <1>2, <1>7, <2>4, <3>0, <3>1, <3>2
    <3>3. CASE i = todo[k].i - 1
      <4>1. k = N - 1 /\ k + 1 = N
        BY <2>4, <3>1, <3>3
      <4>2. k \in 1 .. Len(todo) - 1
        BY DEF N
      <4>3. Child(todo[k].n, i) = Top.n /\ i \notin ExprChildren(todo[k].n)
        BY <1>0, <1>1, <1>7, <3>3, <4>1, <4>2 DEF Chain
      <4>4. CASE Kind(todo[k].n) = "PROGRAM"
        <5>1. Kind(Top.n) = "FUNC_DECL"
          <6>1. k = 1
            BY <1>1, <3>1, <4>4 DEF Path, N
          <6>2. N = 2
            BY <3>1, <4>1, <6>1
          <6>. QED  BY <1>1, <1>7, <6>2, TopIs DEF N
        <5>2. FunctionTyped(root, Top.n, T, seen)
          BY <2>2, <5>1 DEF Passed
        <5>. QED  BY <3>1, <4>3, <4>4, <5>2 DEF ChildTyped
      <4>5. CASE Kind(todo[k].n) # "PROGRAM"
        <5>1. k # 1
          BY <1>0, <1>7, <4>5
        <5>2. k >= 2 /\ N # 1 /\ N # 2
          BY <3>1, <4>1, <5>1
        <5>3. Kind(Top.n) \in StmtKind \cup ExprKind
          <6>1. Kind(Top.n) # "PROGRAM" /\ Kind(Top.n) # "FUNC_DECL" /\ Kind(Top.n) \in NodeKind
            BY <1>0, <1>1, <1>7, <5>2, TopIs, NodeIs DEF N
          <6>. QED  BY <6>1 DEF NodeKind
        <5>4. TreeTyped(todo[2].n, T, seen, Top.n)
          BY <2>2, <5>3 DEF Passed
        <5>. QED  BY <3>0, <3>1, <4>3, <4>5, <5>2, <5>4 DEF ChildTyped
      <4>. QED  BY <4>4, <4>5
    <3>. QED  BY <3>2, <3>3
  <2>5. TypedSoFar(Below, T, seen)
    BY <1>0, <1>7, <2>4 DEF TypedSoFar
  <2>. QED  BY <1>7, <2>5
<1>8. CASE todo # <<>> /\ todo' = Advanced
  <2>2. ASSUME NEW k \in 1 .. N, NEW i \in 1 .. Children(Advanced[k].n), i < Advanced[k].i,
               k = N \/ i # Advanced[k].i - 1
        PROVE  ChildTyped(Advanced[2].n, T, seen, Advanced[k].n, i)
    <3>0. k >= 2 => Advanced[2].n = todo[2].n
      BY <1>0, <1>8
    <3>1. CASE k # N
      <4>1. Advanced[k] = todo[k]
        BY <1>0, <1>8, <3>1
      <4>. QED  BY <1>2, <1>8, <2>2, <3>0, <3>1, <4>1
    <3>2. CASE k = N
      <4>1. Advanced[k].n = Top.n /\ todo[k] = Top /\ k \in 1 .. N
        BY <1>0, <1>8, <3>2
      <4>2. CASE i = Top.i
        <5>1. Top.i \in 1 .. Children(Top.n)
          BY <4>1, <4>2
        <5>2. CheckCondition
          BY <1>1, <1>8, <5>1, TurnsBy
        <5>3. /\ ExprTyped(root, todo[2].n, T, seen, Child(Top.n, Top.i))
              /\ Top.i \in ExprChildren(Top.n) /\ Kind(Top.n) \in {"IF", "WHILE", "FOR"}
          BY <5>2, ConditionTyped DEF CheckCondition, On
        <5>4. ChildTyped(todo[2].n, T, seen, Top.n, i)
          BY <4>2, <5>3 DEF ChildTyped
        <5>5. k >= 2
          <6>1. N # 1
            BY <1>1, <1>8, <5>3, TopIs DEF N
          <6>. QED  BY <1>0, <1>8, <3>2, <6>1
        <5>. QED  BY <3>0, <4>1, <5>4, <5>5
      <4>3. CASE i # Top.i
        <5>1. i < Top.i
          BY <1>0, <1>8, <2>2, <3>2, <4>3
        <5>. QED  BY <1>2, <1>8, <2>2, <3>0, <3>2, <4>1, <5>1
      <4>. QED  BY <4>2, <4>3
    <3>. QED  BY <3>1, <3>2
  <2>3. TypedSoFar(Advanced, T, seen)
    BY <1>0, <1>8, <2>2 DEF TypedSoFar
  <2>. QED  BY <1>8, <2>3
<1>9. CASE /\ todo # <<>> /\ todo' = Descent
           /\ Top.i \in 1 .. Children(Top.n) /\ Top.i \notin ExprChildren(Top.n)
  <2>. DEFINE v == Visit(Child(Top.n, Top.i))
  <2>2. /\ Len(Descent) = N + 1
        /\ \A j \in 1 .. N : Descent[j] = Advanced[j]
        /\ Descent[N + 1] = v
    BY <1>1, <1>9, Descending DEF Descent, N
  <2>3. v.i \in {0, 1}
    BY DEF Visit
  <2>. HIDE DEF v
  <2>4. ASSUME NEW k \in 1 .. N + 1, NEW i \in 1 .. Children(Descent[k].n),
               i < Descent[k].i, k = N + 1 \/ i # Descent[k].i - 1
        PROVE  ChildTyped(Descent[2].n, T, seen, Descent[k].n, i)
    <3>1. CASE k = N + 1
      <4>1. Descent[k].i \in {0, 1}
        BY <2>2, <2>3, <3>1
      <4>. QED  BY <2>4, <4>1
    <3>0. k \in 1 .. N /\ k >= 2 => Descent[2].n = todo[2].n
      <4>1. k \in 1 .. N /\ k >= 2 => 2 \in 1 .. N
        BY <1>0, <1>9
      <4>. QED  BY <1>0, <1>9, <2>2, <4>1
    <3>2. CASE k = N
      <4>0. k \in 1 .. N
        BY <1>0, <1>9, <3>2
      <4>1. Descent[k].n = Top.n /\ Descent[k].i = Top.i + 1 /\ todo[k] = Top
        BY <1>0, <1>9, <2>2, <3>2, <4>0
      <4>2. i < Top.i
        BY <1>0, <1>9, <2>4, <3>2, <4>1
      <4>. QED  BY <1>2, <1>9, <2>4, <3>0, <3>2, <4>0, <4>1, <4>2
    <3>3. CASE k # N /\ k # N + 1
      <4>1. k \in 1 .. N
        BY <1>0, <1>9, <3>3
      <4>2. Descent[k] = todo[k]
        BY <1>0, <1>9, <2>2, <3>3, <4>1
      <4>. QED  BY <1>2, <1>9, <2>4, <3>0, <3>3, <4>1, <4>2
    <3>. QED  BY <3>1, <3>2, <3>3
  <2>5. TypedSoFar(Descent, T, seen)
    BY <2>2, <2>4 DEF TypedSoFar
  <2>. QED  BY <1>9, <2>5
<1>. QED  BY <1>1, <1>5, <1>6, <1>7, <1>8, <1>9 DEF Moves


-----------------------------------------------------------------------------
(* The table keeps showing what is seen.                                   *)

LEMMA VisibleSame ==
  ASSUME NEW t, NEW u, NEW d, NEW f, NEW types, Visible(t, d, f, types),
         \A c \in 2 .. d : \A x \in VarName \ LooseNames(f) :
            /\ x \in DOMAIN t[c] <=> x \in DOMAIN u[c]
            /\ x \in DOMAIN t[c] => u[c][x] = t[c][x]
  PROVE  Visible(u, d, f, types)
<1>. SUFFICES ASSUME NEW x \in VarName \ LooseNames(f)
              PROVE  /\ types[x] = NoType => \A c \in 2 .. d : x \notin DOMAIN u[c]
                     /\ types[x] # NoType =>
                           \E c \in 2 .. d :
                              /\ x \in DOMAIN u[c] /\ u[c][x].type = types[x]
                              /\ \A b \in 2 .. d : b > c => x \notin DOMAIN u[b]
  BY DEF Visible
<1>1. \A c \in 2 .. d : /\ x \in DOMAIN t[c] <=> x \in DOMAIN u[c]
                        /\ x \in DOMAIN t[c] => u[c][x] = t[c][x]
  OBVIOUS
<1>2. /\ types[x] = NoType => \A c \in 2 .. d : x \notin DOMAIN t[c]
      /\ types[x] # NoType =>
            \E c \in 2 .. d : /\ x \in DOMAIN t[c] /\ t[c][x].type = types[x]
                              /\ \A b \in 2 .. d : b > c => x \notin DOMAIN t[b]
  BY DEF Visible
<1>3. CASE types[x] = NoType
  BY <1>1, <1>2, <1>3
<1>4. CASE types[x] # NoType
  <2>1. PICK c \in 2 .. d : /\ x \in DOMAIN t[c] /\ t[c][x].type = types[x]
                            /\ \A b \in 2 .. d : b > c => x \notin DOMAIN t[b]
    BY <1>2, <1>4
  <2>2. x \in DOMAIN u[c] /\ u[c][x].type = types[x]
    BY <1>1, <2>1
  <2>3. \A b \in 2 .. d : b > c => x \notin DOMAIN u[b]
    BY <1>1, <2>1
  <2>. QED  BY <1>4, <2>2, <2>3
<1>. QED  BY <1>3, <1>4

(* A scope with nothing that matters shows no more.                        *)
LEMMA VisibleDeeper ==
  ASSUME NEW t, NEW d \in Nat, NEW f, NEW types, Visible(t, d, f, types),
         DOMAIN t[d + 1] = {}
  PROVE  Visible(t, d + 1, f, types)
<1>. SUFFICES ASSUME NEW x \in VarName \ LooseNames(f)
              PROVE  /\ types[x] = NoType => \A c \in 2 .. d + 1 : x \notin DOMAIN t[c]
                     /\ types[x] # NoType =>
                           \E c \in 2 .. d + 1 :
                              /\ x \in DOMAIN t[c] /\ t[c][x].type = types[x]
                              /\ \A b \in 2 .. d + 1 : b > c => x \notin DOMAIN t[b]
  BY DEF Visible
<1>1. \A c \in 2 .. d + 1 : c \in 2 .. d \/ x \notin DOMAIN t[c]
  OBVIOUS
<1>2. 2 .. d \subseteq 2 .. d + 1
  OBVIOUS
<1>3. /\ types[x] = NoType => \A c \in 2 .. d : x \notin DOMAIN t[c]
      /\ types[x] # NoType =>
            \E c \in 2 .. d : /\ x \in DOMAIN t[c] /\ t[c][x].type = types[x]
                              /\ \A b \in 2 .. d : b > c => x \notin DOMAIN t[b]
  BY DEF Visible
<1>. QED  BY <1>1, <1>2, <1>3

(* In the scopes to d the tables t and u differ in `name' at most.         *)
SameBut(t, u, d, f, name) ==
    \A c \in 2 .. d : \A x \in VarName \ LooseNames(f) :
       x # name => /\ x \in DOMAIN t[c] <=> x \in DOMAIN u[c]
                   /\ x \in DOMAIN t[c] => u[c][x] = t[c][x]

(* What is seen after a declaration, once it is in the innermost scope.    *)
LEMMA VisibleDeclared ==
  ASSUME NEW t, NEW u, NEW d \in Nat, d >= 2, NEW f, NEW types \in VarTypes, NEW name, NEW type,
         Visible(t, d, f, types), name \in VarName \ LooseNames(f), type # NoType,
         name \in DOMAIN u[d], u[d][name].type = type, SameBut(t, u, d, f, name)
  PROVE  Visible(u, d, f, [types EXCEPT ![name] = type])
<1>. DEFINE after == [types EXCEPT ![name] = type]
<1>. SUFFICES ASSUME NEW x \in VarName \ LooseNames(f)
              PROVE  /\ after[x] = NoType => \A c \in 2 .. d : x \notin DOMAIN u[c]
                     /\ after[x] # NoType =>
                           \E c \in 2 .. d :
                              /\ x \in DOMAIN u[c] /\ u[c][x].type = after[x]
                              /\ \A b \in 2 .. d : b > c => x \notin DOMAIN u[b]
  BY DEF Visible
<1>1. CASE x = name
  <2>1. after[x] = type
    BY <1>1 DEF VarTypes
  <2>2. d \in 2 .. d /\ \A b \in 2 .. d : ~(b > d)
    OBVIOUS
  <2>. HIDE DEF after
  <2>. QED  BY <1>1, <2>1, <2>2
<1>2. CASE x # name
  <2>1. after[x] = types[x]
    BY <1>2 DEF VarTypes
  <2>2. \A c \in 2 .. d : /\ x \in DOMAIN t[c] <=> x \in DOMAIN u[c]
                          /\ x \in DOMAIN t[c] => u[c][x] = t[c][x]
    BY <1>2 DEF SameBut
  <2>3. /\ types[x] = NoType => \A c \in 2 .. d : x \notin DOMAIN t[c]
        /\ types[x] # NoType =>
              \E c \in 2 .. d : /\ x \in DOMAIN t[c] /\ t[c][x].type = types[x]
                                /\ \A b \in 2 .. d : b > c => x \notin DOMAIN t[b]
    BY DEF Visible
  <2>. HIDE DEF after
  <2>4. CASE types[x] = NoType
    BY <2>1, <2>2, <2>3, <2>4
  <2>5. CASE types[x] # NoType
    <3>1. PICK c \in 2 .. d : /\ x \in DOMAIN t[c] /\ t[c][x].type = types[x]
                              /\ \A b \in 2 .. d : b > c => x \notin DOMAIN t[b]
      BY <2>3, <2>5
    <3>2. x \in DOMAIN u[c] /\ u[c][x].type = types[x]
      BY <2>2, <3>1
    <3>3. \A b \in 2 .. d : b > c => x \notin DOMAIN u[b]
      BY <2>2, <3>1
    <3>. QED  BY <2>1, <2>5, <3>2, <3>3
  <2>. QED  BY <2>4, <2>5
<1>. QED  BY <1>1, <1>2

(* What was seen when the node on top was turned to, and what is after it. *)
LEMMA BelowSees ==
  ASSUME CheckInv, Chain(todo), NEW seen, NEW T, Static(root, seen, T), Len(todo) >= 3,
         NEW k \in 2 .. Len(todo) - 1
  PROVE  /\ k < Len(todo) - 1 \/ k = 2 => Now(Below, seen, k) = Now(todo, seen, k)
         /\ k = Len(todo) - 1 /\ k # 2 =>
               /\ Now(todo, seen, k) = seen[Top.n]
               /\ Kind(todo[k].n) = "BLOCK" =>
                     Now(Below, seen, k) = SeenAfter(todo[2].n, seen, Top.n)
               /\ Kind(todo[k].n) # "BLOCK" => Now(Below, seen, k) = seen[Top.n]
<1>. DEFINE N == Len(todo)
            f == todo[2].n
<1>1. /\ N \in Nat /\ N >= 3 /\ todo # <<>> /\ Len(Below) = N - 1 /\ Top = todo[N]
      /\ \A j \in 1 .. N - 1 : Below[j] = todo[j]
      /\ Below[2] = todo[2]
  <2>1. N \in Nat /\ todo # <<>>
    BY DEF CheckInv, Path
  <2>2. /\ Len(Below) = N - 1 /\ Top = todo[N]
        /\ \A j \in 1 .. N - 1 : Below[j] = todo[j]
    BY <2>1, BelowIs, TopIs DEF CheckInv
  <2>3. 2 \in 1 .. N - 1
    BY <2>1
  <2>. QED  BY <2>1, <2>2, <2>3
<1>. HIDE DEF N
<1>2. CASE k = 2
  BY <1>1, <1>2 DEF Now
<1>3. CASE k # 2 /\ k < N - 1
  <2>1. k < Len(todo) /\ k < Len(Below) /\ k + 1 \in 1 .. N - 1
    BY <1>1, <1>3 DEF N
  <2>2. Below[k + 1] = todo[k + 1]
    BY <1>1, <2>1
  <2>. QED  BY <1>3, <2>1, <2>2 DEF Now, N
<1>4. CASE k # 2 /\ k = N - 1
  <2>1. k \in 3 .. Len(todo) - 1 /\ k \in 3 .. Len(todo) /\ k + 1 = N /\ k \in 1 .. N - 1
    BY <1>1, <1>4 DEF N
  <2>2. /\ Kind(todo[k].n) \in StmtKind /\ todo[k].n \in Node
        /\ todo[k].i - 1 \in 1 .. Children(todo[k].n) /\ todo[k].i \in Nat
        /\ todo[k + 1].n = Child(todo[k].n, todo[k].i - 1)
    BY <2>1, StackStmt
  <2>3. Top.n = Child(todo[k].n, todo[k].i - 1)
    BY <1>1, <2>1, <2>2
  <2>4. Now(todo, seen, k) = seen[Top.n]
    BY <1>1, <1>4, <2>1, <2>3 DEF Now, N
  <2>5. Now(Below, seen, k) = Before(f, seen, todo[k].n, todo[k].i)
    <3>1. ~(k < Len(Below)) /\ Below[k] = todo[k]
      BY <1>1, <1>4, <2>1
    <3>. QED  BY <1>1, <1>4, <3>1 DEF Now
  <2>6. todo[k].i > 1
    <3>1. todo[k].i - 1 >= 1 /\ todo[k].i \in Int
      BY <2>2
    <3>. QED  BY <3>1
  <2>7. Kind(todo[k].n) # "BLOCK" => seen[Top.n] = seen[todo[k].n]
    <3>1. Passes(f, seen, todo[k].n)
      BY <2>1, StackPasses
    <3>. QED  BY <2>2, <2>3, <3>1 DEF Passes, PassesOn
  <2>8. /\ Kind(todo[k].n) = "BLOCK" => Now(Below, seen, k) = SeenAfter(f, seen, Top.n)
        /\ Kind(todo[k].n) # "BLOCK" => Now(Below, seen, k) = seen[Top.n]
    BY <2>3, <2>5, <2>6, <2>7 DEF Before
  <2>. QED  BY <1>1, <1>4, <2>4, <2>8 DEF N
<1>. QED  BY <1>1, <1>2, <1>3, <1>4 DEF N


LEMMA BelowShown ==
  ASSUME CheckInv, Chain(todo), NEW seen, NEW T, Static(root, seen, T),
         Shown(todo, tab, seen), todo # <<>>, Kind(Top.n) # "VAR_DECL",
         NEW u, Len(u) \in Nat, \A d \in 2 .. Len(u) : d \in 2 .. Len(tab) /\ u[d] = tab[d],
         Len(todo) >= 3 => Depth(todo, Len(todo) - 1) <= Len(u)
  PROVE  Shown(Below, u, seen)
<1>. DEFINE N == Len(todo)
            f == todo[2].n
<1>1. N \in Nat \ {0} /\ Len(Below) = N - 1 /\ \A j \in 1 .. N - 1 : Below[j] = todo[j]
  BY TopIs, BelowIs DEF CheckInv
<1>2. CASE N <= 2
  <2>1. ~(Len(Below) >= 2) /\ 2 .. Len(Below) = {}
    BY <1>1, <1>2
  <2>. QED  BY <2>1 DEF Shown
<1>3. CASE N >= 3
  <2>1. Len(todo) >= 2 /\ Len(todo) > 2 /\ 2 \in 1 .. N - 1 /\ Below[2] = todo[2] /\ f = todo[2].n
    BY <1>1, <1>3
  <2>2. todo[2].i = 2
    BY <2>1, OnStack
  <2>3. LooseTyped(u, f) /\ ParamsSeen(f, seen[Child(f, 1)])
    <3>1. LooseTyped(tab, f) /\ ParamsSeen(f, seen[Child(f, 1)])
      BY <2>1, <2>2 DEF Shown
    <3>. QED  BY <3>1 DEF LooseTyped
  <2>4. ASSUME NEW k \in 2 .. N - 1 PROVE Shows(Below, u, seen, k)
    <3>1. Now(Below, seen, k) = Now(todo, seen, k)
      <4>1. SeenAfter(f, seen, Top.n) = seen[Top.n]
        BY DEF SeenAfter
      <4>2. /\ k < Len(todo) - 1 \/ k = 2 => Now(Below, seen, k) = Now(todo, seen, k)
            /\ k = Len(todo) - 1 /\ k # 2 =>
                  /\ Now(todo, seen, k) = seen[Top.n]
                  /\ Kind(todo[k].n) = "BLOCK" =>
                        Now(Below, seen, k) = SeenAfter(f, seen, Top.n)
                  /\ Kind(todo[k].n) # "BLOCK" => Now(Below, seen, k) = seen[Top.n]
        BY <1>3, BelowSees
      <4>3. k < Len(todo) - 1 \/ k = Len(todo) - 1
        BY <1>1
      <4>. QED  BY <4>1, <4>2, <4>3
    <3>2. Depth(Below, k) = Depth(todo, k)
      <4>1. \A j \in 1 .. k : Below[j] = todo[j]
        BY <1>1
      <4>. QED  BY <4>1, DepthSame
    <3>3. Depth(todo, k) <= Len(u) /\ Depth(todo, k) \in Nat
      <4>1. k \in Nat /\ N - 1 \in Nat /\ k <= N - 1
        BY <1>1
      <4>2. Depth(todo, k) <= Depth(todo, N - 1) /\ Depth(todo, k) \in Nat
            /\ Depth(todo, N - 1) \in Nat
        BY <4>1, DepthGrows, DepthIs
      <4>. QED  BY <1>3, <4>2
    <3>4. Visible(tab, Depth(todo, k), f, Now(todo, seen, k))
      <4>1. k \in 2 .. Len(todo)
        BY <1>1
      <4>. QED  BY <2>2, <4>1 DEF Shown, Shows
    <3>5. \A c \in 2 .. Depth(todo, k) : u[c] = tab[c]
      BY <3>3
    <3>6. Visible(u, Depth(todo, k), f, Now(todo, seen, k))
      BY <3>4, <3>5, VisibleSame
    <3>. QED  BY <2>1, <3>1, <3>2, <3>6 DEF Shows
  <2>. QED  BY <1>1, <2>1, <2>3, <2>4 DEF Shown
<1>. QED  BY <1>1, <1>2, <1>3

LEMMA LeftScopeShown ==
  ASSUME CheckInv, Chain(todo), NEW seen, NEW T, Static(root, seen, T),
         Shown(todo, tab, seen), todo # <<>>, Opens(Top)
  PROVE  Shown(Below, symtab_leave_scope(tab), seen)
<1>. DEFINE N == Len(todo)
            u == symtab_leave_scope(tab)
<1>1. N \in Nat \ {0} /\ Top = todo[N] /\ tab \in Seq(Scope) /\ Len(tab) \in Nat \ {0}
      /\ Depth(todo, N) = Len(tab)
  BY TopIs, TabNotEmpty, DepthInTable DEF CheckInv
<1>2. Kind(Top.n) # "VAR_DECL"
  BY DEF Opens
<1>3. N - 1 \in Nat /\ (N - 1) + 1 = N
  BY <1>1
<1>4. Depth(todo, N - 1) = Len(tab) - 1 /\ Depth(todo, N - 1) \in Nat \ {0}
  <2>1. Depth(todo, N) = Depth(todo, N - 1) + 1 /\ Depth(todo, N - 1) \in Nat \ {0}
    BY <1>1, <1>3, DepthIs
  <2>. QED  BY <1>1, <2>1
<1>5. Len(u) = Len(tab) - 1 /\ \A d \in 2 .. Len(u) : d \in 2 .. Len(tab) /\ u[d] = tab[d]
  <2>1. u = SubSeq(tab, 1, Len(tab) - 1)
    BY <1>1, <1>4 DEF symtab_leave_scope
  <2>. QED  BY <1>1, <1>4, <2>1
<1>6. Len(u) \in Nat /\ Depth(todo, N - 1) <= Len(u)
  BY <1>1, <1>4, <1>5
<1>. HIDE DEF u
<1>7. Shown(Below, u, seen)
  BY <1>2, <1>5, <1>6, BelowShown
<1>. QED  BY <1>7 DEF u

LEMMA InsertedSymbol ==
  ASSUME tab \in Seq(Scope), Len(tab) \in Nat \ {0}, NEW name, NEW symbol, NEW u,
         u = symtab_insert(tab, name, symbol), ~DeclaredHere(tab, name)
  PROVE  /\ Len(u) = Len(tab) /\ u[Len(tab)][name] = symbol
         /\ DOMAIN u[Len(tab)] = DOMAIN tab[Len(tab)] \cup {name}
         /\ \A x \in DOMAIN tab[Len(tab)] : u[Len(tab)][x] = tab[Len(tab)][x]
         /\ \A d \in 1 .. Len(tab) : d # Len(tab) => u[d] = tab[d]
<1>. DEFINE scope == [n \in DOMAIN Current(tab) \cup {name} |->
                         IF n \in DOMAIN Current(tab) THEN Current(tab)[n] ELSE symbol]
<1>1. u = [tab EXCEPT ![Len(tab)] = scope]
  BY DEF symtab_insert
<1>2. scope[name] = symbol
  BY DEF DeclaredHere
<1>3. DOMAIN scope = DOMAIN tab[Len(tab)] \cup {name}
      /\ \A x \in DOMAIN tab[Len(tab)] : scope[x] = tab[Len(tab)][x]
  BY DEF Current
<1>. HIDE DEF scope
<1>4. Len(u) = Len(tab) /\ u[Len(tab)] = scope
      /\ \A d \in 1 .. Len(tab) : d # Len(tab) => u[d] = tab[d]
  BY <1>1
<1>. QED  BY <1>2, <1>3, <1>4

LEMMA DeclaredShown ==
  ASSUME NEW seen, NEW T, Ready(seen, T), todo # <<>>, Kind(Top.n) = "VAR_DECL",
         ~DeclaredHere(tab, Ast[Top.n].name), NEW u,
         u = symtab_insert(tab, Ast[Top.n].name, Variable(Ast[Top.n].type))
  PROVE  Shown(Below, u, seen)
<1>. DEFINE N == Len(todo)
            f == todo[2].n
            n == Top.n
            name == Ast[n].name
            type == Ast[n].type
            L == Len(tab)
<1>1. /\ CheckInv /\ Chain(todo) /\ Static(root, seen, T) /\ Shown(todo, tab, seen)
      /\ KeepsClear(root, MaxParams)
  BY DEF Ready, JudgeInv
<1>2. /\ f \in FunctionsOf(root) /\ f \in Node /\ n \in Node /\ n \in Subtree(f)
      /\ Passes(f, seen, n) /\ L >= 2 /\ N >= 3 /\ Top = todo[N]
  BY InFunction
<1>3. /\ tab \in Seq(Scope) /\ L \in Nat \ {0} /\ N \in Nat /\ Depth(todo, N) = L
      /\ Len(Below) = N - 1 /\ \A j \in 1 .. N - 1 : Below[j] = todo[j]
  BY <1>1, TabNotEmpty, DepthInTable, TopIs, BelowIs DEF CheckInv
<1>4. /\ Len(u) = L /\ u[L][name] = Variable(type)
      /\ DOMAIN u[L] = DOMAIN tab[L] \cup {name}
      /\ \A x \in DOMAIN tab[L] : u[L][x] = tab[L][x]
      /\ \A d \in 1 .. L : d # L => u[d] = tab[d]
  BY <1>3, InsertedSymbol
<1>5. name \in VarName /\ type \in DataType /\ Variable(type).type = type
  BY <1>2, NodeIs, AstAssumption DEF Variable
<1>6. type # NoType
  BY <1>5 DEF DataType, NoType
<1>7. name \in LooseNames(f) => type = "INT"
  <2>1. n \in Nodes(f, {"VAR_DECL"})
    BY <1>2 DEF Nodes
  <2>2. LooseAreInts(f)
    BY <1>1, <1>2 DEF KeepsClear
  <2>. HIDE DEF n, f
  <2>. QED  BY <2>1, <2>2 DEF LooseAreInts
<1>8. /\ 2 \in 1 .. N - 1 /\ Below[2] = todo[2] /\ Len(todo) >= 2 /\ todo[2].i = 2
      /\ L \in 2 .. L
  BY <1>1, <1>2, <1>3, OnStack
<1>9. Kind(n) = "VAR_DECL"
  OBVIOUS
<1>10. \A k \in 2 .. N - 1 : Visible(tab, Depth(todo, k), f, Now(todo, seen, k))
  <2>1. ASSUME NEW k \in 2 .. N - 1 PROVE Shows(todo, tab, seen, k)
    <3>1. k \in 2 .. Len(todo)
      BY <1>3
    <3>. QED  BY <1>1, <3>1 DEF Shown
  <2>. QED  BY <1>8, <2>1 DEF Shows
<1>11. LooseTyped(tab, f) /\ ParamsSeen(f, seen[Child(f, 1)])
  BY <1>1, <1>8 DEF Shown
<1>12. \A k \in 2 .. N - 1 : /\ Depth(Below, k) = Depth(todo, k)
                             /\ Depth(todo, k) \in Nat /\ Depth(todo, k) <= L
  <2>1. ASSUME NEW k \in 2 .. N - 1
        PROVE  Depth(Below, k) = Depth(todo, k) /\ Depth(todo, k) \in 1 .. L
    <3>1. \A j \in 1 .. k : Below[j] = todo[j]
      BY <1>3
    <3>2. k \in 1 .. Len(todo)
      BY <1>3
    <3>. QED  BY <1>1, <3>1, <3>2, DepthSame, DepthInTable
  <2>. QED  BY <1>3, <2>1
<1>. HIDE DEF N, f, name, type, L
<1>13. \A d \in 2 .. L : \A x : x # name =>
          /\ x \in DOMAIN tab[d] <=> x \in DOMAIN u[d]
          /\ x \in DOMAIN tab[d] => u[d][x] = tab[d][x]
  <2>1. ASSUME NEW d \in 2 .. L, NEW x, x # name
        PROVE  /\ x \in DOMAIN tab[d] <=> x \in DOMAIN u[d]
               /\ x \in DOMAIN tab[d] => u[d][x] = tab[d][x]
    <3>1. CASE d = L
      BY <1>4, <2>1, <3>1
    <3>2. CASE d # L
      <4>1. d \in 1 .. L
        BY <1>3
      <4>. QED  BY <1>4, <3>2, <4>1
    <3>. QED  BY <3>1, <3>2
  <2>. QED  BY <2>1
<1>14. LooseTyped(u, f)
  <2>1. ASSUME NEW d \in 2 .. L, NEW x \in DOMAIN u[d], x \in LooseNames(f)
        PROVE  u[d][x].type = "INT"
    <3>1. CASE d = L /\ x = name /\ x \notin DOMAIN tab[L]
      BY <1>4, <1>5, <1>7, <2>1, <3>1
    <3>2. CASE d = L /\ x \in DOMAIN tab[L]
      BY <1>4, <1>11, <2>1, <3>2 DEF LooseTyped, L
    <3>3. CASE d # L
      <4>1. d \in 1 .. L
        BY <1>3
      <4>2. u[d] = tab[d]
        BY <1>4, <3>3, <4>1
      <4>. QED  BY <1>11, <2>1, <4>2 DEF LooseTyped, L
    <3>. QED  BY <1>4, <2>1, <3>1, <3>2, <3>3
  <2>. QED  BY <1>4, <2>1 DEF LooseTyped
<1>15. ASSUME NEW k \in 2 .. N - 1, name \in LooseNames(f) \/ Depth(todo, k) < L
       PROVE  Visible(u, Depth(todo, k), f, Now(todo, seen, k))
  <2>1. \A c \in 2 .. Depth(todo, k) : \A x \in VarName \ LooseNames(f) :
            /\ x \in DOMAIN tab[c] <=> x \in DOMAIN u[c]
            /\ x \in DOMAIN tab[c] => u[c][x] = tab[c][x]
    <3>1. CASE name \in LooseNames(f)
      <4>1. \A c \in 2 .. Depth(todo, k) : c \in 2 .. L
        BY <1>3, <1>12
      <4>. QED  BY <1>13, <3>1, <4>1
    <3>2. CASE Depth(todo, k) < L
      <4>1. \A c \in 2 .. Depth(todo, k) : c \in 1 .. L /\ c # L
        BY <1>3, <1>12, <3>2
      <4>. QED  BY <1>4, <4>1
    <3>. QED  BY <1>15, <3>1, <3>2
  <2>. QED  BY <1>10, <2>1, VisibleSame
<1>16. ASSUME NEW k \in 2 .. N - 1 PROVE Shows(Below, u, seen, k)
  <2>0. /\ k < N - 1 \/ k = 2 => Now(Below, seen, k) = Now(todo, seen, k)
        /\ k = N - 1 /\ k # 2 =>
              /\ Now(todo, seen, k) = seen[n]
              /\ Kind(todo[k].n) = "BLOCK" => Now(Below, seen, k) = SeenAfter(f, seen, n)
              /\ Kind(todo[k].n) # "BLOCK" => Now(Below, seen, k) = seen[n]
    BY <1>1, <1>2, BelowSees DEF N, f
  <2>1. k \in Nat /\ N \in Nat /\ Depth(Below, k) = Depth(todo, k)
    BY <1>3, <1>12
  <2>2. 3 \in 1 .. N - 1 /\ Opens(todo[3])
    BY <1>1, <1>9, BodyIsOpen DEF N
  <2>. SUFFICES Visible(u, Depth(todo, k), f, Now(Below, seen, k))
    BY <1>8, <2>1 DEF Shows, f
  <2>3. CASE name \in LooseNames(f)
    <3>1. SeenAfter(f, seen, n) = seen[n]
      BY <2>3 DEF SeenAfter, name
    <3>2. Now(Below, seen, k) = Now(todo, seen, k)
      BY <2>0, <2>1, <3>1
    <3>. QED  BY <1>15, <2>3, <3>2
  <2>4. CASE name \notin LooseNames(f)
    <3>1. N - 1 \in 3 .. Len(todo) - 1 /\ N - 1 \in Nat /\ (N - 1) + 1 = N /\ N - 1 # 2
      BY <1>3, <2>2 DEF N
    <3>2. /\ Kind(todo[N - 1].n) \in StmtKind /\ todo[N - 1].n \in Node
          /\ todo[N - 1].i - 1 \in 1 .. Children(todo[N - 1].n) /\ todo[N - 1].i \in Nat
          /\ todo[(N - 1) + 1].n = Child(todo[N - 1].n, todo[N - 1].i - 1)
          /\ todo[N - 1].n \in Subtree(f)
      <4>1. N - 1 \in 3 .. Len(todo)
        BY <3>1
      <4>. QED  BY <1>1, <3>1, <4>1, StackStmt, StackPasses DEF f
    <3>. DEFINE p == todo[N - 1].n
                i == todo[N - 1].i - 1
    <3>3. n = Child(p, i)
      BY <1>2, <3>1, <3>2
    <3>4. Kind(p) = "BLOCK"
      <4>1. Kind(p) \notin {"IF", "WHILE", "FOR"}
        <5>1. CASE Kind(p) \in {"IF", "WHILE", "FOR"}
          <6>1. p \in Nodes(f, {"IF", "WHILE", "FOR"})
            BY <3>2, <5>1 DEF Nodes
          <6>2. i \in {i1 \in 1 .. Children(p) : Kind(Child(p, i1)) = "VAR_DECL"}
            BY <1>9, <3>2, <3>3
          <6>. HIDE DEF p, i
          <6>3. Ast[Child(p, i)].name \in LooseNames(f)
            BY <6>1, <6>2 DEF LooseNames
          <6>. QED  BY <2>4, <3>3, <6>3 DEF name
        <5>. QED  BY <5>1
      <4>2. Kind(p) \notin {"VAR_DECL", "ASSIGN", "RETURN", "PRINT"}
        <5>1. i \notin ExprChildren(p)
          <6>1. N - 1 \in 1 .. Len(todo) - 1
            BY <3>1
          <6>. QED  BY <1>1, <6>1 DEF Chain
        <5>. HIDE DEF p, i
        <5>2. p \in Node /\ i \in 1 .. Children(p)
          BY <3>2 DEF p, i
        <5>. QED  BY <5>1, <5>2, ExprChildrenAre
      <4>. QED  BY <3>2, <4>1, <4>2 DEF StmtKind
    <3>5. Opens(todo[N - 1])
      <4>1. todo[N - 1].i > 0
        BY <3>2
      <4>. QED  BY <3>4, <4>1 DEF Opens
    <3>6. ~Opens(todo[N])
      BY <1>2, <1>9 DEF Opens
    <3>7. Depth(todo, N - 1) = L
      <4>1. Depth(todo, N) = Depth(todo, N - 1) + 0 /\ Depth(todo, N - 1) \in Nat
        BY <3>1, <3>6, DepthIs
      <4>. QED  BY <1>3, <4>1 DEF N, L
    <3>8. CASE k = N - 1
      <4>1. Now(todo, seen, k) = seen[n] /\ Now(Below, seen, k) = SeenAfter(f, seen, n)
        BY <2>0, <3>1, <3>4, <3>8
      <4>2. SeenAfter(f, seen, n) = [seen[n] EXCEPT ![name] = type]
        BY <1>9, <2>4 DEF SeenAfter, name, type
      <4>3. Visible(tab, L, f, seen[n])
        BY <1>10, <3>7, <3>8, <4>1
      <4>4. seen[n] \in VarTypes
        BY <1>1, <1>2 DEF Static
      <4>5. Visible(u, L, f, [seen[n] EXCEPT ![name] = type])
        <5>1. name \in VarName \ LooseNames(f) /\ L \in Nat /\ L >= 2
              /\ name \in DOMAIN u[L] /\ u[L][name].type = type
          BY <1>2, <1>3, <1>4, <1>5, <2>4
        <5>2. SameBut(tab, u, L, f, name)
          BY <1>13 DEF SameBut
        <5>. QED  BY <1>6, <4>3, <4>4, <5>1, <5>2, VisibleDeclared
      <4>. QED  BY <3>7, <3>8, <4>1, <4>2, <4>5
    <3>9. CASE k # N - 1
      <4>1. Now(Below, seen, k) = Now(todo, seen, k)
        BY <2>0, <2>1, <3>9
      <4>2. Depth(todo, k) < Depth(todo, N - 1)
        <5>1. N - 1 \in k + 1 .. N - 1 /\ k <= N - 1
          BY <2>1, <3>1, <3>9
        <5>. QED  BY <2>1, <3>1, <3>5, <5>1, DepthGrows
      <4>. QED  BY <1>15, <3>7, <4>1, <4>2
    <3>. QED  BY <3>8, <3>9
  <2>. QED  BY <2>3, <2>4
<1>17. Len(Below) = N - 1
  BY <1>3 DEF N
<1>. QED  BY <1>8, <1>11, <1>14, <1>16, <1>17 DEF Shown, f


(* The node on top turns to its next child, without or with a new scope.   *)
LEMMA AdvancedShown ==
  ASSUME NEW seen, NEW T, Ready(seen, T), todo # <<>>, NEW u,
         \/ u = tab /\ Kind(Top.n) \in {"IF", "WHILE", "FOR"}
         \/ u = Append(tab, EmptyScope) /\ Kind(Top.n) = "BLOCK" /\ Top.i = 0
  PROVE  Shown(Advanced, u, seen)
<1>. DEFINE N == Len(todo)
            f == todo[2].n
            L == Len(tab)
<1>1. /\ CheckInv /\ Chain(todo) /\ Shown(todo, tab, seen)
  BY DEF Ready, JudgeInv
<1>2. /\ L >= 2 /\ N >= 3 /\ Top = todo[N] /\ Top.i \in Nat
  BY InFunction
<1>3. /\ tab \in Seq(Scope) /\ L \in Nat \ {0} /\ N \in Nat /\ Depth(todo, N) = L
  BY <1>1, TabNotEmpty, DepthInTable, TopIs DEF CheckInv
<1>4. /\ Len(Advanced) = N
      /\ \A k \in 1 .. N : k # N =>
            /\ Advanced[k] = todo[k] /\ Depth(Advanced, k) = Depth(todo, k)
            /\ Depth(todo, k) \in 1 .. L
      /\ Advanced[N].n = Top.n /\ Advanced[N].i = Top.i + 1
      /\ Depth(Advanced, N) = IF Kind(Top.n) \in {"FUNC_DECL", "BLOCK"} /\ Top.i = 0
                              THEN L + 1 ELSE L
  BY <1>1, AdvancedDepth
<1>5. /\ Len(todo) >= 2 /\ todo[2].i = 2 /\ 2 \in 1 .. N /\ 2 # N
  BY <1>1, <1>2, <1>3, OnStack
<1>6. Advanced[2] = todo[2]
  BY <1>4, <1>5
<1>7. /\ \A c \in 2 .. L : u[c] = tab[c]
      /\ \/ Len(u) = L
         \/ Len(u) = L + 1 /\ DOMAIN u[L + 1] = {}
  <2>1. DOMAIN EmptyScope = {}
    BY DEF EmptyScope
  <2>. QED  BY <1>3, <2>1
<1>8. LooseTyped(tab, f) /\ ParamsSeen(f, seen[Child(f, 1)])
  BY <1>1, <1>5 DEF Shown
<1>9. \A k \in 2 .. N : Visible(tab, Depth(todo, k), f, Now(todo, seen, k))
  BY <1>1, <1>5 DEF Shown, Shows
<1>. HIDE DEF N, f, L
<1>10. LooseTyped(u, f)
  <2>1. ASSUME NEW d \in 2 .. Len(u), NEW x \in DOMAIN u[d], x \in LooseNames(f)
        PROVE  u[d][x].type = "INT"
    <3>1. d \in 2 .. L \/ Len(u) = L + 1
      BY <1>3, <1>7, <2>1
    <3>2. d \in 2 .. L
      <4>1. CASE Len(u) = L + 1
        <5>1. DOMAIN u[L + 1] = {}
          BY <1>3, <1>7, <4>1
        <5>2. d # L + 1
          BY <2>1, <5>1
        <5>. QED  BY <1>3, <2>1, <4>1, <5>2
      <4>. QED  BY <3>1, <4>1
    <3>3. x \in DOMAIN tab[d] /\ u[d] = tab[d]
      BY <1>7, <3>2
    <3>. QED  BY <1>8, <2>1, <3>2, <3>3 DEF LooseTyped, L
  <2>. QED  BY <2>1 DEF LooseTyped
<1>11. ASSUME NEW k \in 2 .. N PROVE Shows(Advanced, u, seen, k)
  <2>1. Depth(todo, k) \in 1 .. L
    <3>1. k \in 1 .. Len(todo)
      BY <1>3 DEF N
    <3>. QED  BY <1>1, <3>1, DepthInTable DEF L
  <2>2. Visible(u, Depth(todo, k), f, Now(todo, seen, k))
    <3>1. \A c \in 2 .. Depth(todo, k) : u[c] = tab[c]
      BY <1>3, <1>7, <2>1
    <3>. QED  BY <1>9, <3>1, VisibleSame
  <2>. SUFFICES Visible(u, Depth(Advanced, k), f, Now(Advanced, seen, k))
    BY <1>6 DEF Shows, f
  <2>3. CASE k # N
    <3>1. k \in 1 .. N /\ k < N /\ k + 1 \in 1 .. N
      BY <1>3, <2>3
    <3>2. Advanced[k + 1].n = todo[k + 1].n
      BY <1>2, <1>4, <3>1
    <3>3. Now(Advanced, seen, k) = Now(todo, seen, k)
      BY <1>4, <1>6, <3>1, <3>2 DEF Now, N
    <3>. QED  BY <1>4, <2>2, <2>3, <3>1, <3>3
  <2>4. CASE k = N
    <3>1. /\ Now(todo, seen, k) = Before(f, seen, Top.n, Top.i)
          /\ Now(Advanced, seen, k) = Before(f, seen, Top.n, Top.i + 1)
      BY <1>2, <1>4, <1>5, <1>6, <2>4 DEF Now, N, f
    <3>2. Now(Advanced, seen, k) = Now(todo, seen, k)
      BY <1>2, <3>1 DEF Before
    <3>3. CASE u = tab /\ Kind(Top.n) \in {"IF", "WHILE", "FOR"}
      <4>1. Depth(Advanced, N) = Depth(todo, N)
        BY <1>3, <1>4, <3>3 DEF N, L
      <4>. QED  BY <2>2, <2>4, <3>2, <4>1
    <3>4. CASE u = Append(tab, EmptyScope) /\ Kind(Top.n) = "BLOCK" /\ Top.i = 0
      <4>1. Depth(Advanced, N) = L + 1 /\ Depth(todo, N) = L /\ L \in Nat
        BY <1>3, <1>4, <3>4 DEF N, L
      <4>2. DOMAIN u[L + 1] = {}
        BY <1>3, <3>4 DEF EmptyScope, L
      <4>3. Visible(u, L, f, Now(todo, seen, k))
        BY <2>2, <2>4, <4>1
      <4>4. Visible(u, L + 1, f, Now(todo, seen, k))
        BY <4>1, <4>2, <4>3, VisibleDeeper
      <4>. QED  BY <2>4, <3>2, <4>1, <4>4
    <3>. QED  BY <3>3, <3>4
  <2>. QED  BY <2>3, <2>4
<1>. QED  BY <1>4, <1>5, <1>6, <1>8, <1>10, <1>11 DEF Shown, f, N

LEMMA DescentShown ==
  ASSUME NEW seen, NEW T, Ready(seen, T), todo # <<>>,
         Top.i \in 1 .. Children(Top.n), Top.i \notin ExprChildren(Top.n)
  PROVE  Shown(Descent, tab, seen)
<1>. DEFINE N == Len(todo)
            f == todo[2].n
            c == Child(Top.n, Top.i)
            L == Len(tab)
<1>1. /\ CheckInv /\ Chain(todo) /\ Shown(todo, tab, seen) /\ Static(root, seen, T)
  BY DEF Ready, JudgeInv
<1>2. /\ N \in Nat \ {0} /\ Top = todo[N] /\ Top.i \in Nat /\ Top.n \in Node
      /\ Kind(Top.n) = "PROGRAM" <=> N = 1
      /\ Kind(Top.n) = "FUNC_DECL" <=> N = 2
      /\ Len(Advanced) = N
      /\ \A j \in 1 .. N : /\ Advanced[j].n = todo[j].n
                           /\ j # N => Advanced[j] = todo[j]
      /\ Advanced[N].i = Top.i + 1
  BY <1>1, TopIs, Advancing DEF CheckInv
<1>3. /\ Len(Descent) = N + 1
      /\ \A j \in 1 .. N : Descent[j] = Advanced[j]
      /\ Descent[N + 1] = Visit(c)
  BY <1>1, Descending DEF Descent, CheckInv
<1>4. /\ Visit(c).n = c /\ Visit(c).i \in {0, 1}
      /\ Kind(c) \in {"BLOCK", "FUNC_DECL", "PROGRAM"} => Visit(c).i = 0
  BY DEF Visit
<1>5. ~Opens(Visit(c))
  BY <1>4 DEF Opens
<1>6. \A j \in 1 .. N : Opens(Descent[j]) <=> Opens(todo[j])
  <2>1. ASSUME NEW j \in 1 .. N PROVE Opens(Descent[j]) <=> Opens(todo[j])
    <3>1. CASE j # N
      BY <1>2, <1>3, <3>1
    <3>2. CASE j = N
      <4>1. Descent[j].n = todo[j].n /\ Descent[j].i > 0 /\ todo[j].i > 0
        BY <1>2, <1>3, <3>2
      <4>. QED  BY <4>1 DEF Opens
    <3>. QED  BY <3>1, <3>2
  <2>. QED  BY <2>1
<1>. HIDE DEF N, f, c, L
<1>7. /\ \A k \in 1 .. N : Depth(Descent, k) = Depth(todo, k)
      /\ Depth(Descent, N + 1) = Depth(todo, N)
  <2>1. ASSUME NEW k \in 1 .. N PROVE Depth(Descent, k) = Depth(todo, k)
    <3>1. \A j \in 1 .. k : j \in 1 .. N
      BY <1>2
    <3>2. \A j \in 1 .. k : Opens(Descent[j]) <=> Opens(todo[j])
      BY <1>6, <3>1
    <3>. QED  BY <3>2, DepthSame
  <2>2. Depth(Descent, N + 1) = Depth(Descent, N)
    <3>1. N \in Nat
      BY <1>2
    <3>2. Depth(Descent, N) \in Nat /\ Depth(Descent, N + 1) = Depth(Descent, N) + 0
      BY <1>3, <1>5, <3>1, DepthIs
    <3>. QED  BY <3>2
  <2>3. N \in 1 .. N
    BY <1>2
  <2>. QED  BY <2>1, <2>2, <2>3
<1>8. CASE N = 1
  <2>1. Len(Descent) = 2 /\ Descent[2] = Visit(c)
    BY <1>3, <1>8
  <2>2. Kind(c) = "FUNC_DECL"
    BY <1>2, <1>8, ChildIs DEF c
  <2>3. Descent[2].i = 0
    BY <1>4, <2>1, <2>2
  <2>4. LooseTyped(tab, Descent[2].n)
    <3>1. Depth(todo, N) = Len(tab)
      BY <1>1, DepthInTable DEF N
    <3>2. Depth(todo, N) = 1
      <4>1. ~Opens(todo[1])
        BY <1>2, <1>8 DEF Opens
      <4>2. {j \in 1 .. N : Opens(todo[j])} = {}
        BY <1>8, <4>1
      <4>3. Depth(todo, N) = 1 + Cardinality({})
        BY <4>2 DEF Depth
      <4>4. Cardinality({}) = 0
        BY FS_EmptySet
      <4>. QED  BY <4>3, <4>4
    <3>3. 2 .. Len(tab) = {}
      BY <3>1, <3>2
    <3>. QED  BY <3>3 DEF LooseTyped
  <2>5. \A k \in 2 .. 2 : k = 2
    OBVIOUS
  <2>6. \A k \in 2 .. Len(Descent) : Shows(Descent, tab, seen, k)
    BY <2>1, <2>3 DEF Shows
  <2>. QED  BY <2>1, <2>3, <2>4, <2>6 DEF Shown
<1>9. CASE N >= 2
  <2>1. /\ 2 \in 1 .. N /\ Len(todo) >= 2 /\ Descent[2].n = f /\ N \in 1 .. N
    BY <1>2, <1>3, <1>9 DEF N, f
  <2>2. todo[2].i > 0
    <3>1. CASE N = 2
      BY <1>2, <3>1
    <3>2. CASE N # 2
      BY <1>1, <1>2, <1>9, <3>2, OnStack DEF N
    <3>. QED  BY <3>1, <3>2
  <2>3. LooseTyped(tab, f) /\ ParamsSeen(f, seen[Child(f, 1)])
    BY <1>1, <2>1, <2>2 DEF Shown, f
  <2>4. \A k \in 2 .. N : Visible(tab, Depth(todo, k), f, Now(todo, seen, k))
    BY <1>1, <2>2 DEF Shown, Shows, f, N
  <2>5. Now(todo, seen, N) = seen[c]
    <3>1. CASE N = 2
      <4>1. Top.n = f /\ f \in FunctionsOf(root)
        BY <1>1, <1>2, <2>1, <3>1, OnStack DEF f
      <4>2. Children(f) = 1
        BY <1>1, <4>1, FunctionIs DEF CheckInv
      <4>3. Top.i = 1
        BY <4>1, <4>2
      <4>. QED  BY <3>1, <4>1, <4>3 DEF Now, f, c, N
    <3>2. CASE N # 2
      <4>0. Len(todo) \in 3 .. Len(todo)
        BY <1>2, <1>9, <3>2 DEF N
      <4>1. Passes(f, seen, Top.n) /\ Top.n \in Node
        BY <1>1, <1>2, <4>0, StackPasses DEF f, N
      <4>2. Now(todo, seen, N) = Before(f, seen, Top.n, Top.i)
        BY <1>2, <3>2, <2>1 DEF Now, f, N
      <4>3. Kind(Top.n) \in StmtKind
        <5>1. Kind(Top.n) \notin {"PROGRAM", "FUNC_DECL"} /\ Kind(Top.n) \in NodeKind
          BY <1>2, <1>9, <3>2, NodeIs
        <5>2. Kind(Top.n) \notin ExprKind
          <6>1. CASE Kind(Top.n) \in {"BINARY_OP", "UNARY_OP"}
            BY <1>2, <6>1, ExprChildrenAre
          <6>2. CASE Kind(Top.n) \in {"CALL", "LITERAL", "VAR_REF"}
            <7>1. Children(Top.n) = 0
              BY <1>2, <6>2, AstAssumption DEF WellShaped, WellCounted
            <7>. QED  BY <7>1
          <6>. QED  BY <6>1, <6>2 DEF ExprKind
        <5>. QED  BY <5>1, <5>2 DEF NodeKind
      <4>4. PassesOn(f, seen, Top.n)
        BY <4>1, <4>3 DEF Passes
      <4>. QED  BY <4>2, <4>4 DEF PassesOn, Before, c
    <3>. QED  BY <3>1, <3>2
  <2>6. ASSUME NEW k \in 2 .. N + 1 PROVE Shows(Descent, tab, seen, k)
    <3>1. CASE k = N + 1
      <4>1. Now(Descent, seen, k) = Before(f, seen, c, Visit(c).i)
        <5>1. k # 2 /\ ~(k < Len(Descent))
          BY <1>2, <1>3, <1>9, <3>1
        <5>. QED  BY <1>3, <1>4, <2>1, <3>1, <5>1 DEF Now
      <4>2. Before(f, seen, c, Visit(c).i) = seen[c]
        <5>1. ~(Visit(c).i > 1)
          BY <1>4
        <5>. QED  BY <5>1 DEF Before
      <4>3. N \in 2 .. N
        BY <1>2, <1>9
      <4>4. Visible(tab, Depth(Descent, k), f, Now(Descent, seen, k))
        BY <1>7, <2>4, <2>5, <3>1, <4>1, <4>2, <4>3
      <4>. QED  BY <2>1, <4>4 DEF Shows
    <3>2. CASE k # N + 1
      <4>1. k \in 2 .. N /\ k \in 1 .. N /\ k < Len(Descent)
        BY <1>2, <1>3, <3>2
      <4>2. Now(Descent, seen, k) = Now(todo, seen, k)
        <5>1. CASE k = 2
          BY <2>1, <5>1 DEF Now, f
        <5>2. CASE k # 2 /\ k < N
          <6>1. k + 1 \in 1 .. N
            BY <4>1, <5>2, <1>2
          <6>2. Descent[k + 1].n = todo[k + 1].n
            BY <1>2, <1>3, <6>1
          <6>. QED  BY <4>1, <5>2, <6>2 DEF Now, N
        <5>3. CASE k # 2 /\ k = N
          <6>1. Now(Descent, seen, k) = seen[Descent[N + 1].n]
            BY <4>1, <5>3 DEF Now
          <6>. QED  BY <1>3, <1>4, <2>5, <5>3, <6>1
        <5>. QED  BY <1>2, <4>1, <5>1, <5>2, <5>3
      <4>3. Visible(tab, Depth(Descent, k), f, Now(Descent, seen, k))
        BY <1>7, <2>4, <4>1, <4>2
      <4>. QED  BY <2>1, <4>3 DEF Shows
    <3>. QED  BY <3>1, <3>2
  <2>. QED  BY <1>3, <2>1, <2>3, <2>6 DEF Shown
<1>. QED  BY <1>2, <1>8, <1>9

-----------------------------------------------------------------------------
(* A function whose parameters are counted without an error has no two of  *)
(* the same name, so the body sees each of them with its type.             *)
LEMMA ParamsDiffer ==
  ASSUME NEW f \in Node, Len(Ast[f].params) - Cardinality(ParamNames(f)) = 0
  PROVE  \A i, j \in 1 .. Len(Ast[f].params) :
            Ast[f].params[i].name = Ast[f].params[j].name => i = j
<1>. DEFINE k == Len(Ast[f].params)
            g == [i \in 1 .. k |-> Ast[f].params[i].name]
            T == ParamNames(f)
<1>1. k \in Nat
  BY NodeIs
<1>2. g \in Surjection(1 .. k, T)
  BY DEF Surjection, ParamNames
<1>3. IsFiniteSet(1 .. k) /\ Cardinality(1 .. k) = k
  <2>1. 1 \in Int /\ k \in Int /\ (IF 1 > k THEN 0 ELSE k - 1 + 1) = k
    BY <1>1
  <2>. QED  BY <2>1, FS_Interval
<1>4. IsFiniteSet(T) /\ (Cardinality(T) = Cardinality(1 .. k) <=> g \in Injection(1 .. k, T))
  <2>. HIDE DEF g, T, k
  <2>. QED  BY <1>2, <1>3, FS_Surjection
<1>5. Cardinality(T) \in Nat
  BY <1>4, FS_CardinalityType
<1>6. Cardinality(T) = Cardinality(1 .. k)
  BY <1>1, <1>3, <1>5
<1>7. \A i, j \in 1 .. k : g[i] = g[j] => i = j
  <2>. HIDE DEF g, T, k
  <2>. QED  BY <1>4, <1>6 DEF Injection, IsInjective
<1>. QED  BY <1>7

LEMMA FirstAreParams ==
  ASSUME NEW f \in Node, LooseAreInts(f),
         Len(Ast[f].params) - Cardinality(ParamNames(f)) = 0
  PROVE  /\ ParamsSeen(f, FirstTypes(f))
         /\ \A x \in ParamNames(f) : x \in LooseNames(f) => ParamScope(f)[x].type = "INT"
         /\ \A x \in VarName \ LooseNames(f) :
               /\ x \in ParamNames(f) => /\ ParamScope(f)[x].type = FirstTypes(f)[x]
                                         /\ FirstTypes(f)[x] # NoType
               /\ x \notin ParamNames(f) => FirstTypes(f)[x] = NoType
<1>. DEFINE p == Ast[f].params
            k == Len(p)
<1>1. /\ k \in Nat /\ \A i \in 1 .. k : p[i].type \in DataType /\ p[i].name \in VarName
  <2>1. p \in Seq(Param)
    BY NodeIs
  <2>2. \A i \in 1 .. k : p[i] \in Param
    BY <2>1, ElementOfSeq
  <2>. QED  BY <2>1, <2>2, AstAssumption DEF Param
<1>2. \A i, j \in 1 .. k : p[i].name = p[j].name => i = j
  BY ParamsDiffer
<1>3. \A x \in ParamNames(f) : \E i \in 1 .. k : /\ p[i].name = x
                                                 /\ ParamScope(f)[x].type = p[i].type
  <2>1. \A x \in ParamNames(f) :
           \E i \in 1 .. k : p[i].name = x /\ ParamScope(f)[x] = Parameter(p[i].type)
    BY ParamsAre
  <2>2. \A type : Parameter(type).type = type
    BY DEF Parameter
  <2>. HIDE DEF p, k
  <2>3. ASSUME NEW x \in ParamNames(f)
        PROVE  \E i \in 1 .. k : p[i].name = x /\ ParamScope(f)[x].type = p[i].type
    <3>1. PICK i \in 1 .. k : p[i].name = x /\ ParamScope(f)[x] = Parameter(p[i].type)
      BY <2>1
    <3>2. ParamScope(f)[x].type = p[i].type
      BY <2>2, <3>1
    <3>. QED  BY <3>1, <3>2
  <2>. QED  BY <2>3
<1>4. ParamNames(f) = {p[i].name : i \in 1 .. k}
  BY DEF ParamNames
<1>5. \A i \in 1 .. k : p[i].name \in LooseNames(f) => p[i].type = "INT"
  BY DEF LooseAreInts, ParamsOf
<1>6. ASSUME NEW i \in 1 .. k, p[i].name \notin LooseNames(f)
      PROVE  FirstTypes(f)[p[i].name] = p[i].type
  <2>. DEFINE x == p[i].name
              j == CHOOSE j \in 1 .. k : p[j].name = x
  <2>1. j \in 1 .. k /\ p[j].name = x
    OBVIOUS
  <2>2. j = i
    BY <1>2, <2>1
  <2>3. FirstTypes(f)[x] = p[j].type
    BY <1>1, <1>6 DEF FirstTypes, ParamsOf
  <2>. QED  BY <2>2, <2>3
<1>7. \A x \in VarName \ LooseNames(f) : x \notin ParamNames(f) => FirstTypes(f)[x] = NoType
  BY <1>4 DEF FirstTypes, ParamsOf
<1>8. ASSUME NEW x \in VarName \ LooseNames(f), x \in ParamNames(f)
      PROVE  ParamScope(f)[x].type = FirstTypes(f)[x] /\ FirstTypes(f)[x] # NoType
  <2>1. PICK i \in 1 .. k : p[i].name = x /\ ParamScope(f)[x].type = p[i].type
    BY <1>3, <1>8
  <2>2. FirstTypes(f)[x] = p[i].type
    BY <1>6, <2>1
  <2>3. NoType \notin DataType
    BY DEF NoType, DataType
  <2>. QED  BY <1>1, <2>1, <2>2, <2>3
<1>9. ParamsSeen(f, FirstTypes(f))
  <2>1. ParamsOf(f) = p
    BY DEF ParamsOf
  <2>2. \A i \in 1 .. k : TypeOfVariable(f, FirstTypes(f), p[i].name) = p[i].type
    BY <1>5, <1>6 DEF TypeOfVariable
  <2>3. \A x \in VarName \ LooseNames(f) :
           x \notin {p[i].name : i \in 1 .. k} => FirstTypes(f)[x] = NoType
    BY <1>4, <1>7
  <2>. QED  BY <2>1, <2>2, <2>3 DEF ParamsSeen
<1>10. \A x \in ParamNames(f) : x \in LooseNames(f) => ParamScope(f)[x].type = "INT"
  BY <1>3, <1>5
<1>. QED  BY <1>7, <1>8, <1>9, <1>10

LEMMA EnterFunctionShown ==
  ASSUME NEW seen, NEW T, Ready(seen, T), EnterFunction, error_count' = 0
  PROVE  Shown(todo', tab', seen)
<1>. DEFINE f == Top.n
            u == Append(tab, ParamScope(f))
<1>1. /\ CheckInv /\ Chain(todo) /\ Shown(todo, tab, seen) /\ Static(root, seen, T)
      /\ KeepsClear(root, MaxParams) /\ error_count = 0
  BY DEF Ready, JudgeInv
<1>2. /\ todo # <<>> /\ Kind(f) = "FUNC_DECL" /\ Top.i = 0 /\ todo' = Advanced /\ tab' = u
      /\ error_count' = error_count + Len(Ast[f].params) - Cardinality(ParamNames(f))
  BY DEF EnterFunction, On
<1>3. /\ Len(todo) = 2 /\ Top = todo[2] /\ 2 \in 1 .. Len(todo)
  <2>1. /\ Len(todo) \in Nat \ {0} /\ Top = todo[Len(todo)]
        /\ Kind(Top.n) = "FUNC_DECL" <=> Len(todo) = 2
    BY <1>1, <1>2, TopIs DEF CheckInv
  <2>2. Len(todo) = 2
    BY <1>2, <2>1
  <2>. QED  BY <2>1, <2>2
<1>4. f \in FunctionsOf(root) /\ f \in Node
  BY <1>1, <1>3, OnStack
<1>5. LooseAreInts(f)
  BY <1>1, <1>4 DEF KeepsClear
<1>6. Len(Ast[f].params) - Cardinality(ParamNames(f)) = 0
  <2>1. Len(Ast[f].params) \in Nat
    BY <1>4, NodeIs
  <2>2. Len(Ast[f].params) - Cardinality(ParamNames(f)) \in Nat /\ Cardinality(ParamNames(f)) \in Nat
    <3>1. ParamNames(f) = {[j \in 1 .. Len(Ast[f].params) |-> Ast[f].params[j].name][i] :
                              i \in 1 .. Len(Ast[f].params)}
      BY DEF ParamNames
    <3>. QED  BY <2>1, <3>1, FewerThan
  <2>. QED  BY <1>1, <1>2, <2>1, <2>2
<1>7. seen[Child(f, 1)] = FirstTypes(f)
  BY <1>1, <1>4 DEF Static, SeenRight
<1>8. /\ Len(tab) = 1 /\ Depth(todo, 2) = 1 /\ tab \in Seq(Scope)
  <2>1. Depth(todo, Len(todo)) = Len(tab) /\ tab \in Seq(Scope)
    BY <1>1, DepthInTable DEF CheckInv
  <2>2. {j \in 1 .. 2 : Opens(todo[j])} = {}
    <3>1. Kind(todo[1].n) = "PROGRAM"
      BY <1>1, <1>3 DEF CheckInv, Path
    <3>2. ~Opens(todo[1]) /\ ~Opens(todo[2])
      BY <1>2, <1>3, <3>1 DEF Opens
    <3>. QED  BY <3>2
  <2>3. Depth(todo, 2) = 1 + Cardinality({})
    BY <2>2 DEF Depth
  <2>4. Cardinality({}) = 0
    BY FS_EmptySet
  <2>. QED  BY <1>3, <2>1, <2>3, <2>4
<1>9. /\ Len(Advanced) = 2 /\ Advanced[2].n = f /\ Advanced[2].i = 1
      /\ Depth(Advanced, 2) = 2
  <2>1. /\ Len(Advanced) = Len(todo)
        /\ Advanced[Len(todo)].n = Top.n /\ Advanced[Len(todo)].i = Top.i + 1
        /\ Depth(Advanced, Len(todo)) = IF Kind(Top.n) \in {"FUNC_DECL", "BLOCK"} /\ Top.i = 0
                                        THEN Len(tab) + 1 ELSE Len(tab)
    BY <1>1, <1>2, AdvancedDepth
  <2>. QED  BY <1>2, <1>3, <1>8, <2>1
<1>10. Len(u) = 2 /\ u[2] = ParamScope(f)
  <2>1. \A s \in Scope : Len(Append(tab, s)) = 2 /\ Append(tab, s)[2] = s
    BY <1>8
  <2>2. ParamScope(f) \in Scope
    BY <1>4, ParamsAre
  <2>. QED  BY <2>1, <2>2
<1>11. DOMAIN ParamScope(f) = ParamNames(f)
  BY <1>4, ParamsAre
<1>12. /\ ParamsSeen(f, FirstTypes(f))
       /\ \A x \in ParamNames(f) : x \in LooseNames(f) => ParamScope(f)[x].type = "INT"
       /\ \A x \in VarName \ LooseNames(f) :
             /\ x \in ParamNames(f) => /\ ParamScope(f)[x].type = FirstTypes(f)[x]
                                       /\ FirstTypes(f)[x] # NoType
             /\ x \notin ParamNames(f) => FirstTypes(f)[x] = NoType
  BY <1>4, <1>5, <1>6, FirstAreParams
<1>. HIDE DEF f, u
<1>13. \A c : c \in 2 .. 2 <=> c = 2
  OBVIOUS
<1>14. LooseTyped(u, f)
  BY <1>10, <1>11, <1>12, <1>13 DEF LooseTyped
<1>15. Visible(u, 2, f, FirstTypes(f))
  <2>1. ASSUME NEW x \in VarName \ LooseNames(f), FirstTypes(f)[x] = NoType
        PROVE  \A c \in 2 .. 2 : x \notin DOMAIN u[c]
    BY <1>10, <1>11, <1>12, <1>13, <2>1
  <2>2. ASSUME NEW x \in VarName \ LooseNames(f), FirstTypes(f)[x] # NoType
        PROVE  \E c \in 2 .. 2 : /\ x \in DOMAIN u[c] /\ u[c][x].type = FirstTypes(f)[x]
                                 /\ \A b \in 2 .. 2 : b > c => x \notin DOMAIN u[b]
    <3>1. x \in DOMAIN u[2] /\ u[2][x].type = FirstTypes(f)[x]
      BY <1>10, <1>11, <1>12, <2>2
    <3>2. \A b \in 2 .. 2 : ~(b > 2)
      OBVIOUS
    <3>. QED  BY <1>13, <3>1, <3>2
  <2>. QED  BY <2>1, <2>2 DEF Visible
<1>16. Now(Advanced, seen, 2) = FirstTypes(f)
  BY <1>7, <1>9 DEF Now
<1>17. \A k \in 2 .. Len(Advanced) : Shows(Advanced, u, seen, k)
  BY <1>9, <1>13, <1>15, <1>16 DEF Shows
<1>18. Shown(Advanced, u, seen)
  BY <1>7, <1>9, <1>12, <1>14, <1>17 DEF Shown
<1>. QED  BY <1>2, <1>18

LEMMA BelowShownHere ==
  ASSUME NEW seen, NEW T, Ready(seen, T), todo # <<>>, Kind(Top.n) # "VAR_DECL"
  PROVE  Shown(Below, tab, seen)
<1>1. /\ CheckInv /\ Chain(todo) /\ Shown(todo, tab, seen) /\ Static(root, seen, T)
  BY DEF Ready, JudgeInv
<1>2. Len(tab) \in Nat /\ Len(todo) \in Nat
  BY <1>1, TabNotEmpty, TopIs DEF CheckInv
<1>3. Len(todo) >= 3 => Depth(todo, Len(todo) - 1) <= Len(tab)
  <2>1. ASSUME Len(todo) >= 3 PROVE Depth(todo, Len(todo) - 1) <= Len(tab)
    <3>1. Len(todo) - 1 \in 1 .. Len(todo)
      BY <1>2, <2>1
    <3>2. Depth(todo, Len(todo) - 1) \in 1 .. Len(tab)
      BY <1>1, <3>1, DepthInTable
    <3>. QED  BY <1>2, <3>2
  <2>. QED  BY <2>1
<1>4. \A d \in 2 .. Len(tab) : d \in 2 .. Len(tab) /\ tab[d] = tab[d]
  OBVIOUS
<1>. QED  BY <1>1, <1>2, <1>3, <1>4, BelowShown

(* What is seen stays what the table holds.                                *)
LEMMA ShownKept ==
  ASSUME NEW seen, NEW T, Ready(seen, T), NotesRight(ann, T), [Next]_vars,
         error_count' = 0
  PROVE  Shown(todo', tab', seen)
<1>1. /\ CheckInv /\ Chain(todo) /\ Shown(todo, tab, seen) /\ Static(root, seen, T)
  BY DEF Ready, JudgeInv
<1>2. CASE UNCHANGED vars \/ Checked \/ Finish
  <2>1. todo' = todo /\ tab' = tab
    BY <1>2 DEF vars, Checked, Finish
  <2>. QED  BY <1>1, <2>1
<1>3. CASE Begin
  <2>1. todo' = <<Visit(root)>>
    BY <1>3 DEF Begin
  <2>2. Len(todo') = 1
    BY <2>1
  <2>. QED  BY <2>2 DEF Shown
<1>4. CASE RegisterFunctions
  <2>1. todo # <<>> /\ Kind(Top.n) = "PROGRAM" /\ todo' = Advanced
    BY <1>4 DEF RegisterFunctions, On
  <2>2. Len(todo') = 1
    BY <1>1, <2>1, TopIs, Advancing DEF CheckInv
  <2>. QED  BY <2>2 DEF Shown
<1>5. CASE EnterFunction
  BY <1>5, EnterFunctionShown
<1>6. CASE EnterBlock
  <2>1. /\ todo # <<>> /\ Kind(Top.n) = "BLOCK" /\ Top.i = 0 /\ todo' = Advanced
        /\ tab' = Append(tab, EmptyScope)
    BY <1>6 DEF EnterBlock, On, symtab_enter_scope
  <2>. QED  BY <2>1, AdvancedShown
<1>7. CASE CheckCondition
  <2>1. /\ todo # <<>> /\ Kind(Top.n) \in {"IF", "WHILE", "FOR"} /\ todo' = Advanced
    BY <1>7 DEF CheckCondition, On
  <2>2. tab' = tab
    BY <1>7, ConditionTyped
  <2>3. Shown(Advanced, tab, seen)
    BY <2>1, AdvancedShown
  <2>. QED  BY <2>1, <2>2, <2>3
<1>8. CASE TraverseChild
  <2>1. /\ todo # <<>> /\ todo' = Descent /\ tab' = tab
        /\ Top.i \in 1 .. Children(Top.n) /\ Top.i \notin ExprChildren(Top.n)
    BY <1>8 DEF TraverseChild, On, Descent
  <2>2. Shown(Descent, tab, seen)
    BY <2>1, DescentShown
  <2>. QED  BY <2>1, <2>2
<1>9. CASE LeaveScope
  <2>1. /\ todo # <<>> /\ Kind(Top.n) \in {"FUNC_DECL", "BLOCK"}
        /\ Top.i > Children(Top.n) /\ todo' = Below /\ tab' = symtab_leave_scope(tab)
    BY <1>9 DEF LeaveScope, On
  <2>2. Top.i \in Nat /\ Children(Top.n) \in Nat
    BY <1>1, <2>1, TopIs, NodeIs DEF CheckInv
  <2>3. Opens(Top)
    BY <2>1, <2>2 DEF Opens
  <2>4. Shown(Below, symtab_leave_scope(tab), seen)
    BY <1>1, <2>1, <2>3, LeftScopeShown
  <2>. QED  BY <2>1, <2>4
<1>10. CASE LeaveNode \/ SkipExpression \/ CheckAssign \/ CheckReturn \/ CheckPrint
  <2>1. /\ todo # <<>> /\ Kind(Top.n) # "VAR_DECL" /\ todo' = Below
    BY <1>10 DEF LeaveNode, SkipExpression, CheckAssign, CheckReturn, CheckPrint, On, ExprKind
  <2>2. tab' = tab
    <3>1. CASE LeaveNode \/ SkipExpression
      BY <3>1 DEF LeaveNode, SkipExpression
    <3>. QED  BY <1>10, <3>1, AssignTyped, ReturnTyped, PrintTyped
  <2>3. Shown(Below, tab, seen)
    BY <2>1, BelowShownHere
  <2>. QED  BY <2>1, <2>2, <2>3
<1>11. CASE CheckVarDecl
  <2>1. /\ todo # <<>> /\ Kind(Top.n) = "VAR_DECL" /\ todo' = Below
    BY <1>11 DEF CheckVarDecl, On
  <2>2. /\ ~DeclaredHere(tab, Ast[Top.n].name)
        /\ tab' = symtab_insert(tab, Ast[Top.n].name, Variable(Ast[Top.n].type))
    BY <1>11, VarDeclTyped
  <2>3. PICK u : u = symtab_insert(tab, Ast[Top.n].name, Variable(Ast[Top.n].type))
    OBVIOUS
  <2>4. Shown(Below, u, seen)
    BY <2>1, <2>2, <2>3, DeclaredShown
  <2>. QED  BY <2>1, <2>2, <2>3, <2>4
<1>. QED  BY <1>2, <1>3, <1>4, <1>5, <1>6, <1>7, <1>8, <1>9, <1>10, <1>11
          DEF Next, Step

-----------------------------------------------------------------------------
(* The invariant: as long as no error is counted, what is noted and what   *)
(* is passed is typed, and what the table holds is what is seen.           *)
PutFor(seen, T) ==
    error_count = 0 =>
       /\ NotesRight(ann, T) /\ Shown(todo, tab, seen) /\ TypedSoFar(todo, T, seen)
       /\ phase # "start" /\ todo = <<>> => WellTyped(root, T, seen)

PutInv ==
    KeepsClear(root, MaxParams) =>
       \A seen, T : Static(root, seen, T) => PutFor(seen, T)

LEMMA InitIsPut == Init => PutInv
<1>. SUFFICES ASSUME Init, NEW seen, NEW T, Static(root, seen, T)
              PROVE  PutFor(seen, T)
  BY DEF PutInv
<1>1. todo = <<>> /\ phase = "start" /\ ann = <<>>
  BY DEF Init
<1>2. Len(todo) = 0 /\ DOMAIN ann = {}
  BY <1>1
<1>3. Shown(todo, tab, seen) /\ TypedSoFar(todo, T, seen) /\ NotesRight(ann, T)
  BY <1>2 DEF Shown, TypedSoFar, NotesRight
<1>. QED  BY <1>1, <1>3 DEF PutFor

LEMMA ProgramTyped ==
  ASSUME NEW seen, NEW T, Ready(seen, T), NotesRight(ann, T), [Next]_vars,
         phase # "start" /\ todo = <<>> => WellTyped(root, T, seen),
         error_count' = 0, phase' # "start", todo' = <<>>
  PROVE  WellTyped(root, T, seen)
<1>1. CheckInv /\ FoundInv /\ DoneInv
  BY DEF Ready, JudgeInv
<1>2. Moves
  BY <1>1, StepMoves
<1>3. CASE todo' = todo
  BY <1>1, <1>3, PhaseMoves
<1>4. CASE todo = <<>> /\ todo' = <<Visit(root)>>
  BY <1>4
<1>5. CASE todo # <<>> /\ todo' = Below
  <2>1. Passed(Top.n, T, seen)
    BY <1>5, LeftIsTyped
  <2>2. Len(todo) = 1
    <3>1. Len(Below) = Len(todo) - 1 /\ Len(todo) \in Nat
      BY <1>1, <1>5, BelowIs, TopIs DEF CheckInv
    <3>2. Len(Below) = 0
      BY <1>5
    <3>. QED  BY <3>1, <3>2
  <2>3. Kind(Top.n) = "PROGRAM"
    BY <1>1, <1>5, <2>2, TopIs DEF CheckInv
  <2>. QED  BY <2>1, <2>3 DEF Passed
<1>6. CASE todo # <<>> /\ (todo' = Advanced \/ todo' = Descent)
  <2>1. Len(Advanced) = Len(todo) /\ Len(todo) \in Nat \ {0}
    BY <1>1, <1>6, TopIs, Advancing DEF CheckInv
  <2>2. CASE todo' = Advanced
    BY <1>6, <2>1, <2>2
  <2>3. CASE todo' = Descent
    <3>1. Advanced \in Seq(Activation)
      BY <1>1, <1>6, Advancing DEF CheckInv, Path
    <3>2. Len(Descent) # 0
      <4>1. \A s \in Seq(Activation) : \A x : Append(s, x) # <<>>
        OBVIOUS
      <4>. QED  BY <2>3, <3>1, <4>1 DEF Descent
    <3>. QED  BY <2>3, <3>2
  <2>. QED  BY <1>6, <2>2, <2>3
<1>. QED  BY <1>2, <1>3, <1>4, <1>5, <1>6 DEF Moves

LEMMA PutKept ==
  ASSUME JudgeInv, PutInv, [Next]_vars
  PROVE  PutInv'
<1>1. CheckInv /\ Chain(todo) /\ FoundInv /\ DoneInv
  BY DEF JudgeInv
<1>2. root' = root
  BY <1>1, StepMoves
<1>3. \A seen, T : Static(root', seen, T) => Static(root, seen, T)
  BY <1>2
<1>4. ASSUME KeepsClear(root, MaxParams), NEW seen, NEW T, Static(root, seen, T)
      PROVE  PutFor(seen, T)'
  <2>. SUFFICES ASSUME error_count' = 0
                PROVE  /\ NotesRight(ann', T) /\ Shown(todo', tab', seen)
                       /\ TypedSoFar(todo, T, seen)'
                       /\ phase' # "start" /\ todo' = <<>> => WellTyped(root', T, seen)
    BY DEF PutFor
  <2>1. error_count = 0
    <3>1. \E judged : Effect(judged)
      BY <1>1, StepEffect
    <3>. QED  BY <3>1 DEF Effect
  <2>2. /\ NotesRight(ann, T) /\ Shown(todo, tab, seen) /\ TypedSoFar(todo, T, seen)
        /\ phase # "start" /\ todo = <<>> => WellTyped(root, T, seen)
    BY <1>4, <2>1 DEF PutInv, PutFor
  <2>3. Ready(seen, T)
    BY <1>4, <2>1, <2>2 DEF Ready
  <2>4. NotesRight(ann', T)
    BY <2>2, <2>3, NotesStay
  <2>5. Shown(todo', tab', seen)
    BY <2>2, <2>3, ShownKept
  <2>6. TypedSoFar(todo, T, seen)'
    <3>1. TypedSoFar(todo', T, seen)
      BY <2>2, <2>3, TypedKept
    <3>. QED  BY <1>2, <3>1 DEF TypedSoFar, ChildTyped, TreeTyped
  <2>7. phase' # "start" /\ todo' = <<>> => WellTyped(root', T, seen)
    BY <1>2, <2>2, <2>3, ProgramTyped
  <2>. QED  BY <2>4, <2>5, <2>6, <2>7
<1>5. KeepsClear(root', MaxParams) => KeepsClear(root, MaxParams)
  BY <1>2
<1>. QED  BY <1>2, <1>3, <1>4, <1>5 DEF PutInv

LEMMA PutInvariant == Spec => []PutInv
<1>1. Init => PutInv
  BY InitIsPut
<1>2. JudgeInv /\ PutInv /\ [Next]_vars => PutInv'
  BY PutKept
<1>. QED  BY <1>1, <1>2, JudgeInvariant, PTL DEF Spec

-----------------------------------------------------------------------------
(* In a program that is accepted every expression has the type noted for   *)
(* it, and so the notes themselves are a typing.                           *)
NotedAs(notes, T, e) == \A m \in Subtree(e) : HasType(notes, m) /\ TypeIn(notes, m) = TypeIn(T, m)

LEMMA ExprAsNoted ==
  ASSUME NEW r, NEW f, NEW seen, NEW T, NEW notes, NEW e \in Expression,
         NotedAs(notes, T, e), ExprTyped(r, f, T, seen, e)
  PROVE  ExprTyped(r, f, notes, seen, e)
<1>1. Subtree(e) \subseteq Expression
  BY ExpressionTree
<1>2. ASSUME NEW n \in Subtree(e) PROVE ExprRule(r, f, notes, seen, n)
  <2>1. n \in Expression /\ n \in Node
    BY <1>1 DEF Expression
  <2>2. ExprRule(r, f, T, seen, n)
    BY DEF ExprTyped
  <2>3. \A c \in Parts(n) : TypeIn(notes, c) = TypeIn(T, c)
    <3>1. \A c \in Parts(n) : c \in Subtree(n) /\ Subtree(n) \subseteq Subtree(e)
      <4>1. \A c \in Parts(n) : c \in Expression /\ c \in Subtree(c) /\ Subtree(c) \subseteq Subtree(n)
        BY <2>1, ExpressionTree
      <4>2. Subtree(n) \subseteq Subtree(e)
        BY SubtreeClosed DEF Expression
      <4>. QED  BY <4>1, <4>2
    <3>. QED  BY <3>1 DEF NotedAs
  <2>4. HasType(notes, n) /\ (Kind(n) # "LITERAL" => notes[n] = T[n])
    BY DEF NotedAs, TypeIn
  <2>5. /\ Kind(n) = "BINARY_OP" => Child(n, 1) \in Parts(n) /\ Child(n, 2) \in Parts(n)
        /\ Kind(n) = "UNARY_OP" => Child(n, 1) \in Parts(n)
        /\ \A i \in 1 .. Len(Ast[n].args) : Ast[n].args[i] \in Parts(n)
    BY <2>1, OperatorParts DEF Parts
  <2>6. Kind(n) = "CALL" => CallTyped(r, notes, n)
    BY <2>2, <2>3, <2>4, <2>5 DEF ExprRule, CallTyped
  <2>. QED  BY <2>2, <2>3, <2>4, <2>5, <2>6 DEF ExprRule
<1>. QED  BY <1>2 DEF ExprTyped

LEMMA StmtAsNoted ==
  ASSUME NEW r, NEW f, NEW seen, NEW T, NEW notes, NEW n \in Node, Kind(n) \in StmtKind,
         \A i \in ExprChildren(n) : NotedAs(notes, T, Child(n, i)),
         StmtRule(r, f, T, seen, n)
  PROVE  StmtRule(r, f, notes, seen, n)
<1>1. ASSUME NEW i \in ExprChildren(n) PROVE ExprTyped(r, f, notes, seen, Child(n, i))
  <2>1. Child(n, i) \in Expression
    BY ExprChildIs
  <2>. QED  BY <2>1, ExprAsNoted DEF StmtRule
<1>2. \A i \in ExprChildren(n) : TypeIn(notes, Child(n, i)) = TypeIn(T, Child(n, i))
  <2>1. \A i \in ExprChildren(n) : Child(n, i) \in Subtree(Child(n, i))
    BY ExprChildIs, ExpressionTree
  <2>. QED  BY <2>1 DEF NotedAs
<1>3. Kind(n) \in {"VAR_DECL", "ASSIGN", "RETURN"} /\ Children(n) > 0 => 1 \in ExprChildren(n)
  <2>1. Children(n) \in Nat
    BY NodeIs
  <2>. QED  BY <2>1, ExprChildrenAre
<1>4. Kind(n) = "ASSIGN" => Children(n) > 0
  BY OnlyChild
<1>. QED  BY <1>1, <1>2, <1>3, <1>4 DEF StmtRule

(* Every program the checker accepts that keeps clear of the known gaps is *)
(* well typed: the types semantic.c has noted into the tree, with the      *)
(* variables its scopes hold at each statement, satisfy the typing rules   *)
(* the interpreter's values follow.                                        *)
AcceptedIsTyped ==
    Accepted /\ KeepsClear(root, MaxParams) => \E seen : WellTyped(root, ann, seen)

THEOREM AcceptedAreTyped == Spec => []AcceptedIsTyped
<1>1. JudgeInv /\ PutInv => AcceptedIsTyped
  <2>. SUFFICES ASSUME JudgeInv, PutInv, Accepted, KeepsClear(root, MaxParams)
                PROVE  \E seen : WellTyped(root, ann, seen)
    BY DEF AcceptedIsTyped
  <2>1. /\ root \in Roots /\ todo = <<>> /\ error_count = 0 /\ AllJudged(ann, root)
    BY DEF JudgeInv, CheckInv, DoneInv, Accepted
  <2>2. PICK seen, T : Static(root, seen, T)
    BY <2>1, StaticExists
  <2>3. WellTyped(root, T, seen) /\ NotesRight(ann, T)
    BY <2>1, <2>2 DEF PutInv, PutFor, Accepted
  <2>4. ASSUME NEW f \in FunctionsOf(root), NEW n \in Nodes(f, StmtKind)
        PROVE  StmtRule(root, f, ann, seen, n)
    <3>1. /\ n \in Node /\ Kind(n) \in StmtKind /\ n \in Subtree(root)
      <4>1. root \in Node /\ f \in Node /\ f \in Parts(root)
        BY <2>1, FunctionIs
      <4>2. Subtree(f) \subseteq Subtree(root) /\ Subtree(f) \subseteq Node
        BY <4>1, SubtreeIs, SubtreeClosed
      <4>. QED  BY <4>2 DEF Nodes
    <3>2. ASSUME NEW i \in ExprChildren(n) PROVE NotedAs(ann, T, Child(n, i))
      <4>1. NotedAll(ann, Child(n, i))
        BY <2>1, <3>1 DEF AllJudged
      <4>2. ASSUME NEW m \in Subtree(Child(n, i))
            PROVE  HasType(ann, m) /\ TypeIn(ann, m) = TypeIn(T, m)
        BY <2>3, <4>1 DEF NotedAll, HasType, TypeIn, NotesRight
      <4>. QED  BY <4>2 DEF NotedAs
    <3>3. StmtRule(root, f, T, seen, n)
      BY <2>3 DEF WellTyped, FunctionTyped
    <3>. QED  BY <3>1, <3>2, <3>3, StmtAsNoted
  <2>5. WellTyped(root, ann, seen)
    BY <2>3, <2>4 DEF WellTyped, FunctionTyped
  <2>. QED  BY <2>5
<1>. QED  BY <1>1, JudgeInvariant, PutInvariant, PTL
=============================================================================
