------------------------------ MODULE LumisAst ------------------------------
(***************************************************************************)
(* The abstract syntax tree every phase of Lumis works on: the heap of     *)
(* AstNode structs ast.h declares, in the shape parser.y builds it.        *)
(* A node is named by an element of DOMAIN Ast; a field the C code leaves  *)
(* zeroed for a kind of node has a fixed default here.                     *)
(***************************************************************************)
EXTENDS Integers, Sequences, FiniteSets

CONSTANTS
    Ast,      \* the heap: a function from node names to AstNode records
    Roots,    \* the NODE_PROGRAM nodes; a run starts from one of them
    VarName   \* the identifiers the programs use for variables

DataType == {"INT", "FLOAT", "CHAR", "BOOL", "STRING", "VOID"}

StmtKind == {"VAR_DECL", "ASSIGN", "IF", "WHILE", "FOR", "RETURN", "PRINT",
             "BLOCK"}
ExprKind == {"BINARY_OP", "UNARY_OP", "CALL", "LITERAL", "VAR_REF"}
NodeKind == {"PROGRAM", "FUNC_DECL"} \cup StmtKind \cup ExprKind

RelOp    == {"EQ", "NEQ", "LT", "GT", "LE", "GE"}
BinOp    == {"ADD", "SUB", "MUL", "DIV", "MOD", "AND", "OR"} \cup RelOp
UnaryOp  == {"NOT", "NEG"}
NoOp     == "NONE"

Node == DOMAIN Ast

NoNode == <<>>

Kind(n)     == Ast[n].kind
Child(n, i) == Ast[n].children[i]
Children(n) == Len(Ast[n].children)

Param == [name : STRING, type : DataType]

(* data_type and return_type share the field `type': no kind has both.     *)
(* `num' is the literal's value.                                           *)
AstNode == [kind : NodeKind, children : Seq(Node), name : STRING,
            type : DataType, op : BinOp \cup UnaryOp \cup {NoOp}, num : Int,
            args : Seq(Node), params : Seq(Param)]

-----------------------------------------------------------------------------
(* How many children the grammar's actions give each kind of node.         *)
WellCounted(kind, count) ==
    /\ kind \in {"CALL", "LITERAL", "VAR_REF"} => count = 0
    /\ kind \in {"VAR_DECL", "RETURN"} => count \in {0, 1}
    /\ kind \in {"ASSIGN", "PRINT", "UNARY_OP", "FUNC_DECL"} => count = 1
    /\ kind \in {"WHILE", "BINARY_OP"} => count = 2
    /\ kind = "IF" => count \in {2, 3}
    /\ kind = "FOR" => count = 4

(* The positions of a node's children that hold expressions.               *)
ExprChildren(n) ==
    CASE Kind(n) \in {"VAR_DECL", "RETURN", "ASSIGN", "PRINT", "UNARY_OP",
                      "BINARY_OP"} -> 1 .. Children(n)
      [] Kind(n) \in {"IF", "WHILE"} -> {1}
      [] Kind(n) = "FOR"             -> {2}
      [] OTHER                       -> {}

WellShaped(n) ==
    /\ WellCounted(Kind(n), Children(n))
    /\ \A i \in 1 .. Children(n) :
          Kind(Child(n, i)) \in
             IF Kind(n) = "PROGRAM"      THEN {"FUNC_DECL"}
             ELSE IF Kind(n) = "FUNC_DECL" THEN {"BLOCK"}
             ELSE IF i \in ExprChildren(n) THEN ExprKind
             ELSE StmtKind \cup ExprKind     \* an expression statement
    /\ \A i \in 1 .. Len(Ast[n].args) : Kind(Ast[n].args[i]) \in ExprKind
    /\ Kind(n) = "FOR" => /\ Kind(Child(n, 1)) \in {"VAR_DECL", "ASSIGN"}
                          /\ Kind(Child(n, 3)) = "ASSIGN"
    /\ Kind(n) = "LITERAL" => Ast[n].type # "VOID"
    /\ Kind(n) # "CALL" => Ast[n].args = <<>>

ASSUME AstAssumption ==
    /\ \A n \in Node : Ast[n] \in AstNode /\ WellShaped(n)
    /\ Roots \subseteq {n \in Node : Kind(n) = "PROGRAM"}
    /\ NoNode \notin Node
    /\ \A n \in Node :
          /\ Kind(n) \in {"VAR_DECL", "ASSIGN", "VAR_REF"}
                => Ast[n].name \in VarName
          /\ \A i \in 1 .. Len(Ast[n].params) : Ast[n].params[i].name \in VarName

(* The nodes under n, n included.                                          *)
Parts(n) == {Child(n, i) : i \in 1 .. Children(n)}
            \cup {Ast[n].args[i] : i \in 1 .. Len(Ast[n].args)}

Subtree(n) ==
    LET below[m \in Node] == {m} \cup UNION {below[c] : c \in Parts(m)}
    IN  below[n]

(* A node is made after its parts, so it is not one of its own, and it is  *)
(* put into one place of one node.                                         *)
ASSUME TreeAssumption ==
    \A n \in Node :
       /\ IsFiniteSet(Subtree(n))
       /\ \A c \in Parts(n) : n \notin Subtree(c)
       /\ \A i, j \in 1 .. Children(n) :
             i # j => Subtree(Child(n, i)) \cap Subtree(Child(n, j)) = {}
       /\ \A i, j \in 1 .. Len(Ast[n].args) :
             i # j => Subtree(Ast[n].args[i]) \cap Subtree(Ast[n].args[j]) = {}

-----------------------------------------------------------------------------
(* find_function: the first NODE_FUNC_DECL child of the root with a name.  *)
(* (The least index is asked for by the condition itself, so that a proof  *)
(* needs nothing about the order of the naturals.)                         *)
FindFunction(root, name) ==
    LET hits == {i \in 1 .. Children(root) :
                    /\ Kind(Child(root, i)) = "FUNC_DECL"
                    /\ Ast[Child(root, i)].name = name}
        First(i) == i \in hits /\ \A j \in hits : i <= j
    IN  IF \E i \in hits : First(i)
        THEN Child(root, CHOOSE i \in hits : First(i))
        ELSE NoNode
=============================================================================
