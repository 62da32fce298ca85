---------------------------- MODULE LumisTyping ----------------------------
(***************************************************************************)
(* Types of a program's parts, as the checker and the interpreter both     *)
(* have to see them.  First the programs for which the two agree: those    *)
(* outside the known gaps between the scope and type rules of the one and  *)
(* what the other does.  Then what it means that the types the checker has *)
(* noted, together with the variables it saw at each node, fit the tree.   *)
(***************************************************************************)
EXTENDS LumisAst

(* An int where a float was promised: the interpreter does not convert.    *)
Conforms(type, promised) == type = promised \/ <<type, promised>> = <<"INT", "FLOAT">>

FunctionsOf(r)  == {Child(r, i) : i \in 1 .. Children(r)}
Nodes(f, kinds) == {n \in Subtree(f) : Kind(n) \in kinds}
ParamsOf(f)     == Ast[f].params

-----------------------------------------------------------------------------
(* The known gaps.                                                         *)

(* Control cannot reach the end of a non-void function.                    *)
Stops(stmt) ==
    LET stops[n \in Node] ==
          \/ Kind(n) = "RETURN"
          \/ Kind(n) = "BLOCK" /\ \E i \in 1 .. Children(n) : stops[Child(n, i)]
          \/ Kind(n) = "IF" /\ Children(n) = 3 /\ stops[Child(n, 2)] /\ stops[Child(n, 3)]
    IN  stops[stmt]
AlwaysReturns(f) == Ast[f].type # "VOID" => Stops(Child(f, 1))

(* What a for head or an unbraced branch declares, the checker puts into   *)
(* the surrounding scope and the interpreter may not: such a name is an    *)
(* int wherever the function declares it.                                  *)
LooseNames(f) ==
    UNION {{Ast[Child(n, i)].name : i \in {i \in 1 .. Children(n) :
                                         Kind(Child(n, i)) = "VAR_DECL"}} :
              n \in Nodes(f, {"IF", "WHILE", "FOR"})}
LooseAreInts(f) ==
    /\ \A n \in Nodes(f, {"VAR_DECL"}) :
          Ast[n].name \in LooseNames(f) => Ast[n].type = "INT"
    /\ \A i \in 1 .. Len(ParamsOf(f)) :
          ParamsOf(f)[i].name \in LooseNames(f) => ParamsOf(f)[i].type = "INT"

(* No variable is used in its own initializer.                             *)
NoSelfInit(f) ==
    \A n \in Nodes(f, {"VAR_DECL"}) :
       \A m \in Nodes(n, {"VAR_REF"}) : Ast[m].name # Ast[n].name

(* A call that is a statement, which the checker skips, passes literals of *)
(* the parameters' types to a function g that exists.                      *)
SoundCall(n, g) ==
    /\ g # NoNode /\ Len(Ast[n].args) = Len(ParamsOf(g))
    /\ \A i \in 1 .. Len(Ast[n].args) :
          /\ Kind(Ast[n].args[i]) = "LITERAL"
          /\ Ast[Ast[n].args[i]].type = ParamsOf(g)[i].type

CallStatements(f) ==
    UNION {{Child(n, i) : i \in {i \in 1 .. Children(n) \ ExprChildren(n) :
                                     Kind(Child(n, i)) = "CALL"}} :
              n \in Nodes(f, StmtKind)}

(* No function's name stands on the left of an assignment: the checker     *)
(* finds it declared, and the interpreter has no slot of that name.        *)
AssignsVariables(r, f) ==
    \A n \in Nodes(f, {"ASSIGN"}) : FindFunction(r, Ast[n].name) = NoNode

(* Nobody gives main arguments.                                            *)
MainTakesNothing(r) ==
    LET main == FindFunction(r, "main")
    IN  main # NoNode => ParamsOf(main) = <<>>

(* The program r keeps clear of them; a signature has room for `room'      *)
(* parameters.                                                             *)
KeepsClear(r, room) ==
    /\ MainTakesNothing(r)
    /\ \A f \in FunctionsOf(r) :
          /\ AlwaysReturns(f) /\ LooseAreInts(f) /\ NoSelfInit(f)
          /\ AssignsVariables(r, f)
          /\ Len(ParamsOf(f)) <= room
          /\ \A n \in CallStatements(f) : SoundCall(n, FindFunction(r, Ast[n].name))

-----------------------------------------------------------------------------
(* Typings.  notes are the types noted, for nodes that are no literals;    *)
(* seen says of each node which variables, with which types, the innermost *)
(* scopes around it have.  Names from LooseNames are left out of `seen'.   *)

HasType(notes, n) == Kind(n) = "LITERAL" \/ n \in DOMAIN notes
TypeIn(notes, n)  == IF Kind(n) = "LITERAL" THEN Ast[n].type ELSE notes[n]

NoType   == "NONE"
VarTypes == [VarName -> DataType \cup {NoType}]

(* A value of type `got' may be stored as a `type'; "VOID" is the type of  *)
(* what has none.                                                          *)
Takes(type, got) == got = "VOID" \/ Conforms(got, type)

(* An operator's operands have types t1 and t2 and its result the type t.  *)
BinaryTyped(op, t1, t2, t) ==
    \/ "VOID" \in {t1, t2}
    \/ op = "ADD" /\ "STRING" \in {t1, t2} /\ t = "STRING"
    \/ /\ op \in {"ADD", "SUB", "MUL", "DIV"} /\ {t1, t2} \subseteq {"INT", "FLOAT"}
       /\ t = IF "FLOAT" \in {t1, t2} THEN "FLOAT" ELSE "INT"
    \/ op = "MOD" /\ t1 = "INT" /\ t2 = "INT" /\ t = "INT"
    \/ op \in RelOp /\ t = "BOOL"
    \/ /\ op \notin {"ADD", "SUB", "MUL", "DIV", "MOD"} \cup RelOp
       /\ t1 = "BOOL" /\ t2 = "BOOL" /\ t = "BOOL"

UnaryTyped(op, t1, t) ==
    IF op = "NOT" THEN t1 = "BOOL" /\ t = "BOOL" ELSE t1 \in {"INT", "FLOAT"} /\ t = t1

CallTyped(r, notes, n) ==
    LET g == FindFunction(r, Ast[n].name)
    IN  /\ g # NoNode /\ Len(Ast[n].args) = Len(ParamsOf(g))
        /\ notes[n] = Ast[g].type
        /\ \A i \in 1 .. Len(Ast[n].args) :
              Takes(ParamsOf(g)[i].type, TypeIn(notes, Ast[n].args[i]))

(* The variable x of function f, where `types' are seen.                   *)
TypeOfVariable(f, types, x) == IF x \in LooseNames(f) THEN "INT" ELSE types[x]

(* Node n of an expression in function f.                                  *)
ExprRule(r, f, notes, seen, n) ==
    /\ HasType(notes, n)
    /\ \A c \in Parts(n) : seen[c] = seen[n]
    /\ Kind(n) = "VAR_REF" => notes[n] = TypeOfVariable(f, seen[n], Ast[n].name)
    /\ Kind(n) = "BINARY_OP" => BinaryTyped(Ast[n].op, TypeIn(notes, Child(n, 1)),
                                            TypeIn(notes, Child(n, 2)), notes[n])
    /\ Kind(n) = "UNARY_OP" =>
          UnaryTyped(Ast[n].op, TypeIn(notes, Child(n, 1)), notes[n])
    /\ Kind(n) = "CALL" => CallTyped(r, notes, n)

ExprTyped(r, f, notes, seen, e) ==
    \A n \in Subtree(e) : ExprRule(r, f, notes, seen, n)

(* What is seen after statement n.                                         *)
SeenAfter(f, seen, n) ==
    IF Kind(n) = "VAR_DECL" /\ Ast[n].name \notin LooseNames(f)
    THEN [seen[n] EXCEPT ![Ast[n].name] = Ast[n].type] ELSE seen[n]

StmtRule(r, f, notes, seen, n) ==
    /\ \A i \in ExprChildren(n) : ExprTyped(r, f, notes, seen, Child(n, i))
    /\ \A i \in 1 .. Children(n) :
          seen[Child(n, i)] = IF Kind(n) = "BLOCK" /\ i > 1
                              THEN SeenAfter(f, seen, Child(n, i - 1)) ELSE seen[n]
    /\ Kind(n) = "VAR_DECL" /\ Children(n) > 0 =>
          Takes(Ast[n].type, TypeIn(notes, Child(n, 1)))
    /\ Kind(n) = "ASSIGN" =>
          LET type == TypeOfVariable(f, seen[n], Ast[n].name)
          IN  type # NoType /\ Takes(type, TypeIn(notes, Child(n, 1)))
    /\ Kind(n) = "RETURN" =>
          /\ Ast[f].type = "VOID" <=> Children(n) = 0
          /\ Children(n) > 0 => Takes(Ast[f].type, TypeIn(notes, Child(n, 1)))

(* The body of f sees its parameters and nothing else.                     *)
ParamsSeen(f, types) ==
    /\ \A i \in 1 .. Len(ParamsOf(f)) :
          TypeOfVariable(f, types, ParamsOf(f)[i].name) = ParamsOf(f)[i].type
    /\ \A x \in VarName \ LooseNames(f) :
          x \notin {ParamsOf(f)[i].name : i \in 1 .. Len(ParamsOf(f))} => types[x] = NoType

FunctionTyped(r, f, notes, seen) ==
    /\ ParamsSeen(f, seen[Child(f, 1)])
    /\ \A n \in Nodes(f, StmtKind) : StmtRule(r, f, notes, seen, n)

WellTyped(r, notes, seen) ==
    /\ seen \in [Node -> VarTypes]
    /\ \A f \in FunctionsOf(r) : FunctionTyped(r, f, notes, seen)
=============================================================================
