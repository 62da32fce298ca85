------------------------------ MODULE Semantic ------------------------------
(***************************************************************************)
(* The semantic checker, semantic.c.  `todo' is the recursion of           *)
(* traverse_node, the node being traversed last: for each activation the   *)
(* node and the child it turns to next (0: it has not begun).  Expressions *)
(* are judged in one step, by check_expression.                            *)
(***************************************************************************)
EXTENDS SymTab, Functions

CONSTANT MaxParams    \* the parameter types a signature has room for (32)

ASSUME MaxParamsAssumption == MaxParams \in Nat

VARIABLES
    root,
    phase,            \* "start", "checking", "checked"
    todo,             \* the traversal's stack
    tab,              \* the SymbolTable
    ret_type,         \* current_func_return_type
    error_count,
    ann               \* the data_type check_expression stored into nodes

vars == <<root, phase, todo, tab, ret_type, error_count, ann>>

-----------------------------------------------------------------------------
(* check_expression.  A judgement is the type it returns, the errors it    *)
(* reported and the annotations it left in the tree.                       *)

Arith   == {"INT", "FLOAT"}
Ordered == {"INT", "FLOAT", "CHAR", "STRING"}

Promoted(t1, t2) == IF "FLOAT" \in {t1, t2} THEN "FLOAT" ELSE "INT"

(* int may stand where float is expected, and VOID, the type of what is    *)
(* already in error, anywhere.                                             *)
Accepts(expected, got) == \/ got \in {"VOID", expected}
                          \/ expected = "FLOAT" /\ got = "INT"

Count(error) == IF error THEN 1 ELSE 0

Judged(type, errors, notes) == [type |-> type, errors |-> errors, ann |-> notes]

(* Mutant: a bad operand of % is not reported.                             *)
BinaryType_SilentMod(op, t1, t2) ==
    IF "VOID" \in {t1, t2} THEN <<"VOID", FALSE>>
    ELSE IF op = "ADD" /\ "STRING" \in {t1, t2} THEN <<"STRING", FALSE>>
    ELSE
    CASE op \in {"ADD", "SUB", "MUL", "DIV"} ->
            IF {t1, t2} \subseteq Arith THEN <<Promoted(t1, t2), FALSE>>
                                        ELSE <<"VOID", TRUE>>
      [] op = "MOD" -> <<IF {t1, t2} = {"INT"} THEN "INT" ELSE "VOID", FALSE>>
      [] op \in {"LT", "GT", "LE", "GE"} ->
            <<"BOOL", ~({t1, t2} \subseteq Ordered)>>
      [] op \in {"EQ", "NEQ"} -> <<"BOOL", t1 # t2>>
      [] OTHER                -> <<"BOOL", {t1, t2} # {"BOOL"}>>

(* The type of a binary operator's result and whether it is an error.      *)
BinaryType(op, t1, t2) ==
    IF "VOID" \in {t1, t2} THEN <<"VOID", FALSE>>
    ELSE IF op = "ADD" /\ "STRING" \in {t1, t2} THEN <<"STRING", FALSE>>
    ELSE
    CASE op \in {"ADD", "SUB", "MUL", "DIV"} ->
            IF {t1, t2} \subseteq Arith THEN <<Promoted(t1, t2), FALSE>>
                                        ELSE <<"VOID", TRUE>>
      [] op = "MOD" -> IF {t1, t2} = {"INT"} THEN <<"INT", FALSE>>
                                             ELSE <<"VOID", TRUE>>
      [] op \in {"LT", "GT", "LE", "GE"} ->
            <<"BOOL", ~({t1, t2} \subseteq Ordered)>>
      [] op \in {"EQ", "NEQ"} -> <<"BOOL", t1 # t2>>
      [] OTHER                -> <<"BOOL", {t1, t2} # {"BOOL"}>>

UnaryType(op, t) == IF op = "NOT" THEN <<"BOOL", t # "BOOL">>
                                  ELSE <<t, t \notin Arith>>

(* What notes say, and for other nodes what older ones say.                *)
Over(notes, older) ==
    [n \in DOMAIN notes \cup DOMAIN older |->
        IF n \in DOMAIN notes THEN notes[n] ELSE older[n]]

(* The notes of all these judgements, which are about separate subtrees.   *)
AllNotes(judgements) ==
    LET About(n) == {i \in DOMAIN judgements : n \in DOMAIN judgements[i].ann}
    IN  [n \in UNION {DOMAIN judgements[i].ann : i \in DOMAIN judgements} |->
            judgements[CHOOSE i \in About(n) : TRUE].ann[n]]

(* The judgement of a node from its type, the errors found in the node     *)
(* itself and its operands' judgements.                                    *)
Composed(n, type, errors, operands) ==
    Judged(type,
           errors + SumFunction([i \in DOMAIN operands |-> operands[i].errors]),
           Over([m \in {n} |-> type], AllNotes(operands)))

(* Mutant: the number of arguments is not compared.                        *)
CallErrors_AnyCount(sym, types) ==
    Cardinality({i \in 1 .. Len(types) :
                    i <= Len(sym.params) /\ ~Accepts(sym.params[i], types[i])})

(* A call of symbol sym with arguments of these types: how many errors.    *)
CallErrors(sym, types) ==
    Count(Len(types) # Len(sym.params))
    + Cardinality({i \in 1 .. Len(types) :
                      i <= Len(sym.params) /\ ~Accepts(sym.params[i], types[i])})

(* A node's judgement, from those of its operands.                         *)
JudgeNode(symtab, n, operands) ==
    LET sym    == symtab_lookup(symtab, Ast[n].name)
        binary == BinaryType(Ast[n].op, operands[1].type, operands[2].type)
        unary  == UnaryType(Ast[n].op, operands[1].type)
    IN CASE Kind(n) = "LITERAL"   -> Judged(Ast[n].type, 0, <<>>)
         [] Kind(n) = "VAR_REF"   ->
               Composed(n, sym.type, Count(sym.kind \in {"NONE", "FUNCTION"}), <<>>)
         [] Kind(n) = "BINARY_OP" -> Composed(n, binary[1], Count(binary[2]), operands)
         [] Kind(n) = "UNARY_OP"  -> Composed(n, unary[1], Count(unary[2]), operands)
         [] Kind(n) = "CALL" /\ sym.kind # "FUNCTION" -> Composed(n, "VOID", 1, <<>>)
         [] OTHER ->
               Composed(n, sym.type,
                        CallErrors(sym, [i \in DOMAIN operands |-> operands[i].type]),
                        operands)

Expression == {n \in Node : Kind(n) \in ExprKind}

OperandNodes(n) == IF Kind(n) = "CALL" THEN Ast[n].args ELSE Ast[n].children

check_expression(symtab, expr) ==
    LET judge[n \in Expression] ==
           JudgeNode(symtab, n, [i \in 1 .. Len(OperandNodes(n)) |->
                                    judge[OperandNodes(n)[i]]])
    IN  judge[expr]

-----------------------------------------------------------------------------
(* traverse_node.                                                          *)

Top       == todo[Len(todo)]
On(kinds) == phase = "checking" /\ todo # <<>> /\ Kind(Top.n) \in kinds

Visit(n)  == [n |-> n, i |-> IF Kind(n) \in {"IF", "WHILE", "FOR"} THEN 1 ELSE 0]
Below     == SubSeq(todo, 1, Len(todo) - 1)
Advanced  == Append(Below, [Top EXCEPT !.i = @ + 1])

Init ==
    /\ root \in Roots
    /\ phase = "start"
    /\ todo = <<>> /\ tab = symtab_init
    /\ ret_type = "VOID" /\ error_count = 0
    /\ ann = <<>>

(* semantic_check.                                                         *)
Begin ==
    /\ phase = "start"
    /\ phase' = "checking" /\ todo' = <<Visit(root)>>
    /\ error_count' = 0
    /\ UNCHANGED <<root, tab, ret_type, ann>>

Finish ==
    /\ phase = "checking" /\ todo = <<>>
    /\ phase' = "checked"
    /\ UNCHANGED <<root, todo, tab, ret_type, error_count, ann>>

(* The first pass: all functions, the first of a name if there are several. *)
ParamTypes(f) == [i \in 1 .. IF Len(Ast[f].params) < MaxParams
                             THEN Len(Ast[f].params) ELSE MaxParams |->
                     Ast[f].params[i].type]

RegisterFunctions ==
    /\ On({"PROGRAM"}) /\ Top.i = 0
    /\ LET names == {Ast[Child(root, i)].name : i \in 1 .. Children(root)}
       IN /\ tab' = [tab EXCEPT ![Len(tab)] =
                        [name \in names |->
                            LET f == FindFunction(root, name)
                            IN  Signature(Ast[f].type, ParamTypes(f))]]
          /\ error_count' = error_count + Children(root) - Cardinality(names)
    /\ todo' = Advanced
    /\ UNCHANGED <<root, phase, ret_type, ann>>

(* The scope of a function's parameters: the first of each name.           *)
ParamNames(f) == {Ast[f].params[i].name : i \in 1 .. Len(Ast[f].params)}

ParamScope(f) ==
    LET params == Ast[f].params
        First(i, name) == /\ params[i].name = name
                          /\ \A j \in 1 .. i - 1 : params[j].name # name
    IN  [name \in ParamNames(f) |->
            Parameter(params[CHOOSE i \in 1 .. Len(params) : First(i, name)].type)]

(* Mutant: a void function leaves the return type of the one before.       *)
EnterFunction_KeepsType ==
    /\ On({"FUNC_DECL"}) /\ Top.i = 0
    /\ tab' = Append(tab, ParamScope(Top.n))
    /\ error_count' = error_count + Len(Ast[Top.n].params) - Cardinality(ParamNames(Top.n))
    /\ ret_type' = IF Ast[Top.n].type = "VOID" THEN ret_type ELSE Ast[Top.n].type
    /\ todo' = Advanced
    /\ UNCHANGED <<root, phase, ann>>

(* Parameters share a scope of their own, outside that of the body's block. *)
EnterFunction ==
    /\ On({"FUNC_DECL"}) /\ Top.i = 0
    /\ tab' = Append(tab, ParamScope(Top.n))
    /\ error_count' = error_count + Len(Ast[Top.n].params) - Cardinality(ParamNames(Top.n))
    /\ ret_type' = Ast[Top.n].type
    /\ todo' = Advanced
    /\ UNCHANGED <<root, phase, ann>>

EnterBlock ==
    /\ On({"BLOCK"}) /\ Top.i = 0
    /\ tab' = symtab_enter_scope(tab)
    /\ todo' = Advanced
    /\ UNCHANGED <<root, phase, ret_type, error_count, ann>>

(* Traverse the next child, unless it is a condition.                      *)
TraverseChild ==
    /\ On({"PROGRAM", "FUNC_DECL", "BLOCK", "IF", "WHILE", "FOR"})
    /\ Top.i \in 1 .. Children(Top.n) /\ Top.i \notin ExprChildren(Top.n)
    /\ todo' = Append(Advanced, Visit(Child(Top.n, Top.i)))
    /\ UNCHANGED <<root, phase, tab, ret_type, error_count, ann>>

(* Mutant: the scope of a function's parameters is not left.               *)
LeaveScope_BlocksOnly ==
    /\ On({"FUNC_DECL", "BLOCK"}) /\ Top.i > Children(Top.n)
    /\ tab' = IF On({"BLOCK"}) THEN symtab_leave_scope(tab) ELSE tab
    /\ todo' = Below
    /\ UNCHANGED <<root, phase, ret_type, error_count, ann>>

LeaveScope ==
    /\ On({"FUNC_DECL", "BLOCK"}) /\ Top.i > Children(Top.n)
    /\ tab' = symtab_leave_scope(tab)
    /\ todo' = Below
    /\ UNCHANGED <<root, phase, ret_type, error_count, ann>>

LeaveNode ==
    /\ On({"PROGRAM", "IF", "WHILE", "FOR"}) /\ Top.i > Children(Top.n)
    /\ todo' = Below
    /\ UNCHANGED <<root, phase, tab, ret_type, error_count, ann>>

(* The first child is judged as an expression; wrong says which types of   *)
(* it are an error here, and others counts the node's other errors.        *)
Judge(symtab, position, others, Wrong(_)) ==
    LET judged == check_expression(symtab, Child(Top.n, position))
    IN  /\ error_count' = error_count + others + judged.errors
                                      + Count(Wrong(judged.type))
        /\ ann' = Over(judged.ann, ann)
        /\ tab' = symtab
        /\ UNCHANGED <<root, phase, ret_type>>

CheckCondition ==
    /\ On({"IF", "WHILE", "FOR"}) /\ Top.i \in ExprChildren(Top.n)
    /\ Judge(tab, Top.i, 0, LAMBDA t : t \notin {"BOOL", "INT", "VOID"})
    /\ todo' = Advanced

(* Mutant: a variable without an initializer is not entered.               *)
CheckVarDecl_InitializedOnly ==
    /\ On({"VAR_DECL"})
    /\ LET decl   == Ast[Top.n]
           errors == Count(decl.type = "VOID") + Count(DeclaredHere(tab, decl.name))
       IN  IF Children(Top.n) > 0
           THEN Judge(symtab_insert(tab, decl.name, Variable(decl.type)), 1,
                      errors, LAMBDA t : ~Accepts(decl.type, t))
           ELSE /\ error_count' = error_count + errors
                /\ UNCHANGED <<root, phase, tab, ret_type, ann>>
    /\ todo' = Below

(* The variable is declared before its initializer is checked.             *)
CheckVarDecl ==
    /\ On({"VAR_DECL"})
    /\ LET decl   == Ast[Top.n]
           symtab == symtab_insert(tab, decl.name, Variable(decl.type))
           errors == Count(decl.type = "VOID") + Count(DeclaredHere(tab, decl.name))
       IN  IF Children(Top.n) > 0
           THEN Judge(symtab, 1, errors, LAMBDA t : ~Accepts(decl.type, t))
           ELSE /\ tab' = symtab /\ error_count' = error_count + errors
                /\ UNCHANGED <<root, phase, ret_type, ann>>
    /\ todo' = Below

(* The right-hand side of an undeclared variable is not looked at.         *)
CheckAssign ==
    /\ On({"ASSIGN"})
    /\ LET sym == symtab_lookup(tab, Ast[Top.n].name)
       IN  IF sym = NoSymbol
           THEN /\ error_count' = error_count + 1
                /\ UNCHANGED <<root, phase, tab, ret_type, ann>>
           ELSE Judge(tab, 1, 0, LAMBDA t : ~Accepts(sym.type, t))
    /\ todo' = Below

CheckReturn ==
    /\ On({"RETURN"})
    /\ IF ret_type # "VOID" /\ Children(Top.n) > 0
       THEN Judge(tab, 1, 0, LAMBDA t : ~Accepts(ret_type, t))
       ELSE /\ error_count' = error_count
                   + Count((ret_type = "VOID") # (Children(Top.n) = 0))
            /\ UNCHANGED <<root, phase, tab, ret_type, ann>>
    /\ todo' = Below

(* Mutant: what print prints is not judged, since any type will do.        *)
CheckPrint_Skips ==
    /\ On({"PRINT"})
    /\ todo' = Below
    /\ UNCHANGED <<root, phase, tab, ret_type, error_count, ann>>

CheckPrint ==
    /\ On({"PRINT"})
    /\ Judge(tab, 1, 0, LAMBDA t : FALSE)
    /\ todo' = Below

(* An expression statement, a call included, is the switch's default.      *)
SkipExpression ==
    /\ On(ExprKind)
    /\ todo' = Below
    /\ UNCHANGED <<root, phase, tab, ret_type, error_count, ann>>

Step == \/ Begin \/ RegisterFunctions \/ EnterFunction \/ EnterBlock
        \/ TraverseChild \/ LeaveScope \/ LeaveNode \/ CheckCondition
        \/ CheckVarDecl \/ CheckAssign \/ CheckReturn \/ CheckPrint
        \/ SkipExpression \/ Finish

Checked == phase = "checked" /\ UNCHANGED vars

Next == Step \/ Checked

Spec == Init /\ [][Next]_vars

-----------------------------------------------------------------------------
(* Properties.                                                             *)

Accepted == phase = "checked" /\ error_count = 0

(* Types of the checker's state.                                           *)
TypeOK ==
    /\ root \in Roots
    /\ phase \in {"start", "checking", "checked"}
    /\ todo \in Seq([n : Node, i : Nat])
    /\ IsSymbolTable(tab)
    /\ ret_type \in DataType
    /\ error_count \in Nat
    /\ \A n \in DOMAIN ann : n \in Node /\ ann[n] \in DataType

(* The scopes that are open are the global one and that of each function   *)
(* and block being traversed, no more after an error than without one; and *)
(* none is left when the check is done.                                    *)
OpenScopes(k) == {j \in 1 .. k : /\ Kind(todo[j].n) \in {"FUNC_DECL", "BLOCK"}
                                 /\ todo[j].i > 0}

ScopesMirrorTraversal == Len(tab) = 1 + Cardinality(OpenScopes(Len(todo)))

(* What the scope of a block holds was declared by the statements of that  *)
(* block already traversed (or by one that is a part of such a statement   *)
(* without a block of its own): a use never sees a later declaration, one  *)
(* of an inner block that is closed, or one of another function.           *)
Declares(n) ==
    LET names[m \in Node] ==
           IF Kind(m) = "VAR_DECL" THEN {Ast[m].name}
           ELSE IF Kind(m) \in {"IF", "WHILE", "FOR"}
           THEN UNION {names[Child(m, i)] : i \in 1 .. Children(m)}
           ELSE {}
    IN  names[n]

ScopeHoldsTraversed ==
    \A j \in OpenScopes(Len(todo)) :
       LET scope == tab[1 + Cardinality(OpenScopes(j))]
           n     == todo[j].n
       IN  IF Kind(n) = "FUNC_DECL"
           THEN DOMAIN scope = ParamNames(n)
           ELSE /\ DOMAIN scope \subseteq
                      UNION {Declares(Child(n, i)) : i \in 1 .. todo[j].i - 1}
                /\ UNION {Declares(Child(n, i)) : i \in 1 .. todo[j].i - 2}
                      \subseteq DOMAIN scope

(* Every function is known, with the signature of its first declaration,   *)
(* before any body is traversed, and nothing a body does changes that: so  *)
(* mutual recursion is accepted and a local name never outlives its        *)
(* function.  No other scope holds a function: symtab_leave_scope, unlike  *)
(* symtab_free, does not release param_types.                              *)
GlobalIsProgram ==
    Len(todo) > 1 =>
       /\ DOMAIN Global(tab) = {Ast[Child(root, i)].name : i \in 1 .. Children(root)}
       /\ \A name \in DOMAIN Global(tab) :
             LET f == FindFunction(root, name)
             IN  Global(tab)[name] = Signature(Ast[f].type, ParamTypes(f))
       /\ \A d \in 2 .. Len(tab) : \A name \in DOMAIN tab[d] :
             tab[d][name].kind # "FUNCTION"

(* The static variable current_func_return_type is never that of a         *)
(* function traversed before.                                              *)
ReturnTypeIsEnclosing ==
    On({"RETURN"}) => /\ Kind(todo[2].n) = "FUNC_DECL"
                      /\ ret_type = Ast[todo[2].n].type

(* An error that silences later ones has itself been reported: as long as  *)
(* no error is counted, an expression is VOID only because of a call of a  *)
(* void function or a void parameter in it.                                *)
VoidSource(n) ==
    \/ /\ Kind(n) = "CALL"
       /\ LET f == FindFunction(root, Ast[n].name)
          IN  f # NoNode /\ Ast[f].type = "VOID"
    \/ /\ Kind(n) = "VAR_REF"
       /\ \E f \in 1 .. Children(root) :
             LET params == Ast[Child(root, f)].params
             IN  \E i \in 1 .. Len(params) :
                    params[i] = [name |-> Ast[n].name, type |-> "VOID"]

ErrorsNotMasked ==
    error_count = 0 =>
       \A n \in DOMAIN ann : ann[n] = "VOID" => \E m \in Subtree(n) : VoidSource(m)

(* The operands of an expression that was judged were judged too.          *)
Typed(n) == Kind(n) = "LITERAL" \/ n \in DOMAIN ann

(* Nothing of an accepted program has been skipped but its expression      *)
(* statements: every expression the interpreter can evaluate elsewhere,    *)
(* and every operator the C backend must choose a translation for, has     *)
(* been judged and carries its type.                                       *)
OnlyStatementsSkipped ==
    Accepted =>
       \A n \in Subtree(root) :
          Kind(n) \in StmtKind =>
             \A i \in ExprChildren(n) : \A m \in Subtree(Child(n, i)) : Typed(m)

(* What semantic.h promises of every call (rule 4): in a program that is   *)
(* accepted it names a function and gives it all its arguments.            *)
CallsValidated ==
    Accepted =>
       \A n \in Subtree(root) :
          Kind(n) = "CALL" =>
             LET f == FindFunction(root, Ast[n].name)
             IN  f # NoNode /\ Len(Ast[n].args) = Len(Ast[f].params)
=============================================================================
