------------------------------ MODULE Codegen ------------------------------
(***************************************************************************)
(* The three-address-code generator, codegen.c, as the sequence of what it *)
(* does: `todo' is what the recursion of gen_expr and gen_stmt still has   *)
(* to do, the next thing first, and `operands' are the strings gen_expr    *)
(* has returned and nobody has used yet, the latest last.                  *)
(***************************************************************************)
EXTENDS LumisValues, SequencesExt

CONSTANT TempName   \* what new_temp makes of its counter: "t1", "t2", ...

ASSUME CodegenAssumption ==
    IsInjective(TempName) /\ \A k \in DOMAIN TempName : TempName[k] # ""

VARIABLES
    program,       \* the tree
    todo, operands,
    code,          \* the instructions written
    temp_counter, label_counter

genVars == <<program, todo, operands, code, temp_counter, label_counter>>

(* An operand is a name, of a variable or a temporary alike, or a literal: *)
(* its value as the interpreter has it.  The text of a literal (%g, a      *)
(* quoted character, a string without escapes) is left out.                *)
Name(x)  == [name |-> x, lit |-> IntZero]
Const(v) == [name |-> "", lit |-> v]

(* An instruction: sym is an operator or a function's name, num a label or *)
(* the number after a call.                                                *)
Computes == {"UNARY", "BINARY", "CALL"}     \* into a temporary
Ins(op, dst, sym, num) ==
    [op |-> op, dst |-> dst, sym |-> sym, num |-> num, args |-> <<>>]

-----------------------------------------------------------------------------
(* What there is to do: gen_expr or gen_stmt on a node, an instruction to  *)
(* write with the last `takes' operands, or an operand to free.            *)
Item(do, n, ins, takes) == [do |-> do, n |-> n, ins |-> ins, takes |-> takes]
Expr(n)       == Item("expr", n, Ins("", "", "", 0), 0)
Stmt(n)       == Item("stmt", n, Ins("", "", "", 0), 0)
Free          == Item("free", NoNode, Ins("", "", "", 0), 1)
Write(takes, op, dst, sym, num) == Item("write", NoNode, Ins(op, dst, sym, num), takes)

Label(l)   == Write(0, "LABEL", "", "", l)
Goto(l)    == Write(0, "GOTO", "", "", l)
IfFalse(l) == Write(1, "IF_FALSE", "", "", l)
Exprs(ns)  == [i \in DOMAIN ns |-> Expr(ns[i])]
Stmts(ns)  == [i \in DOMAIN ns |-> Stmt(ns[i])]

(* Each argument is computed and pushed before the next.                   *)
GenArgs(n) ==
    [j \in 1 .. 2 * Len(Ast[n].args) |->
        IF j % 2 = 1 THEN Expr(Ast[n].args[(j + 1) \div 2])
                     ELSE Write(1, "PARAM", "", "", 0)]

(* Mutant: CALL takes as many parameters as the callee declares.           *)
GenCall_Declared(n) ==
    LET f == FindFunction(program, Ast[n].name)
    IN  Append(GenArgs(n), Write(0, "CALL", "", Ast[n].name,
                                 IF f = NoNode THEN 0 ELSE Len(Ast[f].params)))

GenCall(n) == Append(GenArgs(n),
                     Write(0, "CALL", "", Ast[n].name, Len(Ast[n].args)))

(* Mutant: the then branch falls into the else branch.                     *)
GenElse_FallsIn(n, l) == <<Label(l), Stmt(Child(n, 3))>>

GenElse(n, l) == <<Goto(l + 1), Label(l), Stmt(Child(n, 3))>>

(* label_else is l and label_end l + 1, made whether or not there is an    *)
(* else.                                                                   *)
GenIf(n, l) ==
    LET hasElse == Children(n) > 2
    IN  <<Expr(Child(n, 1)), IfFalse(IF hasElse THEN l ELSE l + 1),
          Stmt(Child(n, 2))>>
        \o (IF hasElse THEN GenElse(n, l) ELSE <<>>) \o <<Label(l + 1)>>

(* label_start is l and label_end l + 1.                                   *)
GenLoop(l, init, cond, body) ==
    Stmts(init) \o <<Label(l), Expr(cond), IfFalse(l + 1)>> \o Stmts(body)
    \o <<Goto(l), Label(l + 1)>>

(* gen_expr, of a node that is not its own operand.                        *)
ExprItems(n) ==
    CASE Kind(n) = "CALL"      -> GenCall(n)
      [] Kind(n) = "UNARY_OP"  -> <<Expr(Child(n, 1)),
                                    Write(1, "UNARY", "", Ast[n].op, 0)>>
      [] Kind(n) = "BINARY_OP" -> <<Expr(Child(n, 1)), Expr(Child(n, 2)),
                                    Write(2, "BINARY", "", Ast[n].op, 0)>>

(* gen_stmt.  A declaration without initializer and an expression          *)
(* statement other than a call write nothing.                              *)
StmtItems(n) ==
    LET l     == label_counter
        count == Children(n)
        value == Exprs(Ast[n].children)
    IN  CASE Kind(n) \in {"PROGRAM", "BLOCK"} -> Stmts(Ast[n].children)
          [] Kind(n) = "FUNC_DECL" ->
                <<Write(0, "FUNC", "", Ast[n].name, 0)>> \o Stmts(Ast[n].children)
                \o <<Write(0, "END", "", "", 0)>>
          [] Kind(n) \in {"ASSIGN", "VAR_DECL"} /\ count > 0 ->
                Append(value, Write(1, "COPY", Ast[n].name, "", 0))
          [] Kind(n) = "IF"    -> GenIf(n, l)
          [] Kind(n) = "WHILE" -> GenLoop(l, <<>>, Child(n, 1), <<Child(n, 2)>>)
          [] Kind(n) = "FOR"   -> GenLoop(l, <<Child(n, 1)>>, Child(n, 2),
                                          <<Child(n, 4), Child(n, 3)>>)
          [] Kind(n) \in {"RETURN", "PRINT"} ->
                Append(value, Write(count, Kind(n), "", "", 0))
          [] Kind(n) = "CALL"  -> <<Expr(n), Free>>
          [] OTHER -> <<>>

-----------------------------------------------------------------------------
GenInit ==
    /\ program \in Roots
    /\ todo = <<Stmt(program)>> /\ operands = <<>> /\ code = <<>>
    /\ temp_counter = 1 /\ label_counter = 1

Job     == Head(todo)
Doing(do) == todo # <<>> /\ Job.do = do

(* gen_expr of a literal or a variable: its text is the operand.           *)
GenOperand ==
    /\ Doing("expr") /\ Kind(Job.n) \in {"LITERAL", "VAR_REF"}
    /\ LET n == Ast[Job.n]
       IN  operands' = Append(operands, IF n.kind = "VAR_REF" THEN Name(n.name)
                                        ELSE Const(Typed(n.type, n.num)))
    /\ todo' = Tail(todo)
    /\ UNCHANGED <<program, code, temp_counter, label_counter>>

GenExpr ==
    /\ Doing("expr") /\ Kind(Job.n) \notin {"LITERAL", "VAR_REF"}
    /\ todo' = ExprItems(Job.n) \o Tail(todo)
    /\ UNCHANGED <<program, operands, code, temp_counter, label_counter>>

(* Mutant: new_label does not count on.                                    *)
GenStmt_SameLabels ==
    /\ Doing("stmt")
    /\ todo' = StmtItems(Job.n) \o Tail(todo)
    /\ UNCHANGED <<program, operands, code, temp_counter, label_counter>>

GenStmt ==
    /\ Doing("stmt")
    /\ todo' = StmtItems(Job.n) \o Tail(todo)
    /\ label_counter' = label_counter + (IF Kind(Job.n) \in {"IF", "WHILE", "FOR"}
                                         THEN 2 ELSE 0)
    /\ UNCHANGED <<program, operands, code, temp_counter>>

new_temp == TempName[temp_counter]

Untaken == SubSeq(operands, 1, Len(operands) - Job.takes)
Taken   == SubSeq(operands, Len(operands) - Job.takes + 1, Len(operands))

(* Mutant: new_temp takes the lowest number that no waiting operand has.   *)
GenWrite_Reuses ==
    /\ Doing("write")
    /\ LET computes == Job.ins.op \in Computes
           t == TempName[1 + Len(Untaken)]
       IN  /\ code' = Append(code, [Job.ins EXCEPT
                         !.args = Taken, !.dst = IF computes THEN t ELSE @])
           /\ operands' = IF computes THEN Append(Untaken, Name(t)) ELSE Untaken
           /\ temp_counter' = temp_counter + (IF computes THEN 1 ELSE 0)
    /\ todo' = Tail(todo)
    /\ UNCHANGED <<program, label_counter>>

(* An instruction, with new_temp if it computes something.  The names there *)
(* are bound the length of a text.                                         *)
GenWrite ==
    /\ Doing("write")
    /\ LET computes == Job.ins.op \in Computes
           t == new_temp
       IN  /\ computes => temp_counter \in DOMAIN TempName
           /\ code' = Append(code, [Job.ins EXCEPT
                         !.args = Taken, !.dst = IF computes THEN t ELSE @])
           /\ operands' = IF computes THEN Append(Untaken, Name(t)) ELSE Untaken
           /\ temp_counter' = temp_counter + (IF computes THEN 1 ELSE 0)
    /\ todo' = Tail(todo)
    /\ UNCHANGED <<program, label_counter>>

GenFree ==
    /\ Doing("free")
    /\ operands' = Untaken /\ todo' = Tail(todo)
    /\ UNCHANGED <<program, code, temp_counter, label_counter>>

GenStep == GenOperand \/ GenExpr \/ GenStmt \/ GenWrite \/ GenFree
=============================================================================
